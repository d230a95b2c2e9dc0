--------------------------- MODULE DownloadProofs ---------------------------
(***************************************************************************)
(* Proofs about Download, for any set of invocations, signals and kills.   *)
(* IndInv is inductive: the lock file names the one invocation that may    *)
(* touch DST.part, so what that invocation saw (DST missing, wget's exit   *)
(* status) still holds when it acts on it.                                 *)
(***************************************************************************)
EXTENDS Download, TLAPS

\* The initial states of scripts/download satisfy the inductive invariant.
LEMMA InitIndInv == Init => IndInv
BY ConstantsAssumption
   DEF Init, IndInv, TypeOK, OneDownloader, LockNamesHolder, LockIsExplained,
       WgetHasShell, PartIsReady, StillMissing, StatusIsSet, NeverPartial,
       SuccessMeansArchive, Touches, Contents, Labels, Stopped, Dead, Locked,
       OnExit

\* No step of a shell, of a wget or of a signal leaves the types.
LEMMA TypeStep == TypeOK /\ [Next]_vars => TypeOK'
<1> SUFFICES ASSUME TypeOK, [Next]_vars PROVE TypeOK'
  OBVIOUS
<1> USE ConstantsAssumption DEF TypeOK, Contents, Labels, Stopped, Dead, Locked,
          OnExit, Goto, At, shellVars
<1>1. ASSUME NEW p \in Proc, Start(p) PROVE TypeOK'
  BY <1>1 DEF Start
<1>2. ASSUME NEW p \in Proc, Script(p) PROVE TypeOK'
  <2>1. CASE WriteOurLock(p)
    BY <2>1 DEF WriteOurLock
  <2>2. CASE Lock(p)
    BY <2>2 DEF Lock
  <2>3. CASE FoundDst(p) \/ MissesDst(p)
    BY <2>3 DEF FoundDst, MissesDst
  <2>4. CASE StartWget(p) \/ ReapWget(p)
    BY <2>4 DEF StartWget, ReapWget
  <2>5. CASE Publish(p) \/ Discard(p)
    BY <2>5 DEF Publish, Discard
  <2>6. CASE ReadLocker(p) \/ Unlock(p) \/ Cleanup(p)
    BY <2>6 DEF ReadLocker, Unlock, Cleanup
  <2>7. ASSUME NEW s \in Signals, RunTrap(p, s) PROVE TypeOK'
    BY <2>7 DEF RunTrap
  <2> QED BY <1>2, <2>1, <2>2, <2>3, <2>4, <2>5, <2>6, <2>7 DEF Script
<1>3. ASSUME NEW p \in Proc, Wget(p) PROVE TypeOK'
  BY <1>3 DEF Wget, WgetDone, WgetFailed
<1>4. ASSUME NEW p \in Proc, Kill(p) PROVE TypeOK'
  BY <1>4 DEF Kill
<1>5. ASSUME NEW p \in Proc, NEW s \in Signals, Signal(p, s) PROVE TypeOK'
  BY <1>5 DEF Signal
<1>6. CASE UNCHANGED vars
  BY <1>6 DEF vars
<1> QED BY <1>1, <1>2, <1>3, <1>4, <1>5, <1>6 DEF Next

\* Every step of scripts/download keeps the inductive invariant.
LEMMA StepIndInv == IndInv /\ [Next]_vars => IndInv'
<1> SUFFICES ASSUME IndInv, [Next]_vars PROVE IndInv'
  OBVIOUS
<1> DEFINE Rest == /\ OneDownloader
                   /\ LockNamesHolder
                   /\ LockIsExplained
                   /\ WgetHasShell
                   /\ PartIsReady
                   /\ StillMissing
                   /\ StatusIsSet
                   /\ NeverPartial
                   /\ SuccessMeansArchive
<1>t. TypeOK /\ TypeOK'
  BY TypeStep DEF IndInv
<1>r. Rest
  BY DEF IndInv
<1> SUFFICES Rest'
  BY <1>t DEF IndInv
<1> USE <1>t, <1>r, ConstantsAssumption
    DEF OneDownloader, LockNamesHolder, LockIsExplained, WgetHasShell,
        PartIsReady, StillMissing, StatusIsSet, NeverPartial,
        SuccessMeansArchive, Touches, TypeOK, Contents, Labels, Stopped, Dead,
        Locked, OnExit, Goto, At, shellVars
<1>1. ASSUME NEW p \in Proc, Start(p) PROVE Rest'
  BY <1>1 DEF Start
<1>2. ASSUME NEW p \in Proc, Script(p) PROVE Rest'
  <2>1. CASE WriteOurLock(p)
    BY <2>1 DEF WriteOurLock
  <2>2. CASE Lock(p)
    BY <2>2 DEF Lock
  <2>3. CASE FoundDst(p)
    BY <2>3 DEF FoundDst
  <2>4. CASE MissesDst(p)
    BY <2>4 DEF MissesDst
  <2>5. CASE StartWget(p)
    BY <2>5 DEF StartWget
  <2>6. CASE ReapWget(p)
    BY <2>6 DEF ReapWget
  <2>7. CASE Publish(p)
    BY <2>7 DEF Publish
  <2>8. CASE Discard(p)
    BY <2>8 DEF Discard
  <2>9. CASE ReadLocker(p)
    BY <2>9 DEF ReadLocker
  <2>10. CASE Unlock(p)
    BY <2>10 DEF Unlock
  <2>11. CASE Cleanup(p)
    BY <2>11 DEF Cleanup
  <2>12. ASSUME NEW s \in Signals, RunTrap(p, s) PROVE Rest'
    BY <2>12 DEF RunTrap
  <2> QED BY <1>2, <2>1, <2>2, <2>3, <2>4, <2>5, <2>6, <2>7, <2>8, <2>9, <2>10,
             <2>11, <2>12 DEF Script
<1>3. ASSUME NEW p \in Proc, WgetDone(p) PROVE Rest'
  BY <1>3 DEF WgetDone
<1>4. ASSUME NEW p \in Proc, WgetFailed(p) PROVE Rest'
  BY <1>4 DEF WgetFailed
<1>5. ASSUME NEW p \in Proc, Kill(p) PROVE Rest'
  BY <1>5 DEF Kill
<1>6. ASSUME NEW p \in Proc, NEW s \in Signals, Signal(p, s) PROVE Rest'
  BY <1>6 DEF Signal
<1>7. CASE UNCHANGED vars
  BY <1>7 DEF vars
<1> QED BY <1>1, <1>2, <1>3, <1>4, <1>5, <1>6, <1>7 DEF Next, Wget

\* IndInv holds in every reachable state of scripts/download.
THEOREM Invariance == Spec => []IndInv
BY InitIndInv, StepIndInv, PTL DEF Spec

\* The variables of scripts/download stay within their types.
THEOREM TypeCorrect == Spec => []TypeOK
<1>1. IndInv => TypeOK
  BY DEF IndInv
<1> QED BY <1>1, Invariance, PTL

\* However many invocations, signals, kills and orphaned wgets there are, at
\* most one of them works on DST.part.
THEOREM MutualExclusion == Spec => []OneDownloader
<1>1. IndInv => OneDownloader
  BY DEF IndInv
<1> QED BY <1>1, Invariance, PTL

\* DST is never a partial archive, whoever fetches it and is stopped when.
THEOREM WholeOrAbsent == Spec => []NeverPartial
<1>1. IndInv => NeverPartial
  BY DEF IndInv
<1> QED BY <1>1, Invariance, PTL

\* Who ended by itself or through one signal has left no lock behind.
THEOREM LocksReleased == Spec => []LeavesNoLock
<1>1. IndInv => LeavesNoLock
  BY DEF IndInv, LockIsExplained, LeavesNoLock, Locked
<1> QED BY <1>1, Invariance, PTL

\* Exit status 0 is given only when the whole archive is there.
THEOREM SuccessIsTrue == Spec => []SuccessMeansArchive
<1>1. IndInv => SuccessMeansArchive
  BY DEF IndInv
<1> QED BY <1>1, Invariance, PTL

-----------------------------------------------------------------------------
(* Refinement *)

LEMMA InitRefines == Init => Fetches!Init
BY DEF Init, Fetches!Init, CallerState

\* A step of p that changes neither DST nor what p told make is invisible.
LEMMA Invisible ==
  ASSUME NEW p \in Proc, TypeOK, TypeOK',
         dst' = dst, status' = status,
         \A q \in Proc : (pc[q] = "idle") <=> (pc'[q] = "idle")
  PROVE  UNCHANGED Fetches!vars
BY DEF Fetches!vars, CallerState, TypeOK

\* Every step is a step of AtomicFetch or leaves its variables unchanged.
LEMMA StepRefines == IndInv /\ [Next]_vars => [Fetches!Next]_(Fetches!vars)
<1> SUFFICES ASSUME IndInv, [Next]_vars PROVE [Fetches!Next]_(Fetches!vars)
  OBVIOUS
<1>t. TypeOK /\ TypeOK'
  BY TypeStep DEF IndInv
<1> USE DEF TypeOK, Goto, At, shellVars, Labels, Stopped, Dead, Locked, OnExit,
            Contents
<1>1. ASSUME NEW p \in Proc, Start(p) PROVE Fetches!Call(p)
  BY <1>1, <1>t DEF Start, Fetches!Call, CallerState, IndInv, StatusIsSet
<1>2. ASSUME NEW p \in Proc,
             \/ WriteOurLock(p) \/ Lock(p) \/ MissesDst(p) \/ StartWget(p)
             \/ ReapWget(p) \/ ReadLocker(p) \/ Unlock(p) \/ Cleanup(p)
      PROVE  UNCHANGED Fetches!vars
  BY <1>2, <1>t, Invisible
     DEF WriteOurLock, Lock, MissesDst, StartWget, ReapWget, ReadLocker,
         Unlock, Cleanup
<1>3. ASSUME NEW p \in Proc, Wget(p) PROVE UNCHANGED Fetches!vars
  BY <1>3, <1>t, Invisible DEF Wget, WgetDone, WgetFailed
<1> DEFINE caller == [q \in Proc |-> CallerState(q)]
<1>4. ASSUME NEW p \in Proc, FoundDst(p) PROVE Fetches!Succeed(p)
  <2>1. pc[p] = "check" /\ status[p] = "none" /\ dst = "whole" /\ dst' = dst
    BY <1>4, <1>t DEF FoundDst, IndInv, StatusIsSet, NeverPartial
  <2>2. caller[p] = "busy" /\ caller' = [caller EXCEPT ![p] = "ok"]
    BY <1>4, <1>t, <2>1 DEF FoundDst, CallerState
  <2> QED BY <2>1, <2>2 DEF Fetches!Succeed
<1>5. ASSUME NEW p \in Proc, Publish(p) PROVE Fetches!Fetch(p)
  <2>1. pc[p] = "mv" /\ status[p] = "none" /\ dst = "absent" /\ dst' = "whole"
    BY <1>5, <1>t DEF Publish, IndInv, StatusIsSet, StillMissing, PartIsReady
  <2>2. caller[p] = "busy" /\ caller' = [caller EXCEPT ![p] = "ok"]
    BY <1>5, <1>t, <2>1 DEF Publish, CallerState
  <2> QED BY <2>1, <2>2 DEF Fetches!Fetch
<1>6. ASSUME NEW p \in Proc,
             \/ Discard(p) \/ Kill(p)
             \/ \E s \in Signals : RunTrap(p, s) \/ Signal(p, s)
      PROVE  Fetches!Fail(p) \/ UNCHANGED Fetches!vars
  <2>1. dst' = dst
    BY <1>6 DEF Discard, Kill, RunTrap, Signal
  <2>2. \/ pc' = pc /\ status' = status
        \/ /\ pc[p] # "idle"
           /\ \E label \in Labels \ {"idle"} : pc' = [pc EXCEPT ![p] = label]
           /\ status' = [status EXCEPT ![p] = "fail"]
    BY <1>6 DEF Discard, Kill, RunTrap, Signal
  <2>3. CASE pc' = pc /\ status' = status
    BY <2>1, <2>3, <1>t, Invisible
  <2>4. CASE /\ pc[p] # "idle"
             /\ \E label \in Labels \ {"idle"} : pc' = [pc EXCEPT ![p] = label]
             /\ status' = [status EXCEPT ![p] = "fail"]
    <3>1. caller[p] \in {"busy", "ok", "fail"}
      BY <2>4, <1>t DEF CallerState
    <3>2. caller' = [caller EXCEPT ![p] = "fail"]
      BY <2>4, <1>t DEF CallerState
    <3>3. CASE caller[p] = "fail"
      BY <3>2, <3>3, <2>1 DEF Fetches!vars
    <3> QED BY <3>1, <3>2, <3>3, <2>1 DEF Fetches!Fail
  <2> QED BY <2>2, <2>3, <2>4
<1>7. CASE UNCHANGED vars
  BY <1>7 DEF vars, Fetches!vars, CallerState
<1> QED BY <1>1, <1>2, <1>3, <1>4, <1>5, <1>6, <1>7
           DEF Next, Script, Fetches!Next

\* scripts/download implements AtomicFetch: its callers see an archive that
\* appears once, whole, and before anybody is told of success.
THEOREM Implementation == Spec => ImplementsAtomicFetch
BY Invariance, InitRefines, StepRefines, PTL
   DEF Spec, Fetches!Spec, ImplementsAtomicFetch
=============================================================================
