---------------------------- MODULE AtomicFetch ----------------------------
(***************************************************************************)
(* What scripts/download promises to the make processes that call it: the  *)
(* archive appears once, complete, in one step, and a caller that is told  *)
(* it succeeded finds it.  Locks, temporary files, wget and signals are    *)
(* hidden; scripts/download (module Download) implements this module.      *)
(***************************************************************************)
CONSTANT Proc           \* the invocations of the script for one archive

VARIABLES present,      \* the archive is in the download directory
          caller        \* what each invocation has told its make

vars == <<present, caller>>

Init == /\ present \in BOOLEAN
        /\ caller = [p \in Proc |-> "idle"]

Call(p) == /\ caller[p] # "busy"
           /\ caller' = [caller EXCEPT ![p] = "busy"]
           /\ UNCHANGED present

\* Only a busy caller brings the archive, and only when it is not there.
Fetch(p) == /\ caller[p] = "busy"
            /\ ~present
            /\ present' = TRUE
            /\ caller' \in {caller, [caller EXCEPT ![p] = "ok"]}

Succeed(p) == /\ caller[p] = "busy"
              /\ present
              /\ caller' = [caller EXCEPT ![p] = "ok"]
              /\ UNCHANGED present

\* wget failed, or a signal ended the script.
Fail(p) == /\ caller[p] \in {"busy", "ok"}
           /\ caller' = [caller EXCEPT ![p] = "fail"]
           /\ UNCHANGED present

Next == \E p \in Proc : Call(p) \/ Fetch(p) \/ Succeed(p) \/ Fail(p)

Spec == Init /\ [][Next]_vars
=============================================================================
