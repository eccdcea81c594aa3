----------------------------- MODULE MCServices -----------------------------
(***************************************************************************)
(* Instances of two services on top of the kernel, the virtual file system *)
(* and the POSIX message queues, for the same tasks.  They share nothing,  *)
(* so that a behaviour exercises one of them, chosen at its start.         *)
(***************************************************************************)
EXTENDS LosVfs, LosMqueue, TLC

VARIABLE part

MCMountPath == {<<"a">>, <<"a", "b">>}
MCPath      == {<<"a", "f">>, <<"a", "b", "f">>}

\* The first call that takes g_mqueueMutex is in progress alone until it has
\* made the mutex.
FirstUseAlone ==
  /\ MqueueNext
  /\ \A t, u \in Thread : progress[t].at = "create" => progress'[u] = progress[u] \/ u = t

Init == part \in {"files", "queues"} /\ VfsInit /\ MqueueInit

Next == \/ part = "files"  /\ CarefulVfsNext /\ UNCHANGED <<part, mqueueVars>>
        \/ part = "queues" /\ FirstUseAlone  /\ UNCHANGED <<part, vfsVars>>

Spec == Init /\ [][Next]_<<part, vfsVars, mqueueVars>>

\* Files and descriptors are a pair of values, mount points and mutexes another.
Interchangeable == Permutations(Task) \cup Permutations(Fd) \cup Permutations(Mp)

\* Without the two precautions.
RashNext == \/ part = "files"  /\ VfsNext    /\ UNCHANGED <<part, mqueueVars>>
            \/ part = "queues" /\ MqueueNext /\ UNCHANGED <<part, vfsVars>>

RashSpec == Init /\ [][RashNext]_<<part, vfsVars, mqueueVars>>
=============================================================================
