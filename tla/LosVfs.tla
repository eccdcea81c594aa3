------------------------------- MODULE LosVfs -------------------------------
(***************************************************************************)
(* The virtual file system (components/fs/vfs/los_vfs.c): open files,      *)
(* mount points, file systems, and the two levels of mutexes that protect  *)
(* them from the tasks that share them.  fs_mutex is taken first and is    *)
(* released as soon as the mutex of the mount point is held; the call of   *)
(* the file system itself is made under the latter alone.  A mutex is as   *)
(* Mutex.tla promises (LosMux implements it): LOS_MuxPend with             *)
(* LOS_WAIT_FOREVER is enabled when the mutex is free.                     *)
(***************************************************************************)
EXTENDS Integers, Sequences, FiniteSets, SequencesExt

CONSTANTS Task,
          Fd,          \* files[LOS_MAX_FILES]
          Mp,          \* the addresses malloc gives to mount points
          Fs,          \* the file systems
          MountPath,   \* paths are sequences of names: those mounted ...
          Path,        \* ... and those of files and directories
          MaxRefs      \* a bound on m_refs, which failing closes leave too high

FsMutex == "fs_mutex"
None    == "none"

ASSUME VfsAssumption == /\ IsFiniteSet(Fd) /\ IsFiniteSet(Mp) /\ IsFiniteSet(Task)
                        /\ MaxRefs \in Nat \ {0}
                        /\ FsMutex \notin Mp /\ None \notin Task \cup Mp \cup Fd
                        /\ Fd \cap Task = {}
                        /\ MountPath \cup Path \subseteq Seq(STRING)

VARIABLES files,       \* the status and mount point of each file
          dirs,        \* the mount points of the directories each task has open
          mounts,      \* mount_points: file system, path and m_refs, by address
          registered,  \* file_systems
          fsRefs,      \* fs_refs of each file system
          owner,       \* who holds fs_mutex, and the mutex of each mount point
          call         \* where each task is in the call it makes

vfsVars == <<files, dirs, mounts, registered, fsRefs, owner, call>>

Idle == [at |-> "idle", mp |-> None, fd |-> None]
NotUsed == [status |-> "NOT_USED", mp |-> None]

VfsInit == /\ files = [f \in Fd |-> NotUsed]
           /\ dirs = [t \in Task |-> {}]
           /\ mounts = <<>>
           /\ registered = {} /\ fsRefs = [s \in Fs |-> 0]
           /\ owner = [m \in Mp \cup {FsMutex} |-> None]
           /\ call = [t \in Task |-> Idle]

At(t, step)     == call[t].at = step
Goto(t, record) == call' = [call EXCEPT ![t] = record]
Take(t, m)      == owner[m] = None /\ owner' = [owner EXCEPT ![m] = t]
Give(m)         == owner' = [owner EXCEPT ![m] = None]

\* The mutex of the mount point is taken and fs_mutex given back.
Descend(t, m) == owner[m] = None /\ owner' = [owner EXCEPT ![m] = t, ![FsMutex] = None]

\* A mount point that was freed under the task has no contents to go on with.
There(t) == call[t].mp \in DOMAIN mounts

-----------------------------------------------------------------------------
\* The mount point with the longest match.  The root matches nothing.
los_mp_find(path) ==
  LET under == {m \in DOMAIN mounts : Len(mounts[m].path) > 0 /\ IsPrefix(mounts[m].path, path)}
  IN  IF under = {} THEN None
      ELSE CHOOSE m \in under : \A n \in under : Len(mounts[n].path) <= Len(mounts[m].path)

\* The mount point of something in it.
Inside(path) == LET m == los_mp_find(path)
                IN  IF m # None /\ mounts[m].path # path THEN m ELSE None

Opened(m) == /\ mounts[m].refs < MaxRefs
             /\ mounts' = [mounts EXCEPT ![m].refs = @ + 1]
Closed(m) == mounts' = [mounts EXCEPT ![m].refs = @ - 1]

\* los_open: a file is reserved and the mount point found under fs_mutex ...
OpenFind(t, path, f) ==
  /\ At(t, "idle") /\ files[f].status = "NOT_USED"
  /\ Take(t, FsMutex)
  /\ files' = [files EXCEPT ![f].status = "INITING"]
  /\ Goto(t, [at |-> IF Inside(path) = None THEN "not found" ELSE "open",
              mp |-> Inside(path), fd |-> f])
  /\ UNCHANGED <<dirs, mounts, registered, fsRefs>>

OpenNotFound(t) ==
  /\ At(t, "not found")
  /\ Give(FsMutex)
  /\ Goto(t, [call[t] EXCEPT !.at = "put"])
  /\ UNCHANGED <<files, dirs, mounts, registered, fsRefs>>

\* ... the file is filled in, and opened by the file system ...
OpenEnter(t) ==
  /\ At(t, "open")
  /\ Descend(t, call[t].mp)
  /\ files' = [files EXCEPT ![call[t].fd].mp = call[t].mp]
  /\ Goto(t, [call[t] EXCEPT !.at = "opening"])
  /\ UNCHANGED <<dirs, mounts, registered, fsRefs>>

Fault_ReadyUncounted(t, ok) ==
  /\ At(t, "opening") /\ There(t)
  /\ files' = [files EXCEPT ![call[t].fd] = IF ok THEN [@ EXCEPT !.status = "READY"] ELSE NotUsed]
  /\ Give(call[t].mp) /\ Goto(t, Idle)
  /\ UNCHANGED <<dirs, mounts, registered, fsRefs>>

\* ... which may fail.
OpenDone(t, ok) ==
  /\ At(t, "opening") /\ There(t)
  /\ \/ /\ ok /\ Opened(call[t].mp)
        /\ files' = [files EXCEPT ![call[t].fd].status = "READY"]
     \/ /\ ~ok /\ files' = [files EXCEPT ![call[t].fd] = NotUsed]
        /\ UNCHANGED mounts
  /\ Give(call[t].mp) /\ Goto(t, Idle)
  /\ UNCHANGED <<dirs, registered, fsRefs>>

\* los_file_put at the end of a call, under no mutex.
FilePut(t) ==
  /\ At(t, "put")
  /\ files' = [files EXCEPT ![call[t].fd] = NotUsed]
  /\ Goto(t, Idle)
  /\ UNCHANGED <<dirs, mounts, registered, fsRefs, owner>>

-----------------------------------------------------------------------------
Fault_ChecksFirst(t, f, to) ==
  /\ At(t, "idle") /\ files[f].status = "READY"
  /\ IF to = "attach to use" THEN UNCHANGED owner ELSE Take(t, FsMutex)
  /\ Goto(t, [at |-> to, mp |-> files[f].mp, fd |-> f])
  /\ UNCHANGED <<files, dirs, mounts, registered, fsRefs>>

\* _los_attach_file: the status is checked under fs_mutex, which is kept until
\* the mutex of the mount point is held.
Attach(t, f, to) ==
  /\ At(t, "idle") /\ files[f].status = "READY"
  /\ Take(t, FsMutex)
  /\ Goto(t, [at |-> to, mp |-> files[f].mp, fd |-> f])
  /\ UNCHANGED <<files, dirs, mounts, registered, fsRefs>>

\* For los_read, los_write, los_lseek, los_ioctl and los_sync ...
AttachToUse(t) ==
  /\ At(t, "attach to use")
  /\ Descend(t, call[t].mp)
  /\ Goto(t, [call[t] EXCEPT !.at = "use"])
  /\ UNCHANGED <<files, dirs, mounts, registered, fsRefs>>

\* ... that end with los_detach_file.
Detach(t) ==
  /\ At(t, "use") /\ There(t)
  /\ Give(call[t].mp) /\ Goto(t, Idle)
  /\ UNCHANGED <<files, dirs, mounts, registered, fsRefs>>

\* For los_close the file is CLOSING at once.
AttachToClose(t) ==
  /\ At(t, "attach to close")
  /\ Descend(t, call[t].mp)
  /\ files' = [files EXCEPT ![call[t].fd].status = "CLOSING"]
  /\ Goto(t, [call[t] EXCEPT !.at = "close"])
  /\ UNCHANGED <<dirs, mounts, registered, fsRefs>>

\* A close that the file system refuses gives up the file and keeps the count.
CloseDone(t, ok) ==
  /\ At(t, "close") /\ There(t)
  /\ IF ok THEN Closed(call[t].mp) ELSE UNCHANGED mounts
  /\ Give(call[t].mp)
  /\ Goto(t, [call[t] EXCEPT !.at = "put"])
  /\ UNCHANGED <<files, dirs, registered, fsRefs>>

-----------------------------------------------------------------------------
\* los_stat, los_unlink and los_rename keep fs_mutex during the call.
PathCall(t, path) ==
  /\ At(t, "idle") /\ Inside(path) # None
  /\ Take(t, FsMutex)
  /\ Goto(t, [at |-> "path call", mp |-> Inside(path), fd |-> None])
  /\ UNCHANGED <<files, dirs, mounts, registered, fsRefs>>

PathCallDone(t) ==
  /\ At(t, "path call")
  /\ Give(FsMutex) /\ Goto(t, Idle)
  /\ UNCHANGED <<files, dirs, mounts, registered, fsRefs>>

\* los_mkdir and los_opendir exchange it for the mount point's mutex.  A task
\* has one directory of a mount point open at a time.
DirFind(t, path, to) ==
  /\ At(t, "idle")
  /\ Take(t, FsMutex)
  /\ LET m == IF to = "find to opendir" THEN los_mp_find(path) ELSE Inside(path) IN
       /\ m # None
       /\ to = "find to opendir" => m \notin dirs[t]
       /\ Goto(t, [at |-> to, mp |-> m, fd |-> None])
  /\ UNCHANGED <<files, dirs, mounts, registered, fsRefs>>

DirEnter(t, from, to) ==
  /\ At(t, from)
  /\ Descend(t, call[t].mp)
  /\ Goto(t, [call[t] EXCEPT !.at = to])
  /\ UNCHANGED <<files, dirs, mounts, registered, fsRefs>>

MkdirDone(t) ==
  /\ At(t, "mkdir") /\ There(t)
  /\ Give(call[t].mp) /\ Goto(t, Idle)
  /\ UNCHANGED <<files, dirs, mounts, registered, fsRefs>>

OpendirDone(t, ok) ==
  /\ At(t, "opendir") /\ There(t)
  /\ IF ok THEN /\ Opened(call[t].mp)
                /\ dirs' = [dirs EXCEPT ![t] = @ \cup {call[t].mp}]
           ELSE UNCHANGED <<dirs, mounts>>
  /\ Give(call[t].mp) /\ Goto(t, Idle)
  /\ UNCHANGED <<files, registered, fsRefs>>

\* los_readdir and los_closedir go to the mount point at once.
ReadOrClosedir(t, m) ==
  /\ At(t, "idle") /\ m \in dirs[t]
  /\ Take(t, m)
  /\ Goto(t, [at |-> "dir", mp |-> m, fd |-> None])
  /\ UNCHANGED <<files, dirs, mounts, registered, fsRefs>>

ReaddirDone(t) ==
  /\ At(t, "dir") /\ There(t)
  /\ Give(call[t].mp) /\ Goto(t, Idle)
  /\ UNCHANGED <<files, dirs, mounts, registered, fsRefs>>

ClosedirDone(t) ==
  /\ At(t, "dir") /\ There(t)
  /\ Closed(call[t].mp)
  /\ dirs' = [dirs EXCEPT ![t] = @ \ {call[t].mp}]
  /\ Give(call[t].mp) /\ Goto(t, Idle)
  /\ UNCHANGED <<files, registered, fsRefs>>

-----------------------------------------------------------------------------
\* Under fs_mutex from beginning to end.
Alone == owner[FsMutex] = None /\ UNCHANGED <<files, dirs, call>>

los_fs_register(s) ==
  /\ Alone /\ s \notin registered
  /\ registered' = registered \cup {s}
  /\ UNCHANGED <<mounts, fsRefs, owner>>

los_fs_unregister(s) ==
  /\ Alone /\ s \in registered /\ fsRefs[s] = 0
  /\ registered' = registered \ {s}
  /\ UNCHANGED <<mounts, fsRefs, owner>>

\* The path must not be a mount point yet; malloc gives an address not in use.
los_fs_mount(s, path, m) ==
  /\ Alone /\ s \in registered /\ m \notin DOMAIN mounts
  /\ \A n \in DOMAIN mounts : los_mp_find(path) = n => mounts[n].path # path
  /\ mounts' = [n \in DOMAIN mounts \cup {m} |->
                  IF n = m THEN [fs |-> s, path |-> path, refs |-> 0] ELSE mounts[n]]
  /\ owner' = [owner EXCEPT ![m] = None]
  /\ fsRefs' = [fsRefs EXCEPT ![s] = @ + 1]
  /\ UNCHANGED registered

\* LOS_MuxDelete is refused for a mutex that is held, and nobody looks.
los_fs_unmount(m) ==
  /\ Alone /\ m \in DOMAIN mounts /\ mounts[m].refs = 0
  /\ los_mp_find(mounts[m].path) = m
  /\ mounts' = [n \in DOMAIN mounts \ {m} |-> mounts[n]]
  /\ fsRefs' = [fsRefs EXCEPT ![mounts[m].fs] = @ - 1]
  /\ UNCHANGED <<registered, owner>>

-----------------------------------------------------------------------------
FileCall(t) ==
  \/ \E path \in Path, f \in Fd : OpenFind(t, path, f)
  \/ OpenNotFound(t) \/ OpenEnter(t)
  \/ \E ok \in BOOLEAN : OpenDone(t, ok) \/ CloseDone(t, ok)
  \/ FilePut(t)
  \/ \E f \in Fd, to \in {"attach to use", "attach to close"} : Attach(t, f, to)
  \/ AttachToUse(t) \/ Detach(t) \/ AttachToClose(t)

DirCall(t) ==
  \/ \E path \in Path, to \in {"find to mkdir", "find to opendir"} : DirFind(t, path, to)
  \/ DirEnter(t, "find to mkdir", "mkdir") \/ DirEnter(t, "find to opendir", "opendir")
  \/ MkdirDone(t)
  \/ \E ok \in BOOLEAN : OpendirDone(t, ok)
  \/ \E m \in Mp : ReadOrClosedir(t, m)
  \/ ReaddirDone(t) \/ ClosedirDone(t)
  \/ \E path \in Path : PathCall(t, path)
  \/ PathCallDone(t)

Administer ==
  \/ \E s \in Fs : \/ los_fs_register(s) \/ los_fs_unregister(s)
                   \/ \E path \in MountPath, m \in Mp : los_fs_mount(s, path, m)
  \/ \E m \in Mp : los_fs_unmount(m)

VfsNext == Administer \/ \E t \in Task : FileCall(t) \/ DirCall(t)

VfsSpec == VfsInit /\ [][VfsNext]_vfsVars

\* Calls in the file system of a mount point, under its mutex: on a path, ...
Arriving == {"opening", "mkdir", "opendir"}
\* ... and on what is open.
Within == Arriving \cup {"use", "close", "dir"}

\* An application that does not unmount what a path is being opened in.
CarefulVfsNext ==
  /\ VfsNext
  /\ \A t \in Task : call[t].at \in Arriving => call[t].mp \in DOMAIN mounts'

CarefulVfsSpec == VfsInit /\ [][CarefulVfsNext]_vfsVars

-----------------------------------------------------------------------------
\* The files and directories that are open in a mount point, and those that
\* are being closed and are still counted.
OpenIn(m) == {f \in Fd : /\ files[f].mp = m
                         /\ \/ files[f].status = "READY"
                            \/ \E t \in Task : At(t, "close") /\ call[t].fd = f}
             \cup {t \in Task : m \in dirs[t]}

\* los_fs_unmount and los_fs_unregister go by m_refs and fs_refs: what is open
\* keeps its mount point mounted, and that keeps its file system registered.
OpenKeepsMounted ==
  /\ \A m \in Mp : /\ OpenIn(m) # {} => m \in DOMAIN mounts
                   /\ m \in DOMAIN mounts => mounts[m].refs >= Cardinality(OpenIn(m))
  /\ \A s \in Fs : fsRefs[s] = Cardinality({m \in DOMAIN mounts : mounts[m].fs = s})
  /\ \A m \in DOMAIN mounts : mounts[m].fs \in registered

\* "prevent fs/mp being removed while opening" (los_vfs.c:187): the mount
\* point of a call in progress is not taken away.
MountStays == \A t \in Task : call[t].at \in Within => There(t)

\* "Prevent file closed after the checking" (los_vfs.c:259): from the moment a
\* task is attached to a file until it detaches, no other task closes the file
\* or opens another in its place.
FileStaysOpen ==
  [][\A t \in Task : call[t].at \in {"use", "close"} /\ call'[t] = call[t] =>
       files'[call[t].fd] = files[call[t].fd] /\ files[call[t].fd].mp = call[t].mp]_vfsVars
=============================================================================
