----------------------------- MODULE FileStorage -----------------------------
(***************************************************************************)
(* FileSystemStorage (python/storage.py): threads, processes or coroutines *)
(* save files under names they would like to have, while others delete     *)
(* files and directories.  A step is one call of the operating system.     *)
(*                                                                         *)
(* A file is named by the saver that created it; its data is, chunk by     *)
(* chunk, who wrote it.  Contents are streams: those with a path of their  *)
(* own are moved by a helper the repository does not have.                 *)
(***************************************************************************)
EXTENDS Naturals, Sequences

CONSTANTS
  Savers,    \* the calls of save()
  Names,     \* paths of files
  Dirs, Dir, \* the directory of each path
  Wanted,    \* the path each saver asks for
  Strict,    \* the savers with alt_path_autogen=False
  Chunks,    \* the chunks of each saver's content
  WithMode   \* is _directory_permissions_mode set?

ASSUME StorageAssumption ==
  /\ Dir \in [Names -> Dirs]
  /\ Wanted \in [Savers -> Names]
  /\ Chunks \in [Savers -> Nat]
  /\ WithMode \in BOOLEAN

None == "none"

ASSUME NoneAssumption == None \notin Savers

VARIABLES
  dirs,      \* the directories that exist
  dirMask,   \* the umask each directory was made under
  files,     \* the file each path leads to
  data,      \* the contents of each file
  deleted,   \* history: the files that delete() removed
  umask,     \* of the process: usual or zero
  pc,        \* of each saver: its next call, or how it ended
  oldMask,   \* of each saver: old_umask
  path,      \* of each saver: full_path
  handle,    \* of each saver: the file it has open
  nwritten   \* of each saver: chunks written

dirVars == <<dirs, dirMask, umask, oldMask>>
fileVars == <<files, data, handle, nwritten>>
vars == <<dirVars, fileVars, deleted, pc, path>>

Calls == {"mask", "mkdir", "unmask", "open", "alternative", "write"}
Ends == {"saved", "refused", "no_directory", "unreadable"}

TypeOK ==
  /\ dirs \in SUBSET Dirs
  /\ dirMask \in [Dirs -> {"usual", "zero"}]
  /\ files \in [Names -> Savers \cup {None}]
  /\ data \in [Savers -> Seq(Savers)]
  /\ deleted \in SUBSET Savers
  /\ umask \in {"usual", "zero"}
  /\ pc \in [Savers -> Calls \cup Ends]
  /\ oldMask \in [Savers -> {"usual", "zero"}]
  /\ path \in [Savers -> Names]
  /\ handle \in [Savers -> Savers \cup {None}]
  /\ nwritten \in [Savers -> Nat]

Init ==
  /\ dirs = {}
  /\ dirMask = [d \in Dirs |-> "usual"]
  /\ files = [n \in Names |-> None]
  /\ data = [s \in Savers |-> <<>>]
  /\ deleted = {}
  /\ umask = "usual"
  /\ pc = [s \in Savers |-> IF WithMode THEN "mask" ELSE "mkdir"]
  /\ oldMask = [s \in Savers |-> "usual"]
  /\ path = Wanted
  /\ handle = [s \in Savers |-> None]
  /\ nwritten = [s \in Savers |-> 0]

GoTo(s, call) == pc' = [pc EXCEPT ![s] = call]

-----------------------------------------------------------------------------
(* mkdir() *)

\* The umask is the process's: another saver may be between these two calls.
Mask(s) ==
  /\ pc[s] = "mask"
  /\ oldMask' = [oldMask EXCEPT ![s] = umask]
  /\ umask' = "zero"
  /\ GoTo(s, "mkdir")
  /\ UNCHANGED <<dirs, dirMask, fileVars, deleted, path>>

\* makedirs(exist_ok=True).  Its errors (no permission, a file of that name),
\* which end the save before there is anything to keep, are left out.
Mkdir(s) ==
  LET d == Dir[Wanted[s]] IN
  /\ pc[s] = "mkdir"
  /\ dirs' = dirs \cup {d}
  /\ dirMask' = IF d \in dirs THEN dirMask ELSE [dirMask EXCEPT ![d] = umask]
  /\ GoTo(s, IF WithMode THEN "unmask" ELSE "open")
  /\ UNCHANGED <<umask, oldMask, fileVars, deleted, path>>

Unmask(s) ==
  /\ pc[s] = "unmask"
  /\ umask' = oldMask[s]
  /\ GoTo(s, "open")
  /\ UNCHANGED <<dirs, dirMask, oldMask, fileVars, deleted, path>>

-----------------------------------------------------------------------------
(* The loop of _fs_storage_save_common *)

Exists(n) == files[n] # None

\* Bug: without O_EXCL a file that exists is opened for writing.
OpenShared(s) ==
  /\ pc[s] = "open" /\ Dir[path[s]] \in dirs
  /\ IF Exists(path[s])
     THEN handle' = [handle EXCEPT ![s] = files[path[s]]] /\ UNCHANGED files
     ELSE /\ files' = [files EXCEPT ![path[s]] = s]
          /\ handle' = [handle EXCEPT ![s] = s]
  /\ GoTo(s, "write")
  /\ UNCHANGED <<dirVars, data, nwritten, deleted, path>>

\* O_CREAT | O_EXCL
Open(s) ==
  /\ pc[s] = "open" /\ Dir[path[s]] \in dirs
  /\ ~Exists(path[s])
  /\ files' = [files EXCEPT ![path[s]] = s]
  /\ handle' = [handle EXCEPT ![s] = s]
  /\ GoTo(s, "write")
  /\ UNCHANGED <<dirVars, data, nwritten, deleted, path>>

\* FileExistsError
OpenExists(s) ==
  /\ pc[s] = "open" /\ Exists(path[s])
  /\ GoTo(s, IF s \in Strict THEN "refused" ELSE "alternative")
  /\ UNCHANGED <<dirVars, fileVars, deleted, path>>

\* FileNotFoundError: the directory was deleted after mkdir().
OpenNoDirectory(s) ==
  /\ pc[s] = "open" /\ Dir[path[s]] \notin dirs
  /\ GoTo(s, "no_directory")
  /\ UNCHANGED <<dirVars, fileVars, deleted, path>>

\* Bug: the loop goes on with the path that was refused.
KeepPath(s) ==
  /\ pc[s] = "alternative"
  /\ GoTo(s, "open")
  /\ UNCHANGED <<dirVars, fileVars, deleted, path>>

\* get_alternative_path: the path wanted, or one with a random token; whichever
\* it is, it was free when it was looked at and may be taken before it is opened.
Alternative(s) ==
  /\ pc[s] = "alternative"
  /\ \E n \in Names :
       /\ Dir[n] = Dir[Wanted[s]] /\ ~Exists(n)
       /\ path' = [path EXCEPT ![s] = n]
  /\ GoTo(s, "open")
  /\ UNCHANGED <<dirVars, fileVars, deleted>>

WriteAt(seq, i, s) == IF i <= Len(seq) THEN [seq EXCEPT ![i] = s] ELSE Append(seq, s)

WriteChunk(s) ==
  /\ pc[s] = "write" /\ nwritten[s] < Chunks[s]
  /\ data' = [data EXCEPT ![handle[s]] = WriteAt(@, nwritten[s] + 1, s)]
  /\ nwritten' = [nwritten EXCEPT ![s] = @ + 1]
  /\ UNCHANGED <<dirVars, files, handle, deleted, pc, path>>

\* read() raises: the file is closed, and left as it is.
ReadFails(s) ==
  /\ pc[s] = "write"
  /\ handle' = [handle EXCEPT ![s] = None]
  /\ GoTo(s, "unreadable")
  /\ UNCHANGED <<dirVars, files, data, nwritten, deleted, path>>

Close(s) ==
  /\ pc[s] = "write" /\ nwritten[s] = Chunks[s]
  /\ handle' = [handle EXCEPT ![s] = None]
  /\ GoTo(s, "saved")
  /\ UNCHANGED <<dirVars, files, data, nwritten, deleted, path>>

-----------------------------------------------------------------------------
(* delete() *)

\* A file that is gone already is no error.
DeleteFile(n) ==
  /\ Exists(n)
  /\ deleted' = deleted \cup {files[n]}
  /\ files' = [files EXCEPT ![n] = None]
  /\ UNCHANGED <<dirVars, data, handle, nwritten, pc, path>>

\* rmdir fails on a directory that is not empty.
DeleteDirectory(d) ==
  /\ d \in dirs
  /\ \A n \in Names : Dir[n] = d => ~Exists(n)
  /\ dirs' = dirs \ {d}
  /\ UNCHANGED <<dirMask, umask, oldMask, fileVars, deleted, pc, path>>

-----------------------------------------------------------------------------
Save(s) ==
  \/ Mask(s) \/ Mkdir(s) \/ Unmask(s)
  \/ Open(s) \/ OpenExists(s) \/ OpenNoDirectory(s) \/ Alternative(s)
  \/ WriteChunk(s) \/ ReadFails(s) \/ Close(s)

Delete == (\E n \in Names : DeleteFile(n)) \/ (\E d \in Dirs : DeleteDirectory(d))

Next == Delete \/ \E s \in Savers : Save(s)

Spec == Init /\ [][Next]_vars

\* A call that can go on does, and a random token is free at some time.
FairSpec == Spec /\ \A s \in Savers : WF_vars(Save(s))

-----------------------------------------------------------------------------
(* Properties *)

Whole(s) == [i \in 1..Chunks[s] |-> s]

\* Two savers of one path never get the same file: the path save() returns leads
\* to the caller's data, all of it and nothing else, until delete() removes it.
SavedIsKept ==
  \A s \in Savers : pc[s] = "saved" =>
    data[s] = Whole(s) /\ (s \in deleted \/ files[path[s]] = s)

\* What makes it inductive: a saver writes to a file of its own, which nobody
\* else opens, and a file that is not deleted is where its creator put it.
SaverInv(s) ==
  /\ pc[s] = "write" => handle[s] = s /\ nwritten[s] <= Chunks[s]
  /\ pc[s] \in Calls \ {"write"} => nwritten[s] = 0 /\ \A n \in Names : files[n] # s
  /\ pc[s] \in {"write", "saved"} => s \in deleted \/ files[path[s]] = s
  /\ data[s] = [i \in 1..nwritten[s] |-> s]
  /\ pc[s] = "saved" => nwritten[s] = Chunks[s]

IInv == TypeOK /\ \A s \in Savers : SaverInv(s)

\* A save ends, whatever the others do; a collision of names alone makes none
\* fail that may take another name.
SavesEnd ==
  \A s \in Savers : <>(pc[s] \in Ends \ {"refused"} \/ (pc[s] = "refused" /\ s \in Strict))

\* "makedirs applies the global umask, so we reset it" (storage.py:252): the
\* directories have the mode they are configured to have.
DirectoriesUnmasked == WithMode => \A d \in dirs : dirMask[d] = "zero"
=============================================================================
