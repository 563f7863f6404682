----------------------------- MODULE Workspace -----------------------------
(***************************************************************************)
(* The files of one conversation (src/src/sandbox/workspace-guard.ts) and  *)
(* those who write them: the attachments of a turn, which are downloaded   *)
(* and stored before its prompt (src/src/feishu/attachments.ts), and the   *)
(* workspace.write calls of the model (tools/tool-broker.ts).  A turn that *)
(* was given up goes on beside the next one, so that several jobs write.   *)
(*                                                                         *)
(* Guards of the same directory share a lock: a chain of promises, removed *)
(* from its map when nobody uses it.  Whoever holds it measures the        *)
(* directory, writes a temporary file and renames it.  A step is what runs *)
(* between two file operations; each may fail and the process may die in   *)
(* it.  Files are their sizes; those left behind under temporary names are *)
(* their number and bytes.                                                 *)
(***************************************************************************)
EXTENDS FiniteSets, Integers, Sequences

CONSTANTS
  Path, None,
  Job,            \* a turn with attachments, or a call of workspace.write
  Calls,          \* the jobs that are calls
  Items,          \* what a job stores: its paths, sizes and what is kept
  InitialFiles,   \* the directories to begin with
  MaxTotalBytes, MaxFiles, MaxWriteBytes, Writable,   \* of the workspace
  MaxItems, MaxBytesPerItem, MaxTurnBytes             \* of the attachments

ASSUME WorkspaceAssumption ==
  /\ IsFiniteSet(Path) /\ IsFiniteSet(Job) /\ Calls \subseteq Job
  /\ None \notin Job /\ None \notin Nat
  /\ Items \in [Job -> Seq([path : Path, size : Nat, kept : BOOLEAN])]
  /\ \A j \in Calls : Len(Items[j]) = 1
  /\ InitialFiles \subseteq [Path -> Nat \cup {None}]
  /\ {MaxTotalBytes, MaxFiles, MaxWriteBytes, MaxBytesPerItem, MaxTurnBytes}
       \subseteq Nat \ {0}
  /\ MaxItems \in Nat /\ Writable \in BOOLEAN

VARIABLES
  files,    \* the size of each file, None where there is none
  debris,   \* the temporary files that nobody will rename or remove
  job,      \* where each job is
  aborted,  \* the jobs whose signal fired
  tail,     \* the last user of the lock; None: the lock is not in the map
  users,    \* ... and all of them
  ahead     \* whose promise a user waits for

workspaceVars == <<files, debris, job, aborted, tail, users, ahead>>
lock == <<tail, users, ahead>>

Locking == {"queued", "checked", "written"}
Stages == {"idle", "download", "done", "failed"} \cup Locking
JobStates == [at : Stages, item : Nat, total : Nat, paths : SUBSET Path]

WorkspaceTypeOK ==
  /\ files \in [Path -> Nat \cup {None}]
  /\ debris \in [count : Nat, bytes : Nat]
  /\ job \in [Job -> JobStates]
  /\ aborted \subseteq Job
  /\ tail \in Job \cup {None} /\ users \subseteq Job
  /\ ahead \in [Job -> Job \cup {None}]

WorkspaceInit ==
  /\ files \in InitialFiles
  /\ debris = [count |-> 0, bytes |-> 0]
  /\ job = [j \in Job |-> [at |-> "idle", item |-> 0, total |-> 0, paths |-> {}]]
  /\ aborted = {}
  /\ tail = None /\ users = {} /\ ahead = [j \in Job |-> None]

Item(j) == Items[j][job[j].item]
Going(j) == job[j].at \notin {"idle", "done", "failed"}
Existing == {p \in Path : files[p] # None}

(* The sum of the sizes of S: so many bytes are in them all.               *)
BytesIn(S, size) == Cardinality(UNION {{x} \X (1 .. size[x]) : x \in S})
BytesOf(f) == BytesIn({p \in Path : f[p] # None}, f)

-----------------------------------------------------------------------------
(* The lock: withRootMutationLock().  A user waits for the one before it,  *)
(* whether its signal fires or not.                                        *)
Enter(j) ==
  /\ ahead' = [ahead EXCEPT ![j] = tail]
  /\ tail' = j
  /\ users' = users \cup {j}

(* Mutant: the lock leaves the map with whoever created it. *)
LeaveForgetting(S) ==
  /\ ahead' = [k \in Job |-> IF k \in S \/ ahead[k] \in S THEN None ELSE ahead[k]]
  /\ users' = users \ S
  /\ tail' = None

Leave(S) ==
  /\ ahead' = [k \in Job |-> IF k \in S \/ ahead[k] \in S THEN None ELSE ahead[k]]
  /\ users' = users \ S
  /\ tail' = IF users \ S = {} THEN None ELSE tail

Holds(j) == j \in users /\ ahead[j] = None

-----------------------------------------------------------------------------
(* What follows an item: the next one, or the prompt.                      *)
Taken(j) == IF Len(Items[j]) < MaxItems THEN Len(Items[j]) ELSE MaxItems

After(j, w) ==
  IF j \in Calls THEN [w EXCEPT !.at = "done"]
  ELSE IF w.item >= Taken(j) THEN [w EXCEPT !.at = "done"]
  ELSE [w EXCEPT !.at = "download", !.item = @ + 1]

Fail(j) == job' = [job EXCEPT ![j].at = "failed"]

(* A turn begins with its first attachment, a call with the checks of its  *)
(* mode and size.                                                          *)
Begin(j) ==
  /\ job[j].at = "idle" /\ j \notin Calls
  /\ job' = [job EXCEPT ![j] = After(j, @)]
  /\ UNCHANGED <<files, debris, aborted, lock>>

Write(j) ==
  /\ job[j].at = "idle" /\ j \in Calls
  /\ IF Writable /\ Items[j][1].size <= MaxWriteBytes
     THEN /\ job' = [job EXCEPT ![j].at = "queued", ![j].item = 1]
          /\ Enter(j)
     ELSE Fail(j) /\ UNCHANGED lock
  /\ UNCHANGED <<files, debris, aborted>>

(* The rest of the turn's budget bounds a download while it is read.       *)
Remaining(j) ==
  IF MaxBytesPerItem < MaxTurnBytes - job[j].total
  THEN MaxBytesPerItem ELSE MaxTurnBytes - job[j].total

Downloaded(j) ==
  /\ job[j].at = "download" /\ j \notin aborted
  /\ Remaining(j) > 0 /\ Item(j).size <= Remaining(j)
  /\ LET w == [job[j] EXCEPT !.total = @ + Item(j).size]
     IN  IF Item(j).kept
         THEN job' = [job EXCEPT ![j] = [w EXCEPT !.at = "queued"]] /\ Enter(j)
         ELSE job' = [job EXCEPT ![j] = After(j, w)] /\ UNCHANGED lock
  /\ UNCHANGED <<files, debris, aborted>>

(* No budget is left, the download fails, or it is larger than it may be.  *)
Skip(j) ==
  /\ job[j].at = "download" /\ j \notin aborted
  /\ job' = [job EXCEPT ![j] = After(j, @)]
  /\ UNCHANGED <<files, debris, aborted, lock>>

DownloadAborted(j) ==
  /\ job[j].at = "download" /\ j \in aborted
  /\ Fail(j)
  /\ UNCHANGED <<files, debris, aborted, lock>>

-----------------------------------------------------------------------------
(* persist(), under the lock. *)
Temporary == {k \in Job : job[k].at = "written"}

UsedBytes ==
  BytesOf(files) + debris.bytes
    + BytesIn(Temporary, [k \in Temporary |-> Item(k).size])
UsedFiles == Cardinality(Existing) + debris.count + Cardinality(Temporary)

OrZero(previous) == IF previous = None THEN 0 ELSE previous

(* In a directory that is over its limits only a file that does not grow   *)
(* is replaced.                                                            *)
FitsIn(item, bytes, count) ==
  LET previous == files[item.path]
  IN  IF bytes > MaxTotalBytes \/ count > MaxFiles
      THEN previous # None /\ item.size <= previous
      ELSE /\ bytes - OrZero(previous) + item.size <= MaxTotalBytes
           /\ previous = None => count + 1 <= MaxFiles

Fits(item) == FitsIn(item, UsedBytes, UsedFiles)

Check(j) ==
  /\ job[j].at = "queued" /\ Holds(j)
  /\ j \notin aborted /\ Fits(Item(j))
  /\ job' = [job EXCEPT ![j].at = "checked"]
  /\ UNCHANGED <<files, debris, aborted, lock>>

(* A call that does not fit fails, an attachment is left out.              *)
(* Mutant: the prompt names what was downloaded. *)
OverQuotaNamed(j) ==
  /\ job[j].at = "queued" /\ Holds(j)
  /\ j \notin aborted /\ ~Fits(Item(j))
  /\ IF j \in Calls THEN Fail(j)
     ELSE job' = [job EXCEPT ![j] =
                    After(j, [@ EXCEPT !.paths = @ \cup {Item(j).path}])]
  /\ Leave({j})
  /\ UNCHANGED <<files, debris, aborted>>

OverQuota(j) ==
  /\ job[j].at = "queued" /\ Holds(j)
  /\ j \notin aborted /\ ~Fits(Item(j))
  /\ IF j \in Calls THEN Fail(j) ELSE job' = [job EXCEPT ![j] = After(j, @)]
  /\ Leave({j})
  /\ UNCHANGED <<files, debris, aborted>>

WriteTemporary(j) ==
  /\ job[j].at = "checked"
  /\ job' = [job EXCEPT ![j].at = "written"]
  /\ UNCHANGED <<files, debris, aborted, lock>>

Rename(j) ==
  /\ job[j].at = "written" /\ j \notin aborted
  /\ files' = [files EXCEPT ![Item(j).path] = Item(j).size]
  /\ LET w == [job[j] EXCEPT !.paths = @ \cup {Item(j).path}]
     IN  job' = [job EXCEPT ![j] = After(j, w)]
  /\ Leave({j})
  /\ UNCHANGED <<debris, aborted>>

(* What a job that ends here may leave: a file that was being written is   *)
(* not removed, the removal of one that was written may fail.              *)
Leavings(j) ==
  LET before == [count |-> debris.count, bytes |-> debris.bytes]
      left(n) == [count |-> debris.count + 1, bytes |-> debris.bytes + n]
  IN  CASE job[j].at = "checked" -> {before} \cup {left(n) : n \in 0 .. Item(j).size}
        [] job[j].at = "written" -> {before, left(Item(j).size)}
        [] OTHER -> {before}

(* Mutant: an abort is noticed outside the try block. *)
PersistFailsHolding(j) ==
  /\ job[j].at \in Locking /\ Holds(j)
  /\ debris' \in Leavings(j)
  /\ Fail(j)
  /\ IF j \in aborted THEN UNCHANGED lock ELSE Leave({j})
  /\ UNCHANGED <<files, aborted>>

(* The signal has fired, or a file operation fails.                        *)
PersistFails(j) ==
  /\ job[j].at \in Locking /\ Holds(j)
  /\ debris' \in Leavings(j)
  /\ Fail(j)
  /\ Leave({j})
  /\ UNCHANGED <<files, aborted>>

-----------------------------------------------------------------------------
Abort(j) ==
  /\ Going(j) /\ j \notin aborted
  /\ aborted' = aborted \cup {j}
  /\ UNCHANGED <<files, debris, job, lock>>

(* The process dies, in a write or outside; the lock dies with it.         *)
Crash ==
  /\ \E j \in Job : Going(j)
  /\ job' = [j \in Job |-> IF Going(j) THEN [job[j] EXCEPT !.at = "failed"] ELSE job[j]]
  /\ \/ \E j \in Job : job[j].at \in {"checked", "written"} /\ debris' \in Leavings(j)
     \/ (\A j \in Job : job[j].at \notin {"checked", "written"}) /\ UNCHANGED debris
  /\ tail' = None /\ users' = {} /\ ahead' = [j \in Job |-> None]
  /\ UNCHANGED <<files, aborted>>

WorkspaceNext ==
  \/ \E j \in Job : \/ Begin(j) \/ Write(j) \/ Downloaded(j) \/ Skip(j)
                    \/ DownloadAborted(j) \/ Check(j) \/ OverQuota(j)
                    \/ WriteTemporary(j) \/ Rename(j) \/ PersistFails(j) \/ Abort(j)
  \/ Crash

WorkspaceSpec == WorkspaceInit /\ [][WorkspaceNext]_workspaceVars

(* A file operation settles: whoever holds the lock goes on.               *)
FairWorkspaceSpec ==
  /\ WorkspaceSpec
  /\ \A j \in Job :
       WF_workspaceVars(\/ Check(j) \/ OverQuota(j) \/ WriteTemporary(j)
                        \/ Rename(j) \/ PersistFails(j))

-----------------------------------------------------------------------------
(* A write that makes the directory grow leaves it within its limits, with *)
(* what crashes left behind counted in: nothing changes between the        *)
(* measurement and the rename, whoever else writes.                        *)
QuotaKept ==
  [][/\ BytesOf(files') > BytesOf(files) =>
          BytesOf(files') + debris'.bytes <= MaxTotalBytes
     /\ Cardinality(Existing') > Cardinality(Existing) =>
          Cardinality(Existing') + debris'.count <= MaxFiles]_workspaceVars

(* The prompt of a turn names files that are there, although writes are    *)
(* refused, fail and are overtaken, and its attachments stay within the    *)
(* budget of the turn.                                                     *)
PromptIsTrue ==
  \A j \in Job \ Calls : job[j].at = "done" =>
    job[j].paths \subseteq Existing /\ job[j].total <= MaxTurnBytes

(* Nobody waits for the lock for ever: it comes back from every way out of *)
(* a write.                                                                *)
WritesEnd == \A j \in Job : job[j].at \in Locking ~> job[j].at \notin Locking
=============================================================================
