----------------------------- MODULE LocalStore -----------------------------
(***************************************************************************)
(* The storage directory of a node: LocalNodeStore::put                    *)
(* (core/src/storage.rs) as POST /api/storage/put calls it for every shard *)
(* placed on the own node, and the manifest which that handler writes at   *)
(* the end (apps/awe-node/src/main.rs).  Every request is a task of its    *)
(* own and the store has no lock, so each file operation is a step.        *)
(*                                                                         *)
(* put writes objects/<id>.part and renames it to objects/<id>.  Two puts  *)
(* of one shard use the same .part name: the second one truncates the file *)
(* the first one is writing.  A task that has a file open keeps writing to *)
(* it after a rename; handle says under which name that file is now.       *)
(*                                                                         *)
(* A shard stands for its content, so a file is absent, empty or full.     *)
(* Two manifests of one file differ (file name, counters), so a manifest   *)
(* written over another one may be mixed with its tail.                    *)
(*                                                                         *)
(* acked is history: the shards for which some put has returned Ok.        *)
(***************************************************************************)
EXTENDS Integers, Sequences, FiniteSetsExt

CONSTANTS
  Tasks,        \* requests that may run at the same time
  StoredShards, \* contents of shards
  Files,        \* files that users upload
  Placed,       \* Placed[f]: the shards of f that are placed on this node
  Size,         \* Size[s]: bytes of a shard
  Quota,        \* LocalNodeStore.quota
  MaxCrashes,   \* bound: crashes of the process
  MaxErrors     \* bound: file operations that fail

ASSUME StoreAssumption ==
  /\ IsFiniteSet(Tasks) /\ Tasks # {}
  /\ IsFiniteSet(StoredShards) /\ StoredShards # {}
  /\ Placed \in [Files -> Seq(StoredShards)]
  /\ Size \in [StoredShards -> Nat \ {0}]
  /\ Quota \in Nat /\ MaxCrashes \in Nat /\ MaxErrors \in Nat

VARIABLES object, part, manifestFile, task, acked, crashes, errors

diskVars == <<object, part, manifestFile, task, acked, crashes, errors>>
files == <<object, part, manifestFile>>

NoRequest == [step |-> "idle"]

DiskInit ==
  /\ object = [s \in StoredShards |-> "absent"]
  /\ part = [s \in StoredShards |-> "absent"]
  /\ manifestFile = [f \in Files |-> "absent"]
  /\ task = [t \in Tasks |-> NoRequest]
  /\ acked = {}
  /\ crashes = 0
  /\ errors = 0

Putting(t) == task[t].step \in {"exists", "measure", "open", "fill", "rename"}
Current(t) == Head(task[t].todo)
Goto(t, step) == [task EXCEPT ![t].step = step]

\* What the request does after the put of one shard has returned, Ok or Err:
\* the next shard, or the manifest.
After(r) ==
  [r EXCEPT !.todo = Tail(@), !.handle = "none",
            !.step = IF Len(r.todo) > 1 THEN "exists" ELSE "create"]

Begin(t, f) ==
  /\ task[t].step = "idle"
  /\ task' = [task EXCEPT ![t] =
                [step |-> IF Placed[f] = <<>> THEN "create" ELSE "exists",
                 file |-> f, todo |-> Placed[f], handle |-> "none"]]
  /\ UNCHANGED <<files, acked, crashes, errors>>

\* p.exists(): a file of that name is taken for the shard, whatever is in it.
Exists(t) ==
  /\ task[t].step = "exists"
  /\ IF object[Current(t)] = "absent"
     THEN task' = Goto(t, "measure") /\ acked' = acked
     ELSE task' = [task EXCEPT ![t] = After(@)] /\ acked' = acked \cup {Current(t)}
  /\ UNCHANGED <<files, crashes, errors>>

\* stats() counts every file of the directory, .part files too.
OnDisk ==
  [s \in StoredShards |-> (IF object[s] = "full" THEN Size[s] ELSE 0)
                          + (IF part[s] = "full" THEN Size[s] ELSE 0)]
Used == SumFunctionOnSet(OnDisk, StoredShards)

\* Fault: the new shard is not counted.
FitsBefore(s) == Used <= Quota

Fits(s) == Used + Size[s] <= Quota

Measure(t) ==
  /\ task[t].step = "measure"
  /\ task' = IF Fits(Current(t)) THEN Goto(t, "open")
             ELSE [task EXCEPT ![t] = After(@)]
  /\ UNCHANGED <<files, acked, crashes, errors>>

\* A .part file that stats() has listed is renamed before it asks for its
\* length: metadata() fails, and put with it.
MeasureFails(t) ==
  /\ task[t].step = "measure"
  /\ \E u \in Tasks \ {t} : task[u].step = "rename"
  /\ task' = [task EXCEPT ![t] = After(@)]
  /\ UNCHANGED <<files, acked, crashes, errors>>

\* fs::write creates the .part file or truncates the one that is there.
Open(t) ==
  /\ task[t].step = "open"
  /\ part' = [part EXCEPT ![Current(t)] = "empty"]
  /\ task' = [task EXCEPT ![t].step = "fill", ![t].handle = "part"]
  /\ UNCHANGED <<object, manifestFile, acked, crashes, errors>>

\* Fault: write instead of write_all, which may write nothing.
FillShort(t) ==
  /\ task[t].step = "fill"
  /\ task' = Goto(t, "rename")
  /\ UNCHANGED <<files, acked, crashes, errors>>

Fill(t) ==
  /\ task[t].step = "fill"
  /\ part' = IF task[t].handle = "part" THEN [part EXCEPT ![Current(t)] = "full"] ELSE part
  /\ object' = IF task[t].handle = "object"
               THEN [object EXCEPT ![Current(t)] = "full"] ELSE object
  /\ task' = Goto(t, "rename")
  /\ UNCHANGED <<manifestFile, acked, crashes, errors>>

\* The other tasks that have a file of shard s open: the .part file is now the
\* object, and a file that was the object has no name any more.
Moved(u, s) ==
  IF Putting(u) /\ Current(u) = s
  THEN [task[u] EXCEPT !.handle = CASE @ = "part" -> "object"
                                    [] @ = "object" -> "gone"
                                    [] OTHER -> @]
  ELSE task[u]

\* Fault: the .part file is copied to its name and stays.
RenameCopies(t) ==
  /\ task[t].step = "rename"
  /\ object' = [object EXCEPT ![Current(t)] = part[Current(t)]]
  /\ task' = [task EXCEPT ![t] = After(@)]
  /\ acked' = acked \cup {Current(t)}
  /\ UNCHANGED <<part, manifestFile, crashes, errors>>

\* Without a .part file, because another put has renamed it, put returns Err.
Rename(t) ==
  /\ task[t].step = "rename"
  /\ LET s == Current(t)
     IN  IF part[s] = "absent"
         THEN /\ task' = [task EXCEPT ![t] = After(@)]
              /\ UNCHANGED <<object, part, acked>>
         ELSE /\ object' = [object EXCEPT ![s] = part[s]]
              /\ part' = [part EXCEPT ![s] = "absent"]
              /\ task' = [u \in Tasks |-> IF u = t THEN After(task[t]) ELSE Moved(u, s)]
              /\ acked' = acked \cup {s}
  /\ UNCHANGED <<manifestFile, crashes, errors>>

\* Creating, writing or renaming the .part file fails: put returns Err and
\* leaves the file as it is.
PutError(t) ==
  /\ errors < MaxErrors
  /\ task[t].step \in {"open", "fill", "rename"}
  /\ task' = [task EXCEPT ![t] = After(@)]
  /\ errors' = errors + 1
  /\ UNCHANGED <<files, acked, crashes>>

\* The manifest is written by fs::write over the old one, also when puts have
\* failed.
CreateManifest(t) ==
  /\ task[t].step = "create"
  /\ manifestFile' = [manifestFile EXCEPT ![task[t].file] = "empty"]
  /\ task' = Goto(t, "write")
  /\ UNCHANGED <<object, part, acked, crashes, errors>>

WriteManifest(t) ==
  /\ task[t].step = "write"
  /\ \E result \in {"valid", "mixed"} :
       /\ manifestFile[task[t].file] = "empty" => result = "valid"
       /\ manifestFile' = [manifestFile EXCEPT ![task[t].file] = result]
  /\ task' = [task EXCEPT ![t] = NoRequest]
  /\ UNCHANGED <<object, part, acked, crashes, errors>>

\* The handler ignores an error of fs::write.
ManifestError(t) ==
  /\ errors < MaxErrors
  /\ task[t].step \in {"create", "write"}
  /\ task' = [task EXCEPT ![t] = NoRequest]
  /\ errors' = errors + 1
  /\ UNCHANGED <<files, acked, crashes>>

\* The process dies and is started again over the same directory.
DiskCrash ==
  /\ crashes < MaxCrashes
  /\ crashes' = crashes + 1
  /\ task' = [t \in Tasks |-> NoRequest]
  /\ UNCHANGED <<files, acked, errors>>

DiskNext ==
  \/ \E t \in Tasks :
       \/ \E f \in Files : Begin(t, f)
       \/ Exists(t) \/ Measure(t) \/ MeasureFails(t)
       \/ Open(t) \/ Fill(t) \/ Rename(t) \/ PutError(t)
       \/ CreateManifest(t) \/ WriteManifest(t) \/ ManifestError(t)
  \/ DiskCrash

DiskSpec == DiskInit /\ [][DiskNext]_diskVars

-----------------------------------------------------------------------------
Writing(s) ==
  \E t \in Tasks : task[t].step \in {"fill", "rename"} /\ Current(t) = s

\* Puts of one shard that truncate each other's file repair what they did: as
\* long as nothing fails, a shard nobody is writing is absent or complete and
\* has left no temporary file, so the empty object that two racing puts can
\* produce is never the last word.
RacesHeal ==
  crashes = 0 /\ errors = 0 =>
    \A s \in StoredShards : ~Writing(s) => object[s] \in {"absent", "full"} /\ part[s] = "absent"

\* A put that returned Ok is not taken back by crashes, failures or other puts:
\* the shard has a file for good, and while nothing has failed get() can read
\* it as soon as nobody writes it.
AckedIsStored ==
  \A s \in acked :
    /\ object[s] # "absent"
    /\ crashes = 0 /\ errors = 0 /\ ~Writing(s) => object[s] = "full"

MaxSize == Max({Size[s] : s \in StoredShards})

\* The quota is checked before the write and without a lock: it is overrun by
\* at most one shard for every other request, whatever .part files crashes
\* have left behind.
QuotaOverrun ==
  Used <= Quota + (Cardinality(Tasks) - 1) * MaxSize
=============================================================================
