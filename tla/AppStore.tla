------------------------------ MODULE AppStore ------------------------------
(***************************************************************************)
(* The application store of a node (core/src/store.rs): packages cached    *)
(* under their hash, the record of the installed version of an app, and    *)
(* the copy of the record that a rollback restores.  awe-node serves each  *)
(* request in a task of its own, so installs run concurrently; they share  *)
(* the temporary file of the app.                                          *)
(*                                                                         *)
(* One app; a version stands for the package and for the record that       *)
(* installs it.  A file is missing (NoFile), cut short (TornFile) or holds *)
(* a version.  An open file keeps its identity: a task that opened the     *)
(* temporary file writes into the record once another task renamed it, and *)
(* into nothing ("gone") once that record was replaced.                    *)
(***************************************************************************)
EXTENDS Integers, FiniteSets

CONSTANTS
  Versions,       \* versions of the app
  Needs,          \* [Versions -> permissions the manifest asks for]
  Capabilities,   \* the permissions there are
  StoreTasks,     \* requests in progress at once
  MaxStoreOps,    \* bound: operations begun
  NoFile, TornFile

ASSUME StoreAssumption ==
  /\ Needs \in [Versions -> SUBSET Capabilities] /\ MaxStoreOps \in Nat
  /\ NoFile \notin Versions /\ TornFile \notin Versions \union {NoFile}

VARIABLES
  cached,     \* [Versions -> NoFile or the checks the package passes]
  active, backup, part,   \* the record, its rollback copy, the temporary file
  task,       \* [StoreTasks -> what the request is doing]
  confirmed,  \* history: versions whose install was answered, until uninstalled
  unsafe,     \* history: operations overlapped, or began on a torn file
  storeOps, storeDown  \* bounds: operations begun, whether the crash happened

storeVars == <<cached, active, backup, part, task, confirmed, unsafe, storeOps, storeDown>>

Resting == [pc |-> "idle"]

StoreInit ==
  /\ cached = [v \in Versions |-> NoFile]
  /\ active = NoFile /\ backup = NoFile /\ part = NoFile
  /\ task = [t \in StoreTasks |-> Resting]
  /\ confirmed = {} /\ unsafe = FALSE /\ storeOps = 0 /\ storeDown = FALSE

(***************************************************************************)
(* Packages                                                                *)
(***************************************************************************)
Sound == [sane |-> TRUE, signed |-> TRUE, intact |-> TRUE]

SignedOk(p) == p.sane /\ p.signed

Verify(p) == SignedOk(p) /\ p.intact

FetchCached(v) == cached[v] # NoFile /\ Verify(cached[v])

\* publish: the bytes of a package that verifies, by way of a temporary file.
Publish(v) ==
  /\ cached' = [cached EXCEPT ![v] = Sound]
  /\ UNCHANGED <<active, backup, part, task, confirmed, unsafe, storeOps, storeDown>>

\* A cached package is altered on disk: manifest, signature or files.
Alter(v) ==
  /\ FetchCached(v)
  /\ \E f \in {"sane", "signed", "intact"} : cached' = [cached EXCEPT ![v][f] = FALSE]
  /\ UNCHANGED <<active, backup, part, task, confirmed, unsafe, storeOps, storeDown>>

(***************************************************************************)
(* install and update                                                      *)
(***************************************************************************)
Busy == {t \in StoreTasks : task[t] # Resting}

Begins(t) ==
  /\ task[t] = Resting /\ storeOps < MaxStoreOps
  /\ storeOps' = storeOps + 1
  /\ unsafe' = (unsafe \/ Busy # {} \/ TornFile \in {active, backup})

Enters(t, record) == task' = [task EXCEPT ![t] = record]

Granted(v, granted) == Needs[v] \subseteq granted

\* A package that does not verify, or asks for more than was granted, changes
\* nothing.
Install(t, v, granted) ==
  /\ FetchCached(v) /\ Granted(v, granted)
  /\ Begins(t)
  /\ Enters(t, [pc |-> IF active = NoFile THEN "open" ELSE "copy", version |-> v])
  /\ UNCHANGED <<cached, active, backup, part, confirmed, storeDown>>

\* fs::copy truncates the rollback file and then fills it; it fails when the
\* record has gone.
InstallCopy(t) ==
  /\ task[t].pc = "copy"
  /\ IF active = NoFile
     THEN Enters(t, Resting) /\ UNCHANGED backup
     ELSE /\ Enters(t, [pc |-> "fill", version |-> task[t].version, copy |-> active])
          /\ backup' = TornFile
  /\ UNCHANGED <<cached, active, part, confirmed, unsafe, storeOps, storeDown>>

\* What a write leaves in a file that another task filled since it was opened:
\* a shorter record keeps the tail of the longer one.
Written(old, v) == IF old = TornFile THEN {v} ELSE {v, TornFile}

InstallFill(t) ==
  /\ task[t].pc = "fill"
  /\ backup' \in Written(backup, task[t].copy)
  /\ Enters(t, [pc |-> "open", version |-> task[t].version])
  /\ UNCHANGED <<cached, active, part, confirmed, unsafe, storeOps, storeDown>>

\* fs::write creates or truncates the temporary file ...
InstallOpen(t) ==
  /\ task[t].pc = "open"
  /\ part' = TornFile
  /\ Enters(t, [pc |-> "write", version |-> task[t].version, file |-> "part"])
  /\ UNCHANGED <<cached, active, backup, confirmed, unsafe, storeOps, storeDown>>

\* ... and fills whatever that file is called by now.
InstallWrite(t) ==
  LET v == task[t].version
      f == task[t].file
  IN  /\ task[t].pc = "write"
      /\ part' \in IF f = "part" THEN Written(part, v) ELSE {part}
      /\ active' \in IF f = "active" THEN Written(active, v) ELSE {active}
      /\ Enters(t, [pc |-> "rename", version |-> v])
      /\ UNCHANGED <<cached, backup, confirmed, unsafe, storeOps, storeDown>>

\* A write that fails leaves the temporary file as it is.
InstallFails(t) ==
  /\ task[t].pc = "write"
  /\ Enters(t, Resting)
  /\ UNCHANGED <<cached, active, backup, part, confirmed, unsafe, storeOps, storeDown>>

\* The tasks once file old is called new, and what was called new is gone.
Renamed(tasks, old, new) ==
  [t \in StoreTasks |->
     IF tasks[t].pc \notin {"write", "restore"} THEN tasks[t]
     ELSE [tasks[t] EXCEPT !.file = IF @ = old THEN new ELSE IF @ = new THEN "gone" ELSE @]]

InstallRename(t) ==
  /\ task[t].pc = "rename"
  /\ IF part = NoFile
     THEN Enters(t, Resting) /\ UNCHANGED <<active, part, confirmed>>
     ELSE /\ active' = part /\ part' = NoFile
          /\ confirmed' = confirmed \union {task[t].version}
          /\ task' = Renamed([task EXCEPT ![t] = Resting], "part", "active")
  /\ UNCHANGED <<cached, backup, unsafe, storeOps, storeDown>>

(***************************************************************************)
(* uninstall and rollback                                                  *)
(***************************************************************************)
Uninstall(t) ==
  /\ Begins(t)
  /\ active' = NoFile
  /\ task' = Renamed(task, "active", "gone")
  /\ confirmed' = {}
  /\ UNCHANGED <<cached, backup, part, storeDown>>

\* Fault: the copy is moved, so that a version is restored only once.
RollbackMoves(t) ==
  /\ backup # NoFile
  /\ Begins(t)
  /\ active' = TornFile /\ backup' = NoFile
  /\ Enters(t, [pc |-> "restore", file |-> "active", copy |-> backup])
  /\ UNCHANGED <<cached, part, confirmed, storeDown>>

\* fs::copy over the record, which it truncates first.
Rollback(t) ==
  /\ backup # NoFile
  /\ Begins(t)
  /\ active' = TornFile
  /\ Enters(t, [pc |-> "restore", file |-> "active", copy |-> backup])
  /\ UNCHANGED <<cached, backup, part, confirmed, storeDown>>

RollbackFill(t) ==
  /\ task[t].pc = "restore"
  /\ active' \in IF task[t].file = "active" THEN Written(active, task[t].copy) ELSE {active}
  /\ Enters(t, Resting)
  /\ UNCHANGED <<cached, backup, part, confirmed, unsafe, storeOps, storeDown>>

StoreCrash ==
  /\ ~storeDown /\ Busy # {}
  /\ storeDown' = TRUE
  /\ task' = [t \in StoreTasks |-> Resting]
  /\ UNCHANGED <<cached, active, backup, part, confirmed, unsafe, storeOps>>

StoreNext ==
  \/ \E v \in Versions : Publish(v) \/ Alter(v)
  \/ \E t \in StoreTasks :
       \/ \E v \in Versions, granted \in SUBSET Capabilities : Install(t, v, granted)
       \/ InstallCopy(t) \/ InstallFill(t) \/ InstallOpen(t) \/ InstallWrite(t)
       \/ InstallFails(t) \/ InstallRename(t)
       \/ Uninstall(t) \/ Rollback(t) \/ RollbackFill(t)
  \/ StoreCrash

-----------------------------------------------------------------------------
\* An app whose install was answered keeps a readable record, or a readable copy
\* to roll back to, wherever a crash cuts an install or a rollback.  It holds as
\* long as operations do not overlap and none begins while one of the two files
\* is torn: install copies a torn record over the good copy, rollback a torn copy
\* over the good record, and two installs can mix in the temporary file.
OneVersionSurvives == confirmed # {} /\ ~unsafe => {active, backup} \intersect Versions # {}
=============================================================================
