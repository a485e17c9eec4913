----------------------------- MODULE Federation -----------------------------
(***************************************************************************)
(* The federation of a node: AweNetConfig (core/src/federation.rs), which  *)
(* awe-node keeps behind a mutex and in awenet.json, and                   *)
(* /api/federation/import, which takes an .awenode, .awedc or .dgc file.   *)
(*                                                                         *)
(* An import changes the configuration under the lock, releases it, awaits *)
(* Node::bootstrap on every known endpoint, and only then takes the lock   *)
(* again to write the file, in place.  Imports run concurrently.           *)
(*                                                                         *)
(* An import file is the kind, the data centres it names and the           *)
(* endpoints it brings.  Validation and format fields are left out: an     *)
(* import that is refused changes nothing.  So are the ids of groups, which *)
(* are kept beside the data centres in the same way.                       *)
(***************************************************************************)
EXTENDS Integers, FiniteSets

CONSTANTS
  ImportFiles,    \* [kind, centres, endpoints]; the first two kinds name one centre
  ImportTasks,    \* imports in progress at once
  OwnCentre,      \* the id an .awedc import derives from the node's own id
  MaxImports,     \* bound: imports of a run
  NoCentre,       \* local_data_centre_id = None
  TornConfig      \* a file that was cut short

Kinds == {"awenode", "awedc", "dgc"}

\* Every configuration that imports can make.
Configurations ==
  LET named == UNION {f.centres : f \in ImportFiles}
  IN  [centre : named \union {OwnCentre, NoCentre}, joined : SUBSET named,
       endpoints : SUBSET UNION {f.endpoints : f \in ImportFiles}]

ASSUME FederationAssumption ==
  /\ \A f \in ImportFiles : f.kind \in Kinds /\ f.centres # {}
  /\ TornConfig \notin Configurations

VARIABLES
  federation,     \* the configuration in memory
  awenet,         \* awenet.json, or TornConfig
  importing,      \* [ImportTasks -> {} or the file that waits for bootstrap]
  imported,       \* history: files whose import was answered, since a start that
                  \* did not find them all
  fedSaved,       \* history: awenet.json holds what the last save was given
  imports         \* bound

fedVars == <<federation, awenet, importing, imported, fedSaved, imports>>

Unfederated == [centre |-> NoCentre, joined |-> {}, endpoints |-> {}]

\* A start without awenet.json writes the default at once.
FedInit ==
  /\ federation = Unfederated
  /\ awenet = Unfederated
  /\ importing = [t \in ImportTasks |-> {}]
  /\ imported = {} /\ fedSaved = TRUE /\ imports = 0

\* An .awenode file moves the node to its data centre and replaces the
\* endpoints.
JoinCentre(s, f) ==
  [centre |-> CHOOSE c \in f.centres : TRUE, joined |-> s.joined \union f.centres,
   endpoints |-> f.endpoints]

\* An .awedc file is an invitation: the node keeps its own data centre.
AcceptInvitation(s, f) ==
  [centre |-> IF s.centre = NoCentre THEN OwnCentre ELSE s.centre,
   joined |-> s.joined \union f.centres, endpoints |-> s.endpoints \union f.endpoints]

JoinGroup(s, f) == [s EXCEPT !.joined = @ \union f.centres]

Imported(s, f) ==
  CASE f.kind = "awenode" -> JoinCentre(s, f)
    [] f.kind = "awedc" -> AcceptInvitation(s, f)
    [] f.kind = "dgc" -> JoinGroup(s, f)

Import(t, f) ==
  /\ importing[t] = {} /\ imports < MaxImports
  /\ imports' = imports + 1
  /\ federation' = Imported(federation, f)
  /\ importing' = [importing EXCEPT ![t] = {[file |-> f, seen |-> federation']}]
  /\ UNCHANGED <<awenet, imported, fedSaved>>

\* Fault: what is saved is the copy whose endpoints were bootstrapped.
ToSaveCopy(i) == i.seen

ToSave(i) == federation

\* save_json: the file is written in place.  A save that fails, which every caller
\* ignores, keeps the old file when the directory or the file cannot be opened,
\* and leaves a cut one when the write stops in the middle.
SaveJson(config) ==
  /\ awenet' \in {config, awenet, TornConfig}
  /\ fedSaved' = (awenet' = config)

\* After bootstrap: the file is written under the lock and the import is
\* answered, whatever became of the write.
ImportSaved(t) ==
  /\ importing[t] # {}
  /\ \E i \in importing[t] :
       /\ SaveJson(ToSave(i))
       /\ imported' = imported \union {i.file}
  /\ importing' = [importing EXCEPT ![t] = {}]
  /\ UNCHANGED <<federation, imports>>

\* The process ends and starts again: a file that cannot be read or does not
\* parse becomes the default, and what was read is written back.
FedRestart(read) ==
  /\ federation' = IF read /\ awenet # TornConfig THEN awenet ELSE Unfederated
  /\ SaveJson(federation')
  /\ imported' = IF read /\ fedSaved THEN imported ELSE {}
  /\ importing' = [t \in ImportTasks |-> {}]
  /\ UNCHANGED imports

FedNext ==
  \/ \E t \in ImportTasks, f \in ImportFiles : Import(t, f)
  \/ \E t \in ImportTasks : ImportSaved(t)
  \/ \E read \in BOOLEAN : FedRestart(read)

-----------------------------------------------------------------------------
\* Data centres of an import that was answered stay joined over other imports
\* that began before it and are saved after it, and over restarts: the handler
\* saves the state it finds when bootstrap is over, not the one it made.  They
\* are in awenet.json too unless the last save failed, and only a start that
\* comes after a failed save, or cannot read the file, forgets them: the import
\* is answered all the same.
JoinsSurvive ==
  \A f \in imported :
    f.centres \subseteq federation.joined /\ (fedSaved => f.centres \subseteq awenet.joined)
=============================================================================
