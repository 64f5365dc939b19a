------------------------- MODULE GeneratedOnce -------------------------
(***************************************************************************)
(* The esf commands that write into a domain's repository: scaffold and    *)
(* scaffold-all (scaffold.py), scaffold-version and release-sql            *)
(* (versioning.py), repair-sql (repair.py), lifecycle-sql (lifecycle.py)   *)
(* and health-cadence-sql (health_cadence.py); what `esf plan` (plan.py)   *)
(* and `esf validate` (validation.py) say of the result; and how the       *)
(* decommission file ends in an environment where versions were deployed.  *)
(*                                                                         *)
(* A command looks for its directory, renders all files in memory, makes   *)
(* the directory and writes one file after another.  Nothing locks the     *)
(* repository: commands overlap, and one that dies leaves what it wrote,   *)
(* the last file perhaps empty.                                            *)
(***************************************************************************)
EXTENDS Naturals, FiniteSets, SequencesExt

CONSTANTS
  Dataset,        \* the datasets that the source manifest declares
  Candidate,      \* numbers of candidate versions
  Model,          \* execution models an engineer chooses from
  BundleKind,     \* kinds of operation files that are generated
  Command,        \* commands that run at the same time
  MaxStarts       \* bound on the commands started

ASSUME DatasetAssumption == IsFiniteSet(Dataset)
ASSUME CandidateAssumption == Candidate \subseteq Nat \ {0, 1}
ASSUME ModelAssumption ==
  /\ "stream_task" \in Model
  /\ Model \subseteq {"stream_task", "dynamic_table", "batch_sql"}
ASSUME BundleAssumption ==
  BundleKind \subseteq {"release", "repair", "pause", "decommission", "cadence"}
ASSUME BoundAssumption == MaxStarts \in Nat
ASSUME CommandAssumption == Command \cap {"nobody", "domain"} = {}

VARIABLES
  dir,            \* the directories of the repository
  command,        \* what each running command still has to do
  starts,         \* commands started
  runtime,        \* the scheduler of each version: "none", "running", "stopped"
  decommissioned  \* datasets with LIFECYCLE_STATUS = 'DECOMMISSIONED'

environment == <<runtime, decommissioned>>
vars == <<dir, command, starts, runtime, decommissioned>>

-----------------------------------------------------------------------------
\* Directories and their files

Number == {1} \cup Candidate
VersionDir == {"version"} \X Dataset \X Number
\* A release or a repair is of a candidate, a decommission of all versions.
BundleDir ==
  {b \in BundleKind \X Dataset \X Number :
     /\ b[1] \in {"release", "repair"} => b[3] # 1
     /\ b[1] = "decommission" => b[3] = 1}
Directory == VersionDir \cup BundleDir

\* Files written next to each other that no rule tells apart are one: "common"
\* is 025 to the deploy fragment, "procedures" 001 to 020, "dynamic" 001 and
\* 020.  README.md comes first and is as good as the bare directory.
SqlFiles(m) ==
  CASE m = "dynamic_table" -> <<"dynamic">>
    [] m = "batch_sql"     -> <<"procedures">>
    [] OTHER               -> <<"procedures", "task">>

\* Faulty: pipeline.yml is rendered before the SQL.
PipelineFirst(u, m) ==
  IF u \in VersionDir
    THEN <<"version", "common">>
           \o (IF u[3] = 1 THEN <<"pipeline">> ELSE <<>>) \o SqlFiles(m)
    ELSE <<"operation">>

\* The order of the rendered dictionary, which is the order of the writes.
Files(u, m) ==
  IF u \in VersionDir
    THEN <<"version", "common">> \o SqlFiles(m)
           \o (IF u[3] = 1 THEN <<"pipeline">> ELSE <<>>)
    ELSE <<"operation">>

File == {"version", "common", "dynamic", "procedures", "task", "pipeline", "operation"}

\* suspends: the versions a decommission file suspends, each with the execution
\* model it does it for; known: the versions that existed when it was rendered.
Text == [files : SUBSET File, torn : SUBSET File, model : Model,
         suspends : UNION {[ns -> Model] : ns \in SUBSET Number},
         known : SUBSET Number]
Empty == [files |-> {}, torn |-> {}, model |-> "stream_task",
          suspends |-> [n \in {} |-> "stream_task"], known |-> {}]
Absent == [holder |-> "nobody", text |-> Empty]

Made(u) == dir[u].holder # "nobody"
\* destination.exists(): the directory of a first version, which is that of the
\* dataset, holds the directories of the others.
Exists(u) ==
  \/ Made(u)
  \/ u \in VersionDir /\ u[3] = 1 /\ \E n \in Candidate : Made(<<"version", u[2], n>>)
Has(u, f) == Made(u) /\ f \in dir[u].text.files
Whole(u) ==
  Made(u) /\ dir[u].text.torn = {} /\ dir[u].text.files = Range(Files(u, dir[u].text.model))

\* A version.yml that is missing or empty is read as the historical default.
ExecutionModel(u) ==
  IF Has(u, "version") /\ "version" \notin dir[u].text.torn
    THEN dir[u].text.model ELSE "stream_task"

\* Faulty: a version is known by its version.yml.
VersionsWithMetadata(d) == {n \in Number : Has(<<"version", d, n>>, "version")}

\* existing_versions: a version is known by its directory.
ExistingVersions(d) == {n \in Number : Exists(<<"version", d, n>>)}

-----------------------------------------------------------------------------
\* What the reports say of a dataset

\* standard_dataset_files and missing_standard_files, for the first version.
MissingStandardFiles(d) ==
  LET u == <<"version", d, 1>> IN Range(Files(u, ExecutionModel(u))) \ dir[u].text.files

\* `esf validate` reads the YAML files that exist; an empty one is no object.
ValidYaml(d) ==
  \A n \in Number : dir[<<"version", d, n>>].text.torn \cap {"version", "pipeline"} = {}

-----------------------------------------------------------------------------
\* Types

Rendered == [unit : Directory, text : Text]
Work == [at : {"idle", "prepare", "make", "write", "refused"},
         todo : Seq(Rendered), ready : Seq(Rendered), made : SUBSET Directory]
Idle == [at |-> "idle", todo |-> <<>>, ready |-> <<>>, made |-> {}]
Running(at, todo, ready) == [at |-> at, todo |-> todo, ready |-> ready, made |-> {}]

TypeOK ==
  /\ dir \in [Directory -> [holder : Command \cup {"nobody", "domain"}, text : Text]]
  /\ command \in [Command -> Work]
  /\ \A c \in Command :
       command[c].at = "write" => dir[Head(command[c].ready).unit].holder = c
  /\ starts \in 0..MaxStarts
  /\ runtime \in [Dataset \X Number -> {"none", "running", "stopped"}]
  /\ decommissioned \subseteq Dataset

-----------------------------------------------------------------------------
\* Starting a command

At(c, at) == command[c].at = at
Become(c, record) == command' = [command EXCEPT ![c] = record]
Start(c, record) ==
  /\ command[c].at \in {"idle", "refused"}
  /\ starts < MaxStarts
  /\ starts' = starts + 1
  /\ Become(c, record)
  /\ UNCHANGED <<dir, environment>>

Render(u, m) == [unit |-> u, text |-> [Empty EXCEPT !.model = m]]

\* scaffold: one dataset; an existing directory is only reported.
Scaffold(c, d, m) ==
  /\ ~Exists(<<"version", d, 1>>)
  /\ Start(c, Running("prepare", <<Render(<<"version", d, 1>>, m)>>, <<>>))

\* scaffold-all: the new datasets of build_source_plan, in the default model.
ScaffoldAll(c) ==
  LET new == {u \in {<<"version", d, 1>> : d \in Dataset} : ~Exists(u)} IN
    /\ new # {}
    /\ \E todo \in SetToSeqs({Render(u, "stream_task") : u \in new}) :
         Start(c, Running("prepare", todo, <<>>))

\* scaffold-version: the initial implementation must have its pipeline.yml.
ScaffoldVersion(c, d, n, m) ==
  /\ n \in Candidate
  /\ Has(<<"version", d, 1>>, "pipeline")
  /\ ~Made(<<"version", d, n>>)
  /\ Start(c, Running("prepare", <<Render(<<"version", d, n>>, m)>>, <<>>))

\* The rules under which an operation file is rendered.
CanRender(kind, d, n) ==
  CASE kind = "release"      -> \A k \in {1, n} : Has(<<"version", d, k>>, "version")
    [] kind = "repair"       -> Has(<<"version", d, n>>, "version")
    [] kind = "pause"        -> n \in ExistingVersions(d)
    [] kind = "decommission" -> ExistingVersions(d) # {}
    [] OTHER                 -> TRUE

\* release-sql, repair-sql, lifecycle-sql and health-cadence-sql render from
\* the repository as it is now.
GenerateBundle(c, kind, d, n) ==
  LET suspended == IF kind = "decommission" THEN ExistingVersions(d) ELSE {}
      text == [Empty EXCEPT !.suspends = [k \in suspended |->
                                            ExecutionModel(<<"version", d, k>>)],
                            !.known = {k \in Number : Made(<<"version", d, k>>)}]
  IN /\ <<kind, d, n>> \in BundleDir
     /\ ~Made(<<kind, d, n>>)
     /\ CanRender(kind, d, n)
     /\ Start(c, Running("make", <<>>, <<[unit |-> <<kind, d, n>>, text |-> text]>>))

-----------------------------------------------------------------------------
\* Preparing and writing

\* Faulty: each dataset is written as soon as it is prepared.
PreparedOneByOne(c) == TRUE

\* scaffold_all prepares every dataset before it writes the first.
AllPrepared(c) == Len(command[c].todo) = 1

\* _prepare_dataset: with a contract that loads every file is in memory.
Prepare(c) ==
  /\ At(c, "prepare")
  /\ ~Exists(Head(command[c].todo).unit)
  /\ Become(c, [command[c] EXCEPT !.at = IF AllPrepared(c) THEN "make" ELSE "prepare",
                  !.todo = Tail(@), !.ready = Append(@, Head(command[c].todo))])
  /\ UNCHANGED <<dir, starts, environment>>

\* A directory that has appeared raises, and so does a contract that is missing
\* or does not load; engineers may be editing it.
Refuse(c) ==
  /\ At(c, "prepare")
  /\ Become(c, [command[c] EXCEPT !.at = "refused", !.todo = <<>>, !.ready = <<>>])
  /\ UNCHANGED <<dir, environment, starts>>

\* Faulty: mkdir(exist_ok=True).
MayMake(u) == TRUE

\* mkdir(exist_ok=False).
CanMake(u) == ~Exists(u)
MakeDirectory(c) ==
  /\ At(c, "make")
  /\ LET next == Head(command[c].ready) IN
       IF CanMake(next.unit)
         THEN /\ dir' = [dir EXCEPT ![next.unit] = [holder |-> c, text |-> next.text]]
              /\ Become(c, [command[c] EXCEPT !.at = "write", !.made = @ \cup {next.unit}])
         ELSE /\ Become(c, Idle)
              /\ UNCHANGED dir
  /\ UNCHANGED <<starts, environment>>

\* A directory has other files now, and perhaps another holder.
Refill(u, holder, files, torn) ==
  dir' = [dir EXCEPT ![u] = [holder |-> holder,
                             text |-> [dir[u].text EXCEPT !.files = files, !.torn = torn]]]

\* write_text of the next file; after the last one of a directory the next
\* directory is made, or prepared if it has not been.
WriteFile(c) ==
  /\ At(c, "write")
  /\ LET u == Head(command[c].ready).unit
         order == Files(u, dir[u].text.model)
         written == Cardinality(dir[u].text.files)
         rest == Tail(command[c].ready)
     IN /\ Refill(u, IF written + 1 = Len(order) THEN "domain" ELSE c,
                  dir[u].text.files \cup {order[written + 1]}, {})
        /\ IF written + 1 < Len(order) THEN UNCHANGED command
           ELSE Become(c, IF command[c].todo # <<>>
                            THEN [command[c] EXCEPT !.at = "prepare", !.ready = rest]
                          ELSE IF rest # <<>>
                            THEN [command[c] EXCEPT !.at = "make", !.ready = rest]
                          ELSE Idle)
  /\ UNCHANGED <<starts, environment>>

\* The command is interrupted or the disk is full: the file being written is
\* not there, or is there and empty.
Die(c) ==
  /\ At(c, "write")
  /\ LET u == Head(command[c].ready).unit
         next == Files(u, dir[u].text.model)[Cardinality(dir[u].text.files) + 1]
     IN \E lost \in {{}, {next}} : Refill(u, "domain", dir[u].text.files \cup lost, lost)
  /\ Become(c, Idle)
  /\ UNCHANGED <<starts, environment>>

\* A command that dies between directories leaves the next ones out.
Interrupt(c) ==
  /\ command[c].at \in {"prepare", "make"}
  /\ Become(c, Idle)
  /\ UNCHANGED <<dir, starts, environment>>

-----------------------------------------------------------------------------
\* The engineers of the domain

\* An incomplete directory is completed by hand, or deleted to generate it again.
Complete(u) ==
  /\ dir[u].holder = "domain" /\ ~Whole(u)
  /\ Refill(u, "domain", Range(Files(u, dir[u].text.model)), {})
  /\ UNCHANGED <<command, starts, environment>>

Discard(u) ==
  /\ dir[u].holder = "domain" /\ ~Whole(u)
  /\ u \in VersionDir /\ u[3] = 1 => ~\E n \in Candidate : Made(<<"version", u[2], n>>)
  /\ dir' = [dir EXCEPT ![u] = Absent]
  /\ UNCHANGED <<command, starts, environment>>

\* A candidate is registered only if the dataset has an active version: the first
\* has been deployed, which for batch_sql leaves no scheduler.
HasActive(d) ==
  \/ runtime[<<d, 1>>] # "none"
  \/ /\ Whole(<<"version", d, 1>>)
     /\ dir[<<"version", d, 1>>].text.model = "batch_sql"

\* Migrations of a whole version are deployed and its task or dynamic table is
\* resumed; batch_sql has no scheduler.
Deploy(d, n) ==
  /\ Whole(<<"version", d, n>>)
  /\ dir[<<"version", d, n>>].text.model # "batch_sql"
  /\ runtime[<<d, n>>] = "none"
  /\ n # 1 => HasActive(d)
  /\ d \notin decommissioned
  /\ runtime' = [runtime EXCEPT ![<<d, n>>] = "running"]
  /\ UNCHANGED <<dir, command, starts, decommissioned>>

\* ALTER TASK or ALTER DYNAMIC TABLE raises if there is no such object; the
\* line for a batch_sql version is a comment.
StatementRuns(d, n, m) ==
  \/ m = "batch_sql"
  \/ runtime[<<d, n>>] # "none" /\ dir[<<"version", d, n>>].text.model = m

\* The decommission file suspends the versions it lists, in order, up to the
\* first statement that raises; if none does it withdraws the dataset.
RunDecommission(d) ==
  LET u == <<"decommission", d, 1>>
      suspends == dir[u].text.suspends
      listed == DOMAIN suspends
      failing == {n \in listed : ~StatementRuns(d, n, suspends[n])}
      ran == {n \in listed : suspends[n] # "batch_sql" /\ \A k \in failing : n < k}
  IN /\ "decommission" \in BundleKind
     /\ Whole(u)
     /\ runtime' = [v \in DOMAIN runtime |->
          IF v[1] = d /\ v[2] \in ran THEN "stopped" ELSE runtime[v]]
     /\ decommissioned' = IF failing = {} THEN decommissioned \cup {d} ELSE decommissioned
     /\ UNCHANGED <<dir, command, starts>>

-----------------------------------------------------------------------------
\* The specification

Init ==
  /\ dir = [u \in Directory |-> Absent]
  /\ command = [c \in Command |-> Idle]
  /\ starts = 0
  /\ runtime = [v \in Dataset \X Number |-> "none"]
  /\ decommissioned = {}

RunCommand(c) ==
  \/ \E d \in Dataset, m \in Model : Scaffold(c, d, m)
  \/ ScaffoldAll(c)
  \/ \E d \in Dataset, n \in Candidate, m \in Model : ScaffoldVersion(c, d, n, m)
  \/ \E kind \in BundleKind, d \in Dataset, n \in Number : GenerateBundle(c, kind, d, n)
  \/ Prepare(c)
  \/ Refuse(c)
  \/ MakeDirectory(c)
  \/ WriteFile(c)
  \/ Die(c)
  \/ Interrupt(c)

Engineer ==
  \/ \E d \in Dataset : RunDecommission(d)
  \/ \E u \in Directory : Complete(u) \/ Discard(u)
  \/ \E d \in Dataset, n \in Number : Deploy(d, n)

Next == Engineer \/ \E c \in Command : RunCommand(c)
Spec == Init /\ [][Next]_vars

-----------------------------------------------------------------------------
\* Properties

\* "Generated once, domain-owned forever": each directory is filled by one
\* command, and once that has ended or died no command changes it, however
\* the check for the directory (`destination.exists()`) and the mkdir of two
\* commands interleave.
Ownership == INSTANCE DomainOwnership WITH
  holder <- [u \in Directory |-> dir[u].holder],
  text <- [u \in Directory |-> dir[u].text]
GeneratedOnceDomainOwned == Ownership!OwnershipSpec

\* If `esf plan` reports no missing file of a dataset (plan.py) and `esf
\* validate` finds its YAML well-formed (validation.py), then no command died
\* in the directory of its first version without a trace: it is whole.
LeftoverDetected ==
  \A d \in Dataset :
    LET u == <<"version", d, 1>> IN
      Made(u) /\ MissingStandardFiles(d) = {} /\ ValidYaml(d) => Whole(u)

\* "All validation happens before files are written": a scaffold or
\* scaffold-all that raises over a contract, or over a directory it finds,
\* has not made any directory (scaffold.py, _prepare_dataset).
RefusedWritesNothing ==
  \A c \in Command : At(c, "refused") => command[c].made = {}

\* A version for whose execution model the file suspends nothing.
NoScheduler(text, n) == n \in DOMAIN text.suspends /\ text.suspends[n] = "batch_sql"

\* A decommission that runs to its end leaves no version running that existed
\* when its file was generated, whether or not that version was complete, or
\* was even generated with another execution model, then (lifecycle.py).  Only
\* a version that had no scheduler then and was replaced since is not covered.
DecommissionStopsKnown ==
  [][\A d \in Dataset : decommissioned' # decommissioned /\ d \in decommissioned' =>
       LET text == dir[<<"decommission", d, 1>>].text IN
         \A n \in text.known :
           runtime'[<<d, n>>] # "running" \/ NoScheduler(text, n)]_vars
=============================================================================
