---------------------- MODULE GeneratedOnceProofs ----------------------
(***************************************************************************)
(* Proofs about GeneratedOnce, for any datasets, versions, operation files *)
(* and commands: the type invariant, how far each directory is filled,     *)
(* what refusals and leftovers show, that the abstract specification is    *)
(* implemented, and what a decommission stops.                             *)
(***************************************************************************)
EXTENDS GeneratedOnce, FiniteSetTheorems, SequenceTheorems, TLAPS

-----------------------------------------------------------------------------
\* The files of a directory

\* Short lists of files, one after the other: two and one,
LEMMA Join21 ==
  ASSUME NEW a, NEW b, NEW c
  PROVE  <<a, b>> \o <<c>> = <<a, b, c>>
<1> DEFINE S == {a, b, c}
           s == <<a, b>> \o <<c>>
<1>1. <<a, b>> \in Seq(S) /\ <<c>> \in Seq(S) /\ <<a, b, c>> \in Seq(S)
  OBVIOUS
<1>2. s \in Seq(S) /\ Len(s) = 3 /\ s[1] = a /\ s[2] = b /\ s[3] = c
  <2> HIDE DEF S
  <2> QED BY <1>1, ConcatProperties
<1> HIDE DEF s, S
<1>3. \A i \in 1..Len(s) : s[i] = <<a, b, c>>[i]
  BY <1>2
<1>4. s = <<a, b, c>>
  BY <1>1, <1>2, <1>3, SeqEqual
<1> QED BY <1>4 DEF s

\* two and two,
LEMMA Join22 ==
  ASSUME NEW a, NEW b, NEW c, NEW d
  PROVE  <<a, b>> \o <<c, d>> = <<a, b, c, d>>
<1> DEFINE S == {a, b, c, d}
           s == <<a, b>> \o <<c, d>>
<1>1. <<a, b>> \in Seq(S) /\ <<c, d>> \in Seq(S) /\ <<a, b, c, d>> \in Seq(S)
  OBVIOUS
<1>2. s \in Seq(S) /\ Len(s) = 4 /\ s[1] = a /\ s[2] = b /\ s[3] = c /\ s[4] = d
  <2> HIDE DEF S
  <2> QED BY <1>1, ConcatProperties
<1> HIDE DEF s, S
<1>3. \A i \in 1..Len(s) : s[i] = <<a, b, c, d>>[i]
  BY <1>2
<1>4. s = <<a, b, c, d>>
  BY <1>1, <1>2, <1>3, SeqEqual
<1> QED BY <1>4 DEF s

\* three and one,
LEMMA Join31 ==
  ASSUME NEW a, NEW b, NEW c, NEW d
  PROVE  <<a, b, c>> \o <<d>> = <<a, b, c, d>>
<1> DEFINE S == {a, b, c, d}
           s == <<a, b, c>> \o <<d>>
<1>1. <<a, b, c>> \in Seq(S) /\ <<d>> \in Seq(S) /\ <<a, b, c, d>> \in Seq(S)
  OBVIOUS
<1>2. s \in Seq(S) /\ Len(s) = 4 /\ s[1] = a /\ s[2] = b /\ s[3] = c /\ s[4] = d
  <2> HIDE DEF S
  <2> QED BY <1>1, ConcatProperties
<1> HIDE DEF s, S
<1>3. \A i \in 1..Len(s) : s[i] = <<a, b, c, d>>[i]
  BY <1>2
<1>4. s = <<a, b, c, d>>
  BY <1>1, <1>2, <1>3, SeqEqual
<1> QED BY <1>4 DEF s

\* four and one.
LEMMA Join41 ==
  ASSUME NEW a, NEW b, NEW c, NEW d, NEW e
  PROVE  <<a, b, c, d>> \o <<e>> = <<a, b, c, d, e>>
<1> DEFINE S == {a, b, c, d, e}
           s == <<a, b, c, d>> \o <<e>>
<1>1. <<a, b, c, d>> \in Seq(S) /\ <<e>> \in Seq(S) /\ <<a, b, c, d, e>> \in Seq(S)
  OBVIOUS
<1>2. s \in Seq(S) /\ Len(s) = 5 /\ s[1] = a /\ s[2] = b /\ s[3] = c /\ s[4] = d /\ s[5] = e
  <2> HIDE DEF S
  <2> QED BY <1>1, ConcatProperties
<1> HIDE DEF s, S
<1>3. \A i \in 1..Len(s) : s[i] = <<a, b, c, d, e>>[i]
  BY <1>2
<1>4. s = <<a, b, c, d, e>>
  BY <1>1, <1>2, <1>3, SeqEqual
<1> QED BY <1>4 DEF s

\* What is written into a directory, in order: version.yml before the SQL, and
\* pipeline.yml last where there is one.
LEMMA FilesAre ==
  ASSUME NEW u \in Directory, NEW m \in Model
  PROVE  \/ u \notin VersionDir /\ Files(u, m) = <<"operation">>
         \/ /\ u \in VersionDir /\ u[3] = 1
            /\ \/ Files(u, m) = <<"version", "common", "dynamic", "pipeline">>
               \/ Files(u, m) = <<"version", "common", "procedures", "pipeline">>
               \/ Files(u, m) = <<"version", "common", "procedures", "task", "pipeline">>
         \/ /\ u \in VersionDir /\ u[3] # 1
            /\ \/ Files(u, m) = <<"version", "common", "dynamic">>
               \/ Files(u, m) = <<"version", "common", "procedures">>
               \/ Files(u, m) = <<"version", "common", "procedures", "task">>
<1> DEFINE sql == SqlFiles(m)
<1>1. sql = <<"dynamic">> \/ sql = <<"procedures">> \/ sql = <<"procedures", "task">>
  BY DEF SqlFiles
<1>2. CASE u \notin VersionDir
  BY <1>2 DEF Files
<1>3. CASE u \in VersionDir
  <2> DEFINE first == <<"version", "common">> \o sql
  <2>1. Files(u, m) = first \o (IF u[3] = 1 THEN <<"pipeline">> ELSE <<>>)
    <3>1. Files(u, m) = <<"version", "common">> \o sql
                          \o (IF u[3] = 1 THEN <<"pipeline">> ELSE <<>>)
      BY <1>3 DEF Files
    <3> QED BY <3>1
  <2> HIDE DEF sql
  <2>2. \/ first = <<"version", "common", "dynamic">>
        \/ first = <<"version", "common", "procedures">>
        \/ first = <<"version", "common", "procedures", "task">>
    BY <1>1, Join21, Join22
  <2> HIDE DEF first
  <2>3. CASE u[3] = 1
    BY <1>3, <2>1, <2>2, <2>3, Join31, Join41
  <2>4. CASE u[3] # 1
    <3> DEFINE S == {"version", "common", "dynamic", "procedures", "task"}
    <3>a. /\ <<"version", "common", "dynamic">> \in Seq(S)
          /\ <<"version", "common", "procedures">> \in Seq(S)
          /\ <<"version", "common", "procedures", "task">> \in Seq(S)
      OBVIOUS
    <3> HIDE DEF S
    <3>1. first \in Seq(S)
      BY <2>2, <3>a
    <3>2. Files(u, m) = first
      BY <2>1, <2>4, <3>1, ConcatEmptySeq
    <3> QED BY <1>3, <2>2, <2>4, <3>2
  <2> QED BY <2>3, <2>4
<1> QED BY <1>2, <1>3

\* No file is written twice.
ProperList(order) ==
  /\ order \in Seq(File) /\ Len(order) \in Nat \ {0}
  /\ \A i, j \in 1..Len(order) : i # j => order[i] # order[j]

\* What the proofs need of it.
LEMMA FilesFacts ==
  ASSUME NEW u \in Directory, NEW m \in Model
  PROVE  /\ ProperList(Files(u, m))
         /\ u \in VersionDir => Files(u, m)[1] = "version"
         /\ u \in VersionDir /\ u[3] = 1 => Files(u, m)[Len(Files(u, m))] = "pipeline"
         /\ u \notin VersionDir => Len(Files(u, m)) = 1
<1> DEFINE Known(order) ==
             /\ ProperList(order)
             /\ u \in VersionDir => order[1] = "version"
             /\ u \in VersionDir /\ u[3] = 1 => order[Len(order)] = "pipeline"
             /\ u \notin VersionDir => Len(order) = 1
<1>1. ASSUME u \notin VersionDir
      PROVE  Known(<<"operation">>)
  BY <1>1 DEF ProperList, File
<1>2. ASSUME u \in VersionDir
      PROVE  /\ Known(<<"version", "common", "dynamic", "pipeline">>)
             /\ Known(<<"version", "common", "procedures", "pipeline">>)
             /\ Known(<<"version", "common", "procedures", "task", "pipeline">>)
  <2>1. Known(<<"version", "common", "dynamic", "pipeline">>)
    BY <1>2 DEF ProperList, File
  <2>2. Known(<<"version", "common", "procedures", "pipeline">>)
    BY <1>2 DEF ProperList, File
  <2>3. Known(<<"version", "common", "procedures", "task", "pipeline">>)
    BY <1>2 DEF ProperList, File
  <2> QED BY <2>1, <2>2, <2>3
<1>3. ASSUME u \in VersionDir, u[3] # 1
      PROVE  /\ Known(<<"version", "common", "dynamic">>)
             /\ Known(<<"version", "common", "procedures">>)
             /\ Known(<<"version", "common", "procedures", "task">>)
  <2>1. Known(<<"version", "common", "dynamic">>)
    BY <1>3 DEF ProperList, File
  <2>2. Known(<<"version", "common", "procedures">>)
    BY <1>3 DEF ProperList, File
  <2>3. Known(<<"version", "common", "procedures", "task">>)
    BY <1>3 DEF ProperList, File
  <2> QED BY <2>1, <2>2, <2>3
<1>4. Known(Files(u, m))
  <2> HIDE DEF Known
  <2> QED BY <1>1, <1>2, <1>3, FilesAre
<1> QED BY <1>4

\* The first k files of a directory are k files.
LEMMA PrefixCount ==
  ASSUME NEW u \in Directory, NEW m \in Model, NEW k \in 0..Len(Files(u, m))
  PROVE  Cardinality({Files(u, m)[i] : i \in 1..k}) = k
<1> DEFINE order == Files(u, m)
           some == {order[i] : i \in 1..k}
           f == [i \in 1..k |-> order[i]]
<1>1. k \in Nat /\ \A i, j \in 1..k : i # j => order[i] # order[j]
  BY FilesFacts DEF ProperList
<1> HIDE DEF order
<1>2. f \in Bijection(1..k, some)
  BY <1>1 DEF Bijection, Injection, IsInjective, Surjection
<1>3. ExistsBijection(1..k, some)
  BY <1>2 DEF ExistsBijection
<1> HIDE DEF some
<1>4. Cardinality(some) = k
  BY <1>1, <1>3, FS_CountingElements
<1> QED BY <1>4 DEF some, order
-----------------------------------------------------------------------------
\* The inductive invariant

\* What a command has rendered: files still to be written, and for a
\* decommission every known version with the model it is suspended for.
FreshRendered ==
  {r \in Rendered : /\ r.text.files = {} /\ r.text.torn = {}
                    /\ r.unit[1] = "decommission" => r.text.known \subseteq DOMAIN r.text.suspends}

WorkOK(w) ==
  /\ w \in Work
  /\ w.todo \in Seq(FreshRendered) /\ w.ready \in Seq(FreshRendered)
  /\ w.at = "prepare" => w.todo # <<>>
  /\ w.at \in {"make", "write"} => w.todo = <<>> /\ w.ready # <<>>
  /\ w.at \in {"prepare", "refused"} => w.made = {}
WorkInv == \A c \in Command : WorkOK(command[c])

\* The first k files are written, the last of them perhaps empty if the command
\* has died; a command that still holds the directory has more to write.
FilledTo(u, entry, k) ==
  LET order == Files(u, entry.text.model) IN
    /\ k \in 0..Len(order)
    /\ entry.text.files = {order[i] : i \in 1..k}
    /\ entry.text.torn = {} \/ (k # 0 /\ entry.text.torn = {order[k]})
    /\ entry.holder \in Command => k # Len(order) /\ entry.text.torn = {}
FilledInv == \A u \in Directory : \E k \in Nat : FilledTo(u, dir[u], k)

Entry == [holder : Command \cup {"nobody", "domain"}, text : Text]

FillInv == TypeOK /\ WorkInv /\ FilledInv

LEMMA EmptyIsText == Empty \in Text /\ Absent \in Entry
<1>1. [n \in {} |-> "stream_task"] \in [{} -> Model]
  OBVIOUS
<1>2. [n \in {} |-> "stream_task"] \in UNION {[ns -> Model] : ns \in SUBSET Number}
  BY <1>1
<1>3. Empty \in Text
  BY <1>2, ModelAssumption DEF Empty, Text
<1> QED BY <1>3 DEF Absent, Entry

\* The fields of a text.
LEMMA TextFields ==
  ASSUME NEW t \in Text
  PROVE  /\ t.files \in SUBSET File /\ t.torn \in SUBSET File /\ t.model \in Model
         /\ t.known \in SUBSET Number
         /\ DOMAIN t.suspends \in SUBSET Number
         /\ \A n \in DOMAIN t.suspends : t.suspends[n] \in Model
BY DEF Text

\* A directory gets a new entry, and no other changes.
Changed(u, entry) ==
  /\ dir'[u] = entry
  /\ \A v \in Directory : v # u => dir'[v] = dir[v]

LEMMA DirType ==
  ASSUME TypeOK, NEW u \in Directory
  PROVE  dir \in [Directory -> Entry] /\ dir[u] \in Entry /\ dir[u].text \in Text
BY DEF TypeOK, Entry

LEMMA DirAfter ==
  ASSUME TypeOK, FilledInv, NEW u \in Directory, NEW entry \in Entry, NEW k \in Nat,
         dir' = [dir EXCEPT ![u] = entry], FilledTo(u, entry, k)
  PROVE  Changed(u, entry) /\ dir' \in [Directory -> Entry] /\ FilledInv'
<1>1. dir \in [Directory -> Entry]
  BY DirType
<1>2. Changed(u, entry) /\ dir' \in [Directory -> Entry]
  BY <1>1 DEF Changed
<1>3. ASSUME NEW v \in Directory
      PROVE  \E j \in Nat : FilledTo(v, dir'[v], j)
  BY <1>2, <1>3 DEF Changed, FilledInv
<1> QED BY <1>2, <1>3 DEF FilledInv

\* One command does something else.
LEMMA BecomeOK ==
  ASSUME TypeOK, WorkInv, NEW c \in Command, NEW w, Become(c, w), WorkOK(w)
  PROVE  /\ command' \in [Command -> Work] /\ WorkInv'
         /\ command'[c] = w
         /\ \A e \in Command : e # c => command'[e] = command[e]
<1>1. command \in [Command -> Work] /\ w \in Work
  BY DEF TypeOK, WorkOK
<1>2. /\ command' \in [Command -> Work] /\ command'[c] = w
      /\ \A e \in Command : e # c => command'[e] = command[e]
  BY <1>1 DEF Become
<1> QED BY <1>2 DEF WorkInv

LEMMA FreshIsRendered == FreshRendered \subseteq Rendered
BY DEF FreshRendered

\* A command that starts.
LEMMA RunningOK ==
  ASSUME NEW at \in {"prepare", "make"}, NEW todo \in Seq(FreshRendered),
         NEW ready \in Seq(FreshRendered),
         at = "prepare" => todo # <<>>, at = "make" => todo = <<>> /\ ready # <<>>
  PROVE  WorkOK(Running(at, todo, ready)) /\ Running(at, todo, ready).at = at
<1>1. todo \in Seq(Rendered) /\ ready \in Seq(Rendered)
  BY FreshIsRendered, SeqMonotonic
<1> QED BY <1>1 DEF WorkOK, Work, Running

LEMMA IdleOK == WorkOK(Idle) /\ Idle.at = "idle"
<1>1. <<>> \in Seq(Rendered) /\ <<>> \in Seq(FreshRendered)
  OBVIOUS
<1> QED BY <1>1 DEF WorkOK, Work, Idle

\* A directory that is not there, or just made, has no file yet.
LEMMA EmptyFilled ==
  ASSUME NEW u \in Directory, NEW entry, entry.text.model \in Model,
         entry.text.files = {}, entry.text.torn = {}
  PROVE  FilledTo(u, entry, 0)
<1>1. Len(Files(u, entry.text.model)) \in Nat \ {0}
  BY FilesFacts DEF ProperList
<1>2. {Files(u, entry.text.model)[i] : i \in 1..0} = {}
  OBVIOUS
<1> QED BY <1>1, <1>2 DEF FilledTo

LEMMA AbsentIsEmpty == /\ Absent.holder = "nobody" /\ Absent.text = Empty
                       /\ Absent.text.model \in Model
                       /\ Absent.text.files = {} /\ Absent.text.torn = {}
<1>1. /\ Empty.model = "stream_task" /\ Empty.files = {} /\ Empty.torn = {}
  BY DEF Empty
<1> QED BY <1>1, ModelAssumption DEF Absent

LEMMA FillInit == Init => FillInv
<1> SUFFICES ASSUME Init PROVE FillInv
  OBVIOUS
<1>1. dir \in [Directory -> Entry] /\ \A u \in Directory : dir[u] = Absent
  BY EmptyIsText DEF Init
<1>2. command \in [Command -> Work] /\ \A c \in Command : command[c] = Idle
  BY IdleOK DEF Init, WorkOK
<1>3. TypeOK
  BY <1>1, <1>2, IdleOK, BoundAssumption DEF TypeOK, Init, Entry
<1>4. WorkInv
  BY <1>2, IdleOK DEF WorkInv
<1>5. \A u \in Directory : FilledTo(u, dir[u], 0)
  BY <1>1, EmptyFilled, AbsentIsEmpty
<1> QED BY <1>3, <1>4, <1>5 DEF FillInv, FilledInv

\* Steps that leave the directories alone, in which one command does something
\* else than to write next.
LEMMA QuietStep ==
  ASSUME FillInv, NEW c \in Command, NEW w, Become(c, w), WorkOK(w), w.at # "write",
         UNCHANGED <<dir, environment>>, starts' \in 0..MaxStarts
  PROVE  FillInv'
<1>1. TypeOK /\ WorkInv /\ FilledInv
  BY DEF FillInv
<1>2. /\ command' \in [Command -> Work] /\ WorkInv'
      /\ command'[c] = w
      /\ \A e \in Command : e # c => command'[e] = command[e]
  BY <1>1, BecomeOK
<1>3. ASSUME NEW e \in Command, command'[e].at = "write"
      PROVE  dir'[Head(command'[e].ready).unit].holder = e
  <2>1. e # c /\ command'[e] = command[e]
    BY <1>2, <1>3
  <2> QED BY <1>1, <1>3, <2>1 DEF TypeOK
<1>4. TypeOK'
  BY <1>1, <1>2, <1>3 DEF TypeOK, environment
<1>5. FilledInv'
  BY <1>1 DEF FilledInv
<1> QED BY <1>2, <1>4, <1>5 DEF FillInv

\* Steps that change one directory: each command that writes next goes on in a
\* directory that was its own and is not this one, or in this one.
LEMMA ChangeStep ==
  ASSUME FillInv, NEW u \in Directory, NEW entry \in Entry, NEW k \in Nat,
         dir' = [dir EXCEPT ![u] = entry], FilledTo(u, entry, k),
         command' \in [Command -> Work], WorkInv', UNCHANGED <<starts, environment>>,
         \A e \in Command : command'[e].at = "write" =>
            \/ command'[e] = command[e] /\ dir[u].holder # e
            \/ u = Head(command'[e].ready).unit /\ entry.holder = e
  PROVE  FillInv' /\ Changed(u, entry)
<1>1. TypeOK /\ WorkInv /\ FilledInv
  BY DEF FillInv
<1>2. Changed(u, entry) /\ dir' \in [Directory -> Entry] /\ FilledInv'
  BY <1>1, DirAfter
<1>3. ASSUME NEW e \in Command, command'[e].at = "write"
      PROVE  dir'[Head(command'[e].ready).unit].holder = e
  <2>1. CASE u = Head(command'[e].ready).unit /\ entry.holder = e
    BY <1>2, <2>1 DEF Changed
  <2>2. CASE command'[e] = command[e] /\ dir[u].holder # e
    <3> DEFINE v == Head(command[e].ready).unit
    <3>1. dir[v].holder = e
      BY <1>1, <1>3, <2>2 DEF TypeOK
    <3>2. command[e].ready \in Seq(FreshRendered) /\ command[e].ready # <<>>
      BY <1>1, <1>3, <2>2 DEF WorkInv, WorkOK
    <3>3. v \in Directory
      <4>1. Head(command[e].ready) \in FreshRendered
        BY <3>2, HeadTailProperties
      <4> QED BY <4>1 DEF FreshRendered, Rendered
    <3> QED BY <1>2, <2>2, <3>1, <3>3 DEF Changed
  <2> QED BY <1>3, <2>1, <2>2
<1>4. TypeOK'
  BY <1>1, <1>2, <1>3 DEF TypeOK, environment, Entry
<1> QED BY <1>2, <1>4 DEF FillInv

LEMMA StartStep ==
  ASSUME FillInv, NEW c \in Command, NEW w, Start(c, w), WorkOK(w), w.at # "write"
  PROVE  FillInv'
<1>1. starts \in 0..MaxStarts
  BY DEF FillInv, TypeOK
<1>2. starts' \in 0..MaxStarts
  BY <1>1, BoundAssumption DEF Start
<1>3. Become(c, w) /\ UNCHANGED <<dir, environment>>
  BY DEF Start
<1> QED BY <1>2, <1>3, QuietStep

LEMMA VersionDirectory ==
  ASSUME NEW d \in Dataset, NEW n \in Number
  PROVE  <<"version", d, n>> \in VersionDir /\ <<"version", d, n>> \in Directory
BY DEF VersionDir, Directory

LEMMA RenderOK ==
  ASSUME NEW u \in Directory, NEW m \in Model
  PROVE  Render(u, m) \in FreshRendered /\ Render(u, m).unit = u
<1>1. [Empty EXCEPT !.model = m] \in Text
  BY EmptyIsText DEF Text
<1> DEFINE t == [Empty EXCEPT !.model = m]
<1>2. t.files = {} /\ t.torn = {} /\ t.known = {}
  BY DEF Empty
<1> HIDE DEF t
<1>3. Render(u, m) = [unit |-> u, text |-> t]
  BY DEF Render, t
<1>4. t \in Text
  BY <1>1 DEF t
<1> QED BY <1>2, <1>3, <1>4 DEF FreshRendered, Rendered

LEMMA ScaffoldStep ==
  ASSUME FillInv, NEW c \in Command, NEW u \in Directory, NEW m \in Model,
         Start(c, Running("prepare", <<Render(u, m)>>, <<>>))
  PROVE  FillInv'
<1>1. <<Render(u, m)>> \in Seq(FreshRendered) /\ <<Render(u, m)>> # <<>>
  BY RenderOK
<1>2. <<>> \in Seq(FreshRendered)
  OBVIOUS
<1>3. /\ WorkOK(Running("prepare", <<Render(u, m)>>, <<>>))
      /\ Running("prepare", <<Render(u, m)>>, <<>>).at = "prepare"
  BY <1>1, <1>2, RunningOK
<1> QED BY <1>3, StartStep

LEMMA ScaffoldAllStep ==
  ASSUME FillInv, NEW c \in Command, ScaffoldAll(c)
  PROVE  FillInv'
<1> DEFINE all == {<<"version", d, 1>> : d \in Dataset}
           new == {u \in all : ~Exists(u)}
           units == {Render(u, "stream_task") : u \in new}
<1>1. new # {}
  BY DEF ScaffoldAll
<1>2. PICK todo \in SetToSeqs(units) : Start(c, Running("prepare", todo, <<>>))
  BY DEF ScaffoldAll
<1>3. new \subseteq Directory
  BY VersionDirectory DEF Number
<1>4. IsFiniteSet(units)
  <2> DEFINE S == {d \in Dataset : ~Exists(<<"version", d, 1>>)}
             f == [d \in S |-> Render(<<"version", d, 1>>, "stream_task")]
  <2>1. IsFiniteSet(S)
    BY DatasetAssumption, FS_Subset
  <2>2. f \in Surjection(S, units)
    BY DEF Surjection
  <2> QED BY <2>1, <2>2, FS_Surjection DEF ExistsSurjection
<1>5. units # {} /\ units \subseteq FreshRendered
  BY <1>1, <1>3, RenderOK, ModelAssumption
<1> HIDE DEF units
<1>6. Cardinality(units) \in Nat \ {0}
  BY <1>4, <1>5, FS_CardinalityType, FS_EmptySet
<1>7. todo \in [1..Cardinality(units) -> units]
  BY <1>2 DEF SetToSeqs
<1>8. todo \in Seq(FreshRendered) /\ Len(todo) = Cardinality(units)
  <2>1. todo \in [1..Cardinality(units) -> FreshRendered]
    BY <1>5, <1>7
  <2> QED BY <1>6, <2>1
<1>9. todo # <<>> /\ <<>> \in Seq(FreshRendered)
  BY <1>6, <1>8
<1>10. WorkOK(Running("prepare", todo, <<>>)) /\ Running("prepare", todo, <<>>).at = "prepare"
  BY <1>8, <1>9, RunningOK
<1> QED BY <1>2, <1>10, StartStep

LEMMA OperationText ==
  ASSUME NEW s, NEW k
  PROVE  [Empty EXCEPT !.suspends = s, !.known = k] =
           [files |-> {}, torn |-> {}, model |-> "stream_task", suspends |-> s, known |-> k]
<1> DEFINE none == [n \in {} |-> "stream_task"]
<1>1. Empty = [files |-> {}, torn |-> {}, model |-> "stream_task",
               suspends |-> none, known |-> {}]
  BY DEF Empty
<1> HIDE DEF none
<1> DEFINE one == [Empty EXCEPT !.suspends = s]
<1>2. one = [files |-> {}, torn |-> {}, model |-> "stream_task",
             suspends |-> s, known |-> {}]
  BY <1>1
<1>3. [Empty EXCEPT !.suspends = s, !.known = k] = [one EXCEPT !.known = k]
  OBVIOUS
<1> HIDE DEF one
<1>4. [one EXCEPT !.known = k] =
        [files |-> {}, torn |-> {}, model |-> "stream_task", suspends |-> s, known |-> k]
  BY <1>2
<1> QED BY <1>3, <1>4

\* A file is rendered from what exists, with a model for each version.
LEMMA BundleStep ==
  ASSUME FillInv, NEW c \in Command, NEW kind \in BundleKind, NEW d \in Dataset,
         NEW n \in Number, GenerateBundle(c, kind, d, n)
  PROVE  FillInv'
<1> DEFINE suspended == IF kind = "decommission" THEN ExistingVersions(d) ELSE {}
           suspends == [k \in suspended |-> ExecutionModel(<<"version", d, k>>)]
           known == {k \in Number : Made(<<"version", d, k>>)}
           text == [Empty EXCEPT !.suspends = suspends, !.known = known]
           r == [unit |-> <<kind, d, n>>, text |-> text]
<1>1. <<kind, d, n>> \in Directory /\ Start(c, Running("make", <<>>, <<r>>))
  BY DEF GenerateBundle, Directory
<1>2. ASSUME NEW k \in Number
      PROVE  ExecutionModel(<<"version", d, k>>) \in Model
  <2> DEFINE u == <<"version", d, k>>
  <2>1. dir[u].text \in Text
    BY VersionDirectory, DirType DEF FillInv
  <2> QED BY <2>1, ModelAssumption DEF ExecutionModel, Text
<1>3. suspended \in SUBSET Number
  BY DEF ExistingVersions
<1>4. suspends \in UNION {[ns -> Model] : ns \in SUBSET Number}
  <2>1. suspends \in [suspended -> Model]
    BY <1>2, <1>3
  <2> QED BY <1>3, <2>1
<1>5. kind = "decommission" => known \subseteq DOMAIN suspends
  BY DEF ExistingVersions, Exists
<1> HIDE DEF suspends, suspended
<1>6. /\ text \in Text /\ text.files = {} /\ text.torn = {}
      /\ text.known = known /\ text.suspends = suspends
  <2>1. known \in SUBSET Number
    OBVIOUS
  <2> HIDE DEF known
  <2>2. text = [files |-> {}, torn |-> {}, model |-> "stream_task",
                suspends |-> suspends, known |-> known]
    BY OperationText
  <2> QED BY <1>4, <2>1, <2>2, ModelAssumption DEF Text
<1> HIDE DEF text, known
<1>7. r \in FreshRendered
  BY <1>1, <1>5, <1>6 DEF FreshRendered, Rendered
<1> HIDE DEF r
<1>8. <<r>> \in Seq(FreshRendered) /\ <<>> \in Seq(FreshRendered) /\ <<r>> # <<>>
  BY <1>7
<1>9. WorkOK(Running("make", <<>>, <<r>>)) /\ Running("make", <<>>, <<r>>).at = "make"
  BY <1>8, RunningOK
<1> QED BY <1>1, <1>9, StartStep

-----------------------------------------------------------------------------
\* The steps that change a directory

\* A command makes a directory that is not there.
Claims(c, u, t) ==
  /\ dir[u].holder = "nobody"
  /\ dir' = [dir EXCEPT ![u] = [holder |-> c, text |-> t]]

\* A command that holds a directory goes on or gives it to the domain.
Fills(c, u, holder, some, torn) ==
  dir[u].holder = c /\ holder \in {c, "domain"} /\ Refill(u, holder, some, torn)

Refilled(e, holder, some, torn) ==
  [holder |-> holder, text |-> [e.text EXCEPT !.files = some, !.torn = torn]]

LEMMA EntryAfter ==
  ASSUME NEW e \in Entry, NEW some \in SUBSET File, NEW torn \in SUBSET File,
         NEW holder \in Command \cup {"nobody", "domain"}
  PROVE  /\ Refilled(e, holder, some, torn) \in Entry
         /\ Refilled(e, holder, some, torn).holder = holder
         /\ Refilled(e, holder, some, torn).text.files = some
         /\ Refilled(e, holder, some, torn).text.torn = torn
         /\ Refilled(e, holder, some, torn).text.model = e.text.model
         /\ Refilled(e, holder, some, torn).text.known = e.text.known
         /\ Refilled(e, holder, some, torn).text.suspends = e.text.suspends
<1>1. PICK old \in Text : e.text = old
  BY DEF Entry
<1>2. PICK t : t = [old EXCEPT !.files = some, !.torn = torn]
  OBVIOUS
<1>3. /\ t \in Text /\ t.files = some /\ t.torn = torn /\ t.model = old.model
      /\ t.suspends = old.suspends /\ t.known = old.known
  BY <1>2 DEF Text
<1>4. Refilled(e, holder, some, torn) = [holder |-> holder, text |-> t]
  BY <1>1, <1>2 DEF Refilled
<1> QED BY <1>1, <1>3, <1>4 DEF Entry

\* The first k files of a directory.
First(u, m, k) == {Files(u, m)[i] : i \in 1..k}

\* A directory is refilled with its first k files.
RefilledTo(u, m, k, holder, torn) ==
  /\ u \in Directory /\ m = dir[u].text.model
  /\ k \in 0..Len(Files(u, m))
  /\ holder \in Command \cup {"nobody", "domain"}
  /\ Refill(u, holder, First(u, m, k), torn)
  /\ torn = {} \/ (k # 0 /\ torn = {Files(u, m)[k]})
  /\ holder \in Command => k # Len(Files(u, m)) /\ torn = {}

\* The commands that write next write elsewhere, or hold this directory.
GoesOn(u, holder) ==
  /\ command' \in [Command -> Work] /\ WorkInv'
  /\ UNCHANGED <<starts, environment>>
  /\ \A e \in Command : command'[e].at = "write" =>
       \/ command'[e] = command[e] /\ dir[u].holder # e
       \/ u = Head(command'[e].ready).unit /\ holder = e

LEMMA RefillStep ==
  ASSUME FillInv, NEW u, NEW m, NEW k, NEW holder, NEW torn,
         RefilledTo(u, m, k, holder, torn), GoesOn(u, holder)
  PROVE  FillInv'
<1> USE DEF RefilledTo
<1> DEFINE some == First(u, m, k)
           entry == Refilled(dir[u], holder, some, torn)
<1>1. dir[u] \in Entry /\ m \in Model
  BY DirType, TextFields DEF FillInv
<1>2. ProperList(Files(u, m))
  BY <1>1, FilesFacts
<1>3. some \in SUBSET File /\ torn \in SUBSET File
  <2>1. \A i \in 1..k : Files(u, m)[i] \in File
    BY <1>2 DEF ProperList
  <2> QED BY <1>2, <2>1 DEF First, ProperList
<1>4. /\ entry \in Entry /\ entry.holder = holder /\ entry.text.files = some
      /\ entry.text.torn = torn /\ entry.text.model = m
  <2> HIDE DEF some
  <2> QED BY <1>1, <1>3, EntryAfter
<1>5. dir' = [dir EXCEPT ![u] = entry]
  BY DEF Refill, Refilled
<1> HIDE DEF entry
<1>6. k \in Nat /\ FilledTo(u, entry, k)
  BY <1>2, <1>4 DEF FilledTo, First, ProperList
<1> QED BY <1>4, <1>5, <1>6, ChangeStep DEF GoesOn

\* What a command that writes next has in front of it.
NextUnit(c) == Head(command[c].ready).unit
NextModel(c) == dir[NextUnit(c)].text.model
Written(c) == Cardinality(dir[NextUnit(c)].text.files)

LEMMA WritesNext ==
  ASSUME FillInv, NEW c \in Command, At(c, "write")
  PROVE  /\ NextUnit(c) \in Directory
         /\ dir[NextUnit(c)].holder = c /\ dir[NextUnit(c)].text.torn = {}
         /\ NextModel(c) \in Model
         /\ command[c].todo = <<>>
         /\ Tail(command[c].ready) \in Seq(FreshRendered)
         /\ Written(c) \in 0..Len(Files(NextUnit(c), NextModel(c)))
         /\ Written(c) # Len(Files(NextUnit(c), NextModel(c)))
         /\ dir[NextUnit(c)].text.files = First(NextUnit(c), NextModel(c), Written(c))
<1> DEFINE u == NextUnit(c)
           m == NextModel(c)
<1>1. command[c].ready \in Seq(FreshRendered) /\ command[c].ready # <<>>
      /\ command[c].todo = <<>>
  BY DEF FillInv, WorkInv, WorkOK, At
<1>2. Head(command[c].ready) \in FreshRendered /\ Tail(command[c].ready) \in Seq(FreshRendered)
  BY <1>1, HeadTailProperties
<1>3. u \in Directory
  BY <1>2 DEF FreshRendered, Rendered, NextUnit
<1>4. dir[u].holder = c
  BY DEF FillInv, TypeOK, At, NextUnit
<1>5. m \in Model
  BY <1>3, DirType, TextFields DEF FillInv, NextModel
<1>6. PICK k \in Nat : FilledTo(u, dir[u], k)
  BY <1>3 DEF FillInv, FilledInv
<1>7. /\ k \in 0..Len(Files(u, m))
      /\ k # Len(Files(u, m))
      /\ dir[u].text.files = First(u, m, k)
      /\ dir[u].text.torn = {}
  BY <1>4, <1>6 DEF FilledTo, First, NextModel
<1>8. Written(c) = k
  BY <1>3, <1>5, <1>7, PrefixCount DEF First, Written
<1> QED BY <1>1, <1>2, <1>3, <1>4, <1>5, <1>7, <1>8

\* One file more.
LEMMA OneMore ==
  ASSUME NEW u, NEW m, NEW k \in Nat
  PROVE  First(u, m, k) \cup {Files(u, m)[k + 1]} = First(u, m, k + 1)
<1>1. 1..(k + 1) = (1..k) \cup {k + 1}
  OBVIOUS
<1> QED BY <1>1 DEF First

\* A command that writes next and has nothing to do with another that changes.
LEMMA OthersWrite ==
  ASSUME FillInv, NEW c \in Command, NEW u, dir[u].holder \in {c, "nobody", "domain"},
         NEW e \in Command, e # c
  PROVE  dir[u].holder # e
BY CommandAssumption

LEMMA WriteStep ==
  ASSUME FillInv, NEW c \in Command, WriteFile(c)
  PROVE  FillInv'
<1> DEFINE u == NextUnit(c)
           m == NextModel(c)
           last == Len(Files(u, m))
           rest == Tail(command[c].ready)
           holder == IF Written(c) + 1 = last THEN "domain" ELSE c
<1>1. /\ At(c, "write") /\ UNCHANGED <<starts, environment>>
      /\ Refill(u, holder, dir[u].text.files \cup {Files(u, m)[Written(c) + 1]}, {})
      /\ IF Written(c) + 1 < last THEN UNCHANGED command
         ELSE Become(c, IF command[c].todo # <<>>
                          THEN [command[c] EXCEPT !.at = "prepare", !.ready = rest]
                        ELSE IF rest # <<>>
                          THEN [command[c] EXCEPT !.at = "make", !.ready = rest]
                        ELSE Idle)
  BY DEF WriteFile, NextUnit, NextModel, Written
<1>2. /\ u \in Directory /\ dir[u].holder = c /\ m \in Model
      /\ command[c].todo = <<>> /\ rest \in Seq(FreshRendered)
      /\ Written(c) \in 0..last /\ Written(c) # last
      /\ dir[u].text.files = First(u, m, Written(c))
  BY <1>1, WritesNext
<1>3. last \in Nat
  BY <1>2, FilesFacts DEF ProperList
<1>4. dir[u].text.files \cup {Files(u, m)[Written(c) + 1]} = First(u, m, Written(c) + 1)
  BY <1>2, <1>3, OneMore
<1>5. TypeOK /\ WorkInv
  BY DEF FillInv
<1>6. WorkOK(command[c]) /\ command[c] \in Work
  BY <1>5 DEF WorkInv, WorkOK
<1>7. m = dir[u].text.model
  BY DEF NextModel
<1>8. u = Head(command[c].ready).unit
  BY DEF NextUnit
<1> HIDE DEF u, m, rest
<1>9. CASE Written(c) + 1 < last
  <2>1. command' = command /\ holder = c
    BY <1>1, <1>2, <1>3, <1>9
  <2>2. command' \in [Command -> Work] /\ WorkInv'
    BY <1>5, <2>1 DEF TypeOK, WorkInv
  <2>3. \A e \in Command : command'[e].at = "write" =>
          \/ command'[e] = command[e] /\ dir[u].holder # e
          \/ u = Head(command'[e].ready).unit /\ c = e
    BY <1>2, <1>8, <2>1
  <2>4. Refill(u, c, First(u, m, Written(c) + 1), {})
    BY <1>1, <1>4, <2>1
  <2>5. Written(c) + 1 \in 0..last /\ Written(c) + 1 # last
    BY <1>2, <1>3, <1>9
  <2>6. RefilledTo(u, m, Written(c) + 1, c, {})
    BY <1>2, <1>7, <2>4, <2>5 DEF RefilledTo
  <2>7. GoesOn(u, c)
    BY <1>1, <2>2, <2>3 DEF GoesOn
  <2> QED BY <2>6, <2>7, RefillStep
<1>10. CASE Written(c) + 1 = last
  <2> DEFINE w == IF rest # <<>> THEN [command[c] EXCEPT !.at = "make", !.ready = rest] ELSE Idle
  <2>1. Become(c, w) /\ holder = "domain"
    BY <1>1, <1>2, <1>3, <1>10
  <2>2. WorkOK(w) /\ w.at # "write"
    <3>1. CASE rest # <<>>
      <4>1. rest \in Seq(Rendered)
        BY <1>2, FreshIsRendered, SeqMonotonic
      <4>2. w = [command[c] EXCEPT !.at = "make", !.ready = rest]
        BY <3>1
      <4> HIDE DEF w
      <4>3. w \in Work /\ w.at = "make" /\ w.ready = rest /\ w.todo = command[c].todo
        BY <1>6, <4>1, <4>2 DEF Work
      <4> QED BY <1>2, <1>6, <3>1, <4>3 DEF WorkOK
    <3>2. CASE rest = <<>>
      BY <3>2, IdleOK
    <3> QED BY <3>1, <3>2
  <2> HIDE DEF w
  <2>3. /\ command' \in [Command -> Work] /\ WorkInv'
        /\ command'[c] = w
        /\ \A e \in Command : e # c => command'[e] = command[e]
    BY <1>5, <2>1, <2>2, BecomeOK
  <2>4. \A e \in Command : command'[e].at = "write" =>
          command'[e] = command[e] /\ dir[u].holder # e
    BY <1>2, <2>2, <2>3
  <2>5. Refill(u, "domain", First(u, m, Written(c) + 1), {})
    BY <1>1, <1>4, <2>1
  <2>6. Written(c) + 1 \in 0..last
    BY <1>2, <1>3, <1>10
  <2>7. "domain" \notin Command
    BY CommandAssumption
  <2>8. RefilledTo(u, m, Written(c) + 1, "domain", {})
    BY <1>2, <1>7, <2>5, <2>6, <2>7 DEF RefilledTo
  <2>9. GoesOn(u, "domain")
    BY <1>1, <2>3, <2>4 DEF GoesOn
  <2> QED BY <2>8, <2>9, RefillStep
<1> QED BY <1>2, <1>3, <1>9, <1>10

LEMMA DieStep ==
  ASSUME FillInv, NEW c \in Command, Die(c)
  PROVE  FillInv'
<1> DEFINE u == NextUnit(c)
           m == NextModel(c)
           next == Files(u, m)[Written(c) + 1]
<1>1. /\ At(c, "write") /\ UNCHANGED <<starts, environment>> /\ Become(c, Idle)
      /\ \E lost \in {{}, {next}} : Refill(u, "domain", dir[u].text.files \cup lost, lost)
  BY DEF Die, NextUnit, NextModel, Written
<1>2. PICK lost \in {{}, {next}} : Refill(u, "domain", dir[u].text.files \cup lost, lost)
  BY <1>1
<1>3. /\ u \in Directory /\ dir[u].holder = c /\ m \in Model
      /\ Written(c) \in 0..Len(Files(u, m)) /\ Written(c) # Len(Files(u, m))
      /\ dir[u].text.files = First(u, m, Written(c))
  BY <1>1, WritesNext
<1>4. Len(Files(u, m)) \in Nat
  BY <1>3, FilesFacts DEF ProperList
<1>5. m = dir[u].text.model /\ "domain" \notin Command
  BY CommandAssumption DEF NextModel
<1>6. \E k \in Nat : RefilledTo(u, m, k, "domain", lost)
  <2> HIDE DEF u, m
  <2>1. CASE lost = {}
    <3>1. Refill(u, "domain", First(u, m, Written(c)), {})
      BY <1>2, <1>3, <2>1
    <3>2. RefilledTo(u, m, Written(c), "domain", {})
      BY <1>3, <1>5, <3>1 DEF RefilledTo
    <3> QED BY <1>3, <2>1, <3>2
  <2>2. CASE lost = {next}
    <3>1. dir[u].text.files \cup lost = First(u, m, Written(c) + 1)
      BY <1>3, <1>4, <2>2, OneMore
    <3>2. Refill(u, "domain", First(u, m, Written(c) + 1), lost)
      BY <1>2, <3>1
    <3>3. /\ Written(c) + 1 \in 0..Len(Files(u, m)) /\ Written(c) + 1 # 0
          /\ lost = {Files(u, m)[Written(c) + 1]}
      BY <1>3, <1>4, <2>2
    <3>4. RefilledTo(u, m, Written(c) + 1, "domain", lost)
      BY <1>3, <1>5, <3>2, <3>3 DEF RefilledTo
    <3> QED BY <1>3, <1>4, <3>4
  <2> QED BY <2>1, <2>2
<1>7. /\ command' \in [Command -> Work] /\ WorkInv' /\ command'[c] = Idle
      /\ \A e \in Command : e # c => command'[e] = command[e]
  BY <1>1, BecomeOK, IdleOK DEF FillInv
<1>8. GoesOn(u, "domain")
  BY <1>1, <1>3, <1>7, IdleOK DEF GoesOn
<1> QED BY <1>6, <1>8, RefillStep

\* Steps in which no command does anything.
LEMMA NoCommand ==
  ASSUME FillInv, NEW u, NEW holder, UNCHANGED <<command, starts, environment>>,
         dir[u].holder \notin Command
  PROVE  GoesOn(u, holder)
BY DEF FillInv, TypeOK, WorkInv, GoesOn

LEMMA CompleteStep ==
  ASSUME FillInv, NEW u \in Directory, Complete(u)
  PROVE  FillInv'
<1> DEFINE m == dir[u].text.model
<1>1. m \in Model
  BY DirType, TextFields DEF FillInv
<1>2. Files(u, m) \in Seq(File) /\ Len(Files(u, m)) \in Nat
  BY <1>1, FilesFacts DEF ProperList
<1>3. Range(Files(u, m)) = First(u, m, Len(Files(u, m)))
  <2>1. DOMAIN Files(u, m) = 1..Len(Files(u, m))
    BY <1>2
  <2> QED BY <2>1 DEF Range, First
<1>4. RefilledTo(u, m, Len(Files(u, m)), "domain", {})
  BY <1>2, <1>3, CommandAssumption DEF RefilledTo, Complete
<1>5. GoesOn(u, "domain")
  BY NoCommand, CommandAssumption DEF Complete
<1> QED BY <1>4, <1>5, RefillStep

LEMMA DiscardStep ==
  ASSUME FillInv, NEW u \in Directory, Discard(u)
  PROVE  FillInv'
<1>1. GoesOn(u, "nobody")
  BY NoCommand, CommandAssumption DEF Discard
<1>2. FilledTo(u, Absent, 0) /\ Absent \in Entry /\ Absent.holder = "nobody"
  BY EmptyFilled, AbsentIsEmpty, EmptyIsText
<1>3. dir' = [dir EXCEPT ![u] = Absent]
  BY DEF Discard
<1>4. /\ command' \in [Command -> Work] /\ WorkInv' /\ UNCHANGED <<starts, environment>>
      /\ \A e \in Command : command'[e].at = "write" =>
           \/ command'[e] = command[e] /\ dir[u].holder # e
           \/ u = Head(command'[e].ready).unit /\ Absent.holder = e
  BY <1>1, <1>2 DEF GoesOn
<1>5. 0 \in Nat
  OBVIOUS
<1> HIDE DEF Absent
<1> QED BY <1>2, <1>3, <1>4, <1>5, ChangeStep

\* What a command that prepares or makes next has in front of it.
LEMMA PreparesNext ==
  ASSUME FillInv, NEW c \in Command, At(c, "prepare")
  PROVE  /\ Head(command[c].todo) \in FreshRendered
         /\ Tail(command[c].todo) \in Seq(FreshRendered)
         /\ Len(Tail(command[c].todo)) = Len(command[c].todo) - 1
         /\ Len(command[c].todo) \in Nat \ {0}
         /\ command[c].made = {}
<1>1. command[c].todo \in Seq(FreshRendered) /\ command[c].todo # <<>> /\ command[c].made = {}
  BY DEF FillInv, WorkInv, WorkOK, At
<1> QED BY <1>1, HeadTailProperties

LEMMA PrepareStep ==
  ASSUME FillInv, NEW c \in Command, Prepare(c)
  PROVE  FillInv'
<1> DEFINE todo == Tail(command[c].todo)
           ready == Append(command[c].ready, Head(command[c].todo))
           at == IF AllPrepared(c) THEN "make" ELSE "prepare"
           w == [command[c] EXCEPT !.at = at, !.todo = todo, !.ready = ready]
<1>1. At(c, "prepare") /\ Become(c, w) /\ UNCHANGED <<dir, starts, environment>>
  BY DEF Prepare
<1>2. WorkOK(command[c]) /\ starts \in 0..MaxStarts
  BY DEF FillInv, WorkInv, TypeOK
<1>3. /\ Head(command[c].todo) \in FreshRendered /\ todo \in Seq(FreshRendered)
      /\ Len(todo) = Len(command[c].todo) - 1 /\ Len(command[c].todo) \in Nat \ {0}
      /\ command[c].made = {}
  BY <1>1, PreparesNext
<1>4. ready \in Seq(FreshRendered) /\ ready # <<>>
  BY <1>2, <1>3, AppendProperties DEF WorkOK
<1>5. todo \in Seq(Rendered) /\ ready \in Seq(Rendered)
  BY <1>3, <1>4, FreshIsRendered, SeqMonotonic
<1>6. /\ at = "make" => todo = <<>>
      /\ at = "prepare" => todo # <<>>
  <2>1. at = "make" => Len(todo) = 0
    BY <1>3 DEF AllPrepared
  <2>2. at = "prepare" => Len(todo) # 0
    BY <1>3 DEF AllPrepared
  <2>3. todo = <<>> <=> Len(todo) = 0
    BY <1>3, EmptySeq
  <2> HIDE DEF todo, at
  <2> QED BY <2>1, <2>2, <2>3
<1>7. at \in {"make", "prepare"}
  OBVIOUS
<1> HIDE DEF todo, ready, at
<1>8. /\ w \in Work /\ w.at = at /\ w.todo = todo /\ w.ready = ready /\ w.made = {}
  BY <1>2, <1>3, <1>5, <1>7 DEF WorkOK, Work
<1> HIDE DEF w
<1>9. WorkOK(w) /\ w.at # "write"
  BY <1>3, <1>4, <1>6, <1>7, <1>8 DEF WorkOK
<1> QED BY <1>1, <1>2, <1>9, QuietStep

LEMMA RefuseStep ==
  ASSUME FillInv, NEW c \in Command, Refuse(c)
  PROVE  FillInv'
<1> DEFINE w == [command[c] EXCEPT !.at = "refused", !.todo = <<>>, !.ready = <<>>]
<1>1. At(c, "prepare") /\ Become(c, w) /\ UNCHANGED <<dir, starts, environment>>
  BY DEF Refuse
<1>2. WorkOK(command[c]) /\ starts \in 0..MaxStarts
  BY DEF FillInv, WorkInv, TypeOK
<1>3. command[c].made = {}
  BY <1>1, PreparesNext
<1>4. <<>> \in Seq(Rendered) /\ <<>> \in Seq(FreshRendered)
  OBVIOUS
<1>5. /\ w \in Work /\ w.at = "refused" /\ w.todo = <<>> /\ w.ready = <<>> /\ w.made = {}
  BY <1>2, <1>3, <1>4 DEF WorkOK, Work
<1> HIDE DEF w
<1>6. WorkOK(w) /\ w.at # "write"
  BY <1>4, <1>5 DEF WorkOK
<1> QED BY <1>1, <1>2, <1>6, QuietStep

LEMMA InterruptStep ==
  ASSUME FillInv, NEW c \in Command, Interrupt(c)
  PROVE  FillInv'
<1>1. Become(c, Idle) /\ UNCHANGED <<dir, starts, environment>> /\ starts \in 0..MaxStarts
  BY DEF Interrupt, FillInv, TypeOK
<1> QED BY <1>1, IdleOK, QuietStep

\* A command that makes its next directory makes one that nobody has made.
LEMMA MakesNext ==
  ASSUME FillInv, NEW c \in Command, MakeDirectory(c)
  PROVE  /\ Head(command[c].ready) \in FreshRendered
         /\ NextUnit(c) \in Directory
         /\ \/ UNCHANGED dir /\ Become(c, Idle)
            \/ /\ Claims(c, NextUnit(c), Head(command[c].ready).text)
               /\ Become(c, [command[c] EXCEPT !.at = "write", !.made = @ \cup {NextUnit(c)}])
<1>1. command[c].ready \in Seq(FreshRendered) /\ command[c].ready # <<>>
  BY DEF FillInv, WorkInv, WorkOK, At, MakeDirectory
<1>2. Head(command[c].ready) \in FreshRendered
  BY <1>1, HeadTailProperties
<1>3. NextUnit(c) \in Directory
  BY <1>2 DEF FreshRendered, Rendered, NextUnit
<1>4. CanMake(NextUnit(c)) => dir[NextUnit(c)].holder = "nobody"
  BY DEF CanMake, Exists, Made
<1> QED BY <1>2, <1>3, <1>4 DEF MakeDirectory, NextUnit, Claims

LEMMA MakeStep ==
  ASSUME FillInv, NEW c \in Command, MakeDirectory(c)
  PROVE  FillInv'
<1> DEFINE u == NextUnit(c)
           next == Head(command[c].ready)
           w == [command[c] EXCEPT !.at = "write", !.made = @ \cup {u}]
           entry == [holder |-> c, text |-> next.text]
<1>1. next \in FreshRendered /\ u \in Directory
  BY MakesNext
<1>2. UNCHANGED <<starts, environment>> /\ starts \in 0..MaxStarts
  BY DEF MakeDirectory, FillInv, TypeOK
<1>3. CASE UNCHANGED dir /\ Become(c, Idle)
  BY <1>2, <1>3, IdleOK, QuietStep
<1>4. CASE Claims(c, u, next.text) /\ Become(c, w)
  <2>1. WorkOK(command[c]) /\ At(c, "make")
    BY DEF FillInv, WorkInv, MakeDirectory
  <2>2. /\ w \in Work /\ w.at = "write" /\ w.todo = command[c].todo
        /\ w.ready = command[c].ready
    BY <1>1, <2>1 DEF WorkOK, Work
  <2> HIDE DEF w
  <2>3. WorkOK(w)
    BY <2>1, <2>2 DEF WorkOK, At
  <2>4. /\ command' \in [Command -> Work] /\ WorkInv' /\ command'[c] = w
        /\ \A e \in Command : e # c => command'[e] = command[e]
    BY <1>4, <2>3, BecomeOK DEF FillInv
  <2>5. /\ entry \in Entry /\ entry.holder = c /\ entry.text.model \in Model
        /\ entry.text.files = {} /\ entry.text.torn = {}
    <3>1. next.text \in Text /\ next.text.files = {} /\ next.text.torn = {}
      BY <1>1 DEF FreshRendered, Rendered
    <3>2. next.text.model \in Model
      BY <3>1, TextFields
    <3> HIDE DEF next
    <3> QED BY <3>1, <3>2 DEF Entry
  <2>6. dir[u].holder = "nobody" /\ dir' = [dir EXCEPT ![u] = entry]
    BY <1>4 DEF Claims
  <2> HIDE DEF entry
  <2>7. FilledTo(u, entry, 0)
    BY <1>1, <2>5, EmptyFilled
  <2>8. u = Head(w.ready).unit
    BY <2>2 DEF NextUnit
  <2> HIDE DEF u
  <2>9. \A e \in Command : command'[e].at = "write" =>
          \/ command'[e] = command[e] /\ dir[u].holder # e
          \/ u = Head(command'[e].ready).unit /\ entry.holder = e
    BY <2>4, <2>5, <2>6, <2>8, CommandAssumption
  <2>10. 0 \in Nat
    OBVIOUS
  <2> QED BY <1>1, <1>2, <2>4, <2>5, <2>6, <2>7, <2>9, <2>10, ChangeStep
<1> QED BY <1>3, <1>4, MakesNext

\* What happens in the environment changes no directory.
LEMMA EnvironmentStep ==
  ASSUME FillInv, UNCHANGED <<dir, command, starts>>,
         runtime' \in [Dataset \X Number -> {"none", "running", "stopped"}],
         decommissioned' \subseteq Dataset
  PROVE  FillInv'
BY DEF FillInv, TypeOK, WorkInv, FilledInv

LEMMA DeployStep ==
  ASSUME FillInv, NEW d \in Dataset, NEW n \in Number, Deploy(d, n)
  PROVE  FillInv'
<1>1. runtime' \in [Dataset \X Number -> {"none", "running", "stopped"}]
  BY DEF FillInv, TypeOK, Deploy
<1> QED BY <1>1, EnvironmentStep DEF FillInv, TypeOK, Deploy

LEMMA DecommissionStep ==
  ASSUME FillInv, NEW d \in Dataset, RunDecommission(d)
  PROVE  FillInv'
<1>1. runtime' \in [Dataset \X Number -> {"none", "running", "stopped"}]
  BY DEF FillInv, TypeOK, RunDecommission
<1>2. decommissioned' \subseteq Dataset /\ UNCHANGED <<dir, command, starts>>
  BY DEF FillInv, TypeOK, RunDecommission
<1> QED BY <1>1, <1>2, EnvironmentStep

LEMMA FillNext == FillInv /\ [Next]_vars => FillInv'
<1> SUFFICES ASSUME FillInv, [Next]_vars PROVE FillInv'
  OBVIOUS
<1>1. ASSUME NEW c \in Command, RunCommand(c)
      PROVE  FillInv'
  <2>1. ASSUME NEW d \in Dataset, NEW m \in Model, Scaffold(c, d, m)
        PROVE  FillInv'
    BY <2>1, VersionDirectory, ScaffoldStep DEF Scaffold, Number
  <2>2. ASSUME NEW d \in Dataset, NEW n \in Candidate, NEW m \in Model,
               ScaffoldVersion(c, d, n, m)
        PROVE  FillInv'
    BY <2>2, VersionDirectory, ScaffoldStep DEF ScaffoldVersion, Number
  <2>3. ASSUME NEW kind \in BundleKind, NEW d \in Dataset, NEW n \in Number,
               GenerateBundle(c, kind, d, n)
        PROVE  FillInv'
    BY <2>3, BundleStep
  <2> QED BY <1>1, <2>1, <2>2, <2>3, ScaffoldAllStep, PrepareStep, RefuseStep, MakeStep,
             WriteStep, DieStep, InterruptStep DEF RunCommand
<1>2. ASSUME Engineer
      PROVE  FillInv'
  BY <1>2, DecommissionStep, CompleteStep, DiscardStep, DeployStep DEF Engineer
<1>3. CASE UNCHANGED vars
  BY <1>3 DEF vars, FillInv, TypeOK, WorkInv, FilledInv
<1> QED BY <1>1, <1>2, <1>3 DEF Next

\* The inductive invariant: types, what each command still has to do, and how
\* far each directory is filled.
THEOREM FillInvariant == Spec => []FillInv
<1>1. Init => FillInv
  BY FillInit
<1>2. FillInv /\ [Next]_vars => FillInv'
  BY FillNext
<1> QED BY <1>1, <1>2, PTL DEF Spec

\* Type correctness of the generator model (TypeOK): in particular a command
\* that writes holds the directory it writes into.
THEOREM GeneratedTypeCorrect == Spec => []TypeOK
<1>1. FillInv => TypeOK
  BY DEF FillInv
<1> QED BY <1>1, FillInvariant, PTL

\* For any datasets and commands, a command that refuses has made nothing
\* (RefusedWritesNothing): all is prepared before the first directory is made.
THEOREM RefusalWritesNothing == Spec => []RefusedWritesNothing
<1>1. FillInv => RefusedWritesNothing
  BY DEF FillInv, WorkInv, WorkOK, RefusedWritesNothing, At
<1> QED BY <1>1, FillInvariant, PTL

\* For any datasets and commands, the reports find whatever a dead command has
\* left in the directory of a first version (LeftoverDetected).
THEOREM LeftoversAreDetected == Spec => []LeftoverDetected
<1>1. FillInv => LeftoverDetected
  <2> SUFFICES ASSUME FillInv, NEW d \in Dataset, Made(<<"version", d, 1>>),
                      MissingStandardFiles(d) = {}, ValidYaml(d)
               PROVE  Whole(<<"version", d, 1>>)
    BY DEF LeftoverDetected
  <2> DEFINE u == <<"version", d, 1>>
             m == dir[u].text.model
             order == Files(u, m)
  <2>1. u \in Directory /\ u \in VersionDir /\ u[3] = 1 /\ 1 \in Number
    BY VersionDirectory DEF Number
  <2>2. m \in Model
    BY <2>1, DirType, TextFields DEF FillInv
  <2>3. dir[u].text.torn \cap {"version", "pipeline"} = {}
    BY <2>1 DEF ValidYaml
  <2>4. ExecutionModel(u) \in Model
    BY <2>2, ModelAssumption DEF ExecutionModel
  <2>5. Range(Files(u, ExecutionModel(u))) \subseteq dir[u].text.files
    BY DEF MissingStandardFiles
  <2>6. ASSUME NEW n \in Model
        PROVE  /\ ProperList(Files(u, n)) /\ Files(u, n)[1] = "version"
               /\ Files(u, n)[Len(Files(u, n))] = "pipeline"
               /\ Range(Files(u, n)) = First(u, n, Len(Files(u, n)))
    <3>1. /\ ProperList(Files(u, n)) /\ Files(u, n)[1] = "version"
          /\ Files(u, n)[Len(Files(u, n))] = "pipeline"
      BY <2>1, FilesFacts
    <3>2. DOMAIN Files(u, n) = 1..Len(Files(u, n))
      BY <3>1 DEF ProperList
    <3> QED BY <3>1, <3>2 DEF Range, First
  <2> HIDE DEF u
  <2>7. "version" \in dir[u].text.files
    <3>1. "version" \in First(u, ExecutionModel(u), Len(Files(u, ExecutionModel(u))))
      BY <2>4, <2>6 DEF First, ProperList
    <3> QED BY <2>4, <2>5, <2>6, <3>1
  <2>8. ExecutionModel(u) = m
    BY <2>3, <2>7 DEF ExecutionModel, Has, Made, u
  <2>9. PICK k \in Nat : FilledTo(u, dir[u], k)
    BY <2>1 DEF FillInv, FilledInv
  <2>10. k \in 0..Len(order) /\ dir[u].text.files = First(u, m, k)
    BY <2>9 DEF FilledTo, First
  <2>11. k = Len(order)
    <3>1. order[Len(order)] \in First(u, m, k)
      <4>1. First(u, m, Len(order)) \subseteq dir[u].text.files
        BY <2>2, <2>5, <2>6, <2>8
      <4>2. order[Len(order)] \in First(u, m, Len(order))
        BY <2>2, <2>6 DEF First, ProperList
      <4> QED BY <2>10, <4>1, <4>2
    <3>2. PICK i \in 1..k : order[i] = order[Len(order)]
      BY <3>1 DEF First
    <3>3. i = Len(order)
      BY <2>2, <2>6, <2>10, <3>2 DEF ProperList
    <3> QED BY <2>10, <3>3
  <2>12. dir[u].text.torn = {}
    BY <2>2, <2>3, <2>6, <2>9, <2>11 DEF FilledTo
  <2>13. dir[u].text.files = Range(order)
    BY <2>2, <2>6, <2>10, <2>11
  <2> QED BY <2>12, <2>13 DEF Whole, u
<1> QED BY <1>1, FillInvariant, PTL

-----------------------------------------------------------------------------
\* Generated once, domain-owned: the abstract specification

\* A function that changes in one place.
LEMMA ChangedAt ==
  ASSUME NEW S, NEW u \in S, NEW f, NEW g,
         f = [v \in S |-> f[v]], g = [v \in S |-> g[v]],
         \A v \in S : v # u => g[v] = f[v]
  PROVE  g = [f EXCEPT ![u] = g[u]]
OBVIOUS

\* What a step does to the holders and to the files.
LEMMA SeenAfter ==
  ASSUME TypeOK, NEW u \in Directory, NEW entry, dir' = [dir EXCEPT ![u] = entry]
  PROVE  /\ [v \in Directory |-> dir[v].holder]' =
              [[v \in Directory |-> dir[v].holder] EXCEPT ![u] = entry.holder]
         /\ [v \in Directory |-> dir[v].text]' =
              [[v \in Directory |-> dir[v].text] EXCEPT ![u] = entry.text]
<1>1. dir'[u] = entry /\ \A v \in Directory : v # u => dir'[v] = dir[v]
  BY DEF TypeOK
<1>2. PICK hs, ts, newhs, newts :
        /\ hs = [v \in Directory |-> dir[v].holder]
        /\ ts = [v \in Directory |-> dir[v].text]
        /\ newhs = [v \in Directory |-> dir'[v].holder]
        /\ newts = [v \in Directory |-> dir'[v].text]
  OBVIOUS
<1>3. /\ newhs[u] = entry.holder /\ \A v \in Directory : v # u => newhs[v] = hs[v]
      /\ newts[u] = entry.text /\ \A v \in Directory : v # u => newts[v] = ts[v]
  BY <1>1, <1>2
<1>4. /\ hs = [v \in Directory |-> hs[v]] /\ newhs = [v \in Directory |-> newhs[v]]
      /\ ts = [v \in Directory |-> ts[v]] /\ newts = [v \in Directory |-> newts[v]]
  BY <1>2
<1>5. newhs = [hs EXCEPT ![u] = newhs[u]] /\ newts = [ts EXCEPT ![u] = newts[u]]
  BY <1>3, <1>4, ChangedAt
<1> QED BY <1>2, <1>3, <1>5

\* A step that changes one directory: it claims it, fills it, edits it or
\* deletes it.
LEMMA OwnershipOfChange ==
  ASSUME TypeOK, NEW u \in Directory, NEW entry, dir' = [dir EXCEPT ![u] = entry],
         \/ \E c \in Command : dir[u].holder = "nobody" /\ entry.holder = c
         \/ \E c \in Command : dir[u].holder = c /\ entry.holder \in {c, "domain"}
         \/ dir[u].holder = "domain" /\ entry.holder = "domain"
         \/ dir[u].holder = "domain" /\ entry = Absent
  PROVE  Ownership!OwnershipNext
<1> DEFINE holders == [v \in Directory |-> dir[v].holder]
           texts == [v \in Directory |-> dir[v].text]
<1>1. /\ holders' = [holders EXCEPT ![u] = entry.holder]
      /\ texts' = [texts EXCEPT ![u] = entry.text]
  BY SeenAfter
<1>2. holders[u] = dir[u].holder /\ DOMAIN holders = Directory /\ DOMAIN texts = Directory
      /\ holders = [v \in Directory |-> holders[v]]
  OBVIOUS
<1>3. texts' = [texts EXCEPT ![u] = texts'[u]]
  <2>1. texts'[u] = entry.text
    <3> HIDE DEF texts
    <3> QED BY <1>1, <1>2
  <2> HIDE DEF texts
  <2> QED BY <1>1, <2>1
<1> SUFFICES \/ \E c \in Command : Ownership!Claim(c, u) \/ Ownership!Fill(c, u)
             \/ Ownership!Edit(u) \/ Ownership!Delete(u)
  BY DEF Ownership!OwnershipNext
<1>4. Ownership!WriteIn(u)
  BY <1>3 DEF Ownership!WriteIn
<1>5. CASE \E c \in Command : dir[u].holder = "nobody" /\ entry.holder = c
  <2>1. PICK c \in Command : dir[u].holder = "nobody" /\ entry.holder = c
    BY <1>5
  <2>2. Ownership!Claim(c, u)
    BY <1>1, <1>2, <1>4, <2>1 DEF Ownership!Claim
  <2> QED BY <2>2
<1>6. CASE \E c \in Command : dir[u].holder = c /\ entry.holder \in {c, "domain"}
  <2>1. PICK c \in Command : dir[u].holder = c /\ entry.holder \in {c, "domain"}
    BY <1>6
  <2>2. holders' = holders \/ holders' = [holders EXCEPT ![u] = "domain"]
    <3> HIDE DEF holders
    <3> QED BY <1>1, <1>2, <2>1
  <2>3. Ownership!Fill(c, u)
    BY <1>2, <1>4, <2>1, <2>2 DEF Ownership!Fill
  <2> QED BY <2>3
<1>7. CASE dir[u].holder = "domain" /\ entry.holder = "domain"
  <2>1. holders' = holders
    <3> HIDE DEF holders
    <3> QED BY <1>1, <1>2, <1>7
  <2>2. Ownership!Edit(u)
    BY <1>2, <1>4, <1>7, <2>1 DEF Ownership!Edit
  <2> QED BY <2>2
<1>8. CASE dir[u].holder = "domain" /\ entry = Absent
  <2>1. entry.holder = "nobody" /\ entry.text = Empty
    BY <1>8, AbsentIsEmpty
  <2>2. Ownership!Delete(u)
    BY <1>1, <1>2, <1>8, <2>1 DEF Ownership!Delete
  <2> QED BY <2>2
<1> QED BY <1>5, <1>6, <1>7, <1>8

\* Refilling a directory leaves a record whose holder is the one given.
LEMMA RefillOwned ==
  ASSUME TypeOK, NEW u \in Directory, NEW holder, NEW some, NEW torn,
         Refill(u, holder, some, torn),
         \/ \E c \in Command : dir[u].holder = c /\ holder \in {c, "domain"}
         \/ dir[u].holder = "domain" /\ holder = "domain"
  PROVE  Ownership!OwnershipNext
<1> DEFINE entry == Refilled(dir[u], holder, some, torn)
<1>1. dir' = [dir EXCEPT ![u] = entry] /\ entry.holder = holder
  BY DEF Refill, Refilled
<1> HIDE DEF entry
<1> QED BY <1>1, OwnershipOfChange

LEMMA OwnershipStep ==
  FillInv /\ [Next]_vars => [Ownership!OwnershipNext]_(Ownership!ownershipVars)
<1> SUFFICES ASSUME FillInv, [Next]_vars
             PROVE  [Ownership!OwnershipNext]_(Ownership!ownershipVars)
  OBVIOUS
<1>1. TypeOK
  BY DEF FillInv
<1>2. CASE UNCHANGED dir
  <2>1. UNCHANGED [u \in Directory |-> dir[u].holder]
    BY <1>2
  <2>2. UNCHANGED [u \in Directory |-> dir[u].text]
    BY <1>2
  <2> QED BY <2>1, <2>2 DEF Ownership!ownershipVars
<1>3. ASSUME NEW c \in Command, RunCommand(c)
      PROVE  UNCHANGED dir \/ Ownership!OwnershipNext
  <2>1. CASE MakeDirectory(c)
    <3> DEFINE u == NextUnit(c)
               entry == [holder |-> c, text |-> Head(command[c].ready).text]
    <3>1. u \in Directory /\ (UNCHANGED dir \/ (dir[u].holder = "nobody" /\ dir' = [dir EXCEPT ![u] = entry]))
      BY <2>1, MakesNext DEF Claims
    <3>2. entry.holder = c
      OBVIOUS
    <3> HIDE DEF entry, u
    <3> QED BY <1>1, <3>1, <3>2, OwnershipOfChange
  <2>2. CASE WriteFile(c)
    <3> DEFINE u == NextUnit(c)
               holder == IF Written(c) + 1 = Len(Files(u, NextModel(c))) THEN "domain" ELSE c
               some == dir[u].text.files \cup {Files(u, NextModel(c))[Written(c) + 1]}
    <3>1. At(c, "write") /\ Refill(u, holder, some, {})
      BY <2>2 DEF WriteFile, NextUnit, NextModel, Written
    <3>2. u \in Directory /\ dir[u].holder = c
      BY <3>1, WritesNext
    <3>3. holder \in {c, "domain"}
      OBVIOUS
    <3> HIDE DEF u, holder, some
    <3> QED BY <1>1, <3>1, <3>2, <3>3, RefillOwned
  <2>3. CASE Die(c)
    <3> DEFINE u == NextUnit(c)
    <3>1. At(c, "write")
      BY <2>3 DEF Die
    <3>2. PICK some, torn : Refill(u, "domain", some, torn)
      BY <2>3 DEF Die, NextUnit
    <3>3. u \in Directory /\ dir[u].holder = c
      BY <3>1, WritesNext
    <3> QED BY <1>1, <3>2, <3>3, RefillOwned
  <2>4. ASSUME NEW kind \in BundleKind, NEW d \in Dataset, NEW n \in Number,
               GenerateBundle(c, kind, d, n)
        PROVE  UNCHANGED dir
    BY <2>4 DEF GenerateBundle, Start
  <2> QED BY <1>3, <2>1, <2>2, <2>3, <2>4
          DEF RunCommand, Scaffold, ScaffoldAll, ScaffoldVersion, Start, Prepare, Refuse, Interrupt
<1>4. ASSUME NEW u \in Directory, Complete(u)
      PROVE  Ownership!OwnershipNext
  BY <1>1, <1>4, RefillOwned DEF Complete
<1>5. ASSUME NEW u \in Directory, Discard(u)
      PROVE  Ownership!OwnershipNext
  BY <1>1, <1>5, OwnershipOfChange DEF Discard
<1>6. [Next]_vars => \/ UNCHANGED dir
                     \/ \E c \in Command : RunCommand(c)
                     \/ \E u \in Directory : Complete(u) \/ Discard(u)
  BY DEF Next, Engineer, Deploy, RunDecommission, vars
<1> QED BY <1>2, <1>3, <1>4, <1>5, <1>6

\* For any datasets, versions and commands, however they interleave and die, no
\* directory is written by two commands or touched by one once it is the
\* domain's (GeneratedOnceDomainOwned).
THEOREM OwnershipImplemented == Spec => GeneratedOnceDomainOwned
<1>1. Init => Ownership!OwnershipInit
  <2> SUFFICES ASSUME Init PROVE Ownership!OwnershipInit
    OBVIOUS
  <2>1. \A u \in Directory : dir[u].holder = "nobody" /\ dir[u].text = Empty
    BY AbsentIsEmpty DEF Init
  <2> QED BY <2>1 DEF Ownership!OwnershipInit
<1> QED BY <1>1, OwnershipStep, FillInvariant, PTL
        DEF Spec, GeneratedOnceDomainOwned, Ownership!OwnershipSpec

-----------------------------------------------------------------------------
\* A decommission stops what existed when its file was rendered

DecommissionDir(d) == <<"decommission", d, 1>>

\* A decommission file says of every version that existed what to do with it.
KnownInv ==
  \A u \in Directory : u[1] = "decommission" =>
    dir[u].text.known \subseteq DOMAIN dir[u].text.suspends

\* The file that withdrew a dataset is whole and the domain's, and what it knew
\* is not running.
StoppedInv ==
  \A d \in decommissioned :
    /\ DecommissionDir(d) \in Directory
    /\ Whole(DecommissionDir(d)) /\ dir[DecommissionDir(d)].holder = "domain"
    /\ \A n \in dir[DecommissionDir(d)].text.known :
         \/ runtime[<<d, n>>] # "running"
         \/ NoScheduler(dir[DecommissionDir(d)].text, n)

StopInv == FillInv /\ KnownInv /\ StoppedInv

\* What a step may do to one directory: claim it with a new rendering, refill
\* it, or, if the domain holds it and it is not whole, delete it.
Touches(u) ==
  \/ \E c \in Command : \E r \in FreshRendered :
       u = r.unit /\ Claims(c, u, r.text)
  \/ \E holder, some, torn :
       /\ Refill(u, holder, some, torn)
       /\ dir[u].holder # "domain" \/ ~Whole(u)
  \/ ~Whole(u) /\ dir' = [dir EXCEPT ![u] = Absent]

LEMMA StepTouches ==
  ASSUME FillInv, [Next]_vars
  PROVE  \/ UNCHANGED dir
         \/ (\E u \in Directory : Touches(u)) /\ UNCHANGED environment
<1>1. ASSUME NEW c \in Command, RunCommand(c)
      PROVE  \/ UNCHANGED dir
             \/ (\E u \in Directory : Touches(u)) /\ UNCHANGED environment
  <2>1. CASE MakeDirectory(c)
    <3>1. /\ Head(command[c].ready) \in FreshRendered /\ NextUnit(c) \in Directory
          /\ UNCHANGED dir \/ Claims(c, NextUnit(c), Head(command[c].ready).text)
      BY <2>1, MakesNext
    <3>2. UNCHANGED environment /\ NextUnit(c) = Head(command[c].ready).unit
      BY <2>1 DEF MakeDirectory, NextUnit
    <3> QED BY <3>1, <3>2 DEF Touches
  <2>2. CASE WriteFile(c) \/ Die(c)
    <3>1. At(c, "write") /\ UNCHANGED environment
      BY <2>2 DEF WriteFile, Die
    <3>2. \E holder, some, torn : Refill(NextUnit(c), holder, some, torn)
      BY <2>2 DEF WriteFile, Die, NextUnit
    <3>3. NextUnit(c) \in Directory /\ dir[NextUnit(c)].holder # "domain"
      BY <3>1, WritesNext, CommandAssumption
    <3> QED BY <3>1, <3>2, <3>3 DEF Touches
  <2>3. ASSUME NEW kind \in BundleKind, NEW d \in Dataset, NEW n \in Number,
               GenerateBundle(c, kind, d, n)
        PROVE  UNCHANGED dir
    BY <2>3 DEF GenerateBundle, Start
  <2> QED BY <1>1, <2>1, <2>2, <2>3
          DEF RunCommand, Scaffold, ScaffoldAll, ScaffoldVersion, Start, Prepare, Refuse, Interrupt
<1>2. ASSUME NEW u \in Directory, Complete(u) \/ Discard(u)
      PROVE  Touches(u) /\ UNCHANGED environment
  BY <1>2 DEF Complete, Discard, Touches
<1>3. [Next]_vars => \/ UNCHANGED dir
                     \/ \E c \in Command : RunCommand(c)
                     \/ \E u \in Directory : Complete(u) \/ Discard(u)
  BY DEF Next, Engineer, Deploy, RunDecommission, vars
<1> QED BY <1>1, <1>2, <1>3

\* What that leaves of a directory: as it was, or a rendering that is still
\* known by it, or nothing.
LEMMA TouchedIs ==
  ASSUME FillInv, KnownInv, NEW u \in Directory, Touches(u)
  PROVE  /\ \A v \in Directory : v # u => dir'[v] = dir[v]
         /\ u[1] = "decommission" =>
              dir'[u].text.known \subseteq DOMAIN dir'[u].text.suspends
         /\ dir[u].holder # "domain" \/ ~Whole(u)
<1>1. dir \in [Directory -> Entry] /\ dir[u] \in Entry
  BY DirType DEF FillInv
<1>2. CASE \E c \in Command : \E r \in FreshRendered : u = r.unit /\ Claims(c, u, r.text)
  <2>1. PICK c \in Command, r \in FreshRendered : u = r.unit /\ Claims(c, u, r.text)
    BY <1>2
  <2> DEFINE entry == [holder |-> c, text |-> r.text]
  <2>2. dir' = [dir EXCEPT ![u] = entry] /\ dir[u].holder = "nobody"
    BY <2>1 DEF Claims
  <2>3. u[1] = "decommission" => entry.text.known \subseteq DOMAIN entry.text.suspends
    BY <2>1 DEF FreshRendered
  <2> HIDE DEF entry
  <2> QED BY <1>1, <2>2, <2>3
<1>3. CASE \E holder, some, torn : Refill(u, holder, some, torn) /\ (dir[u].holder # "domain" \/ ~Whole(u))
  <2>1. PICK holder, some, torn : Refill(u, holder, some, torn) /\ (dir[u].holder # "domain" \/ ~Whole(u))
    BY <1>3
  <2> DEFINE entry == Refilled(dir[u], holder, some, torn)
  <2>2. dir' = [dir EXCEPT ![u] = entry]
    BY <2>1 DEF Refill, Refilled
  <2>3. entry.text.known = dir[u].text.known /\ entry.text.suspends = dir[u].text.suspends
    <3>1. PICK old \in Text : dir[u].text = old
      BY <1>1 DEF Entry
    <3>2. entry.text = [old EXCEPT !.files = some, !.torn = torn]
      BY <3>1 DEF Refilled
    <3> HIDE DEF entry
    <3>3. entry.text.known = old.known /\ entry.text.suspends = old.suspends
      BY <3>2 DEF Text
    <3> QED BY <3>1, <3>3
  <2> HIDE DEF entry
  <2> QED BY <1>1, <2>1, <2>2, <2>3 DEF KnownInv
<1>4. CASE ~Whole(u) /\ dir' = [dir EXCEPT ![u] = Absent]
  <2>1. Absent.text.known = {}
    BY AbsentIsEmpty DEF Empty
  <2> HIDE DEF Absent
  <2> QED BY <1>1, <1>4, <2>1
<1> QED BY <1>2, <1>3, <1>4 DEF Touches

\* A file that is whole is nobody's but the domain's.
LEMMA WholeIsDomains ==
  ASSUME FillInv, NEW u \in Directory, Whole(u)
  PROVE  dir[u].holder = "domain"
<1>1. dir[u] \in Entry /\ dir[u].text.model \in Model
  BY DirType, TextFields DEF FillInv
<1> DEFINE order == Files(u, dir[u].text.model)
<1>2. ProperList(order)
  BY <1>1, FilesFacts
<1>3. PICK k \in Nat : FilledTo(u, dir[u], k)
  BY DEF FillInv, FilledInv
<1>4. k \in 0..Len(order) /\ dir[u].text.files = {order[i] : i \in 1..k}
      /\ (dir[u].holder \in Command => k # Len(order))
  BY <1>3 DEF FilledTo
<1>5. order[Len(order)] \in dir[u].text.files
  <2>1. Len(order) \in DOMAIN order
    BY <1>2 DEF ProperList
  <2> QED BY <2>1 DEF Whole, Range
<1> HIDE DEF order
<1>6. k = Len(order)
  <2>1. PICK i \in 1..k : order[i] = order[Len(order)]
    BY <1>4, <1>5
  <2> QED BY <1>2, <1>4, <2>1 DEF ProperList
<1> QED BY <1>1, <1>4, <1>6 DEF Entry, Whole, Made

LEMMA KnownStep == StopInv /\ [Next]_vars => KnownInv'
<1> SUFFICES ASSUME StopInv, [Next]_vars PROVE KnownInv'
  OBVIOUS
<1>1. CASE UNCHANGED dir
  BY <1>1 DEF StopInv, KnownInv
<1>2. ASSUME NEW u \in Directory, Touches(u)
      PROVE  KnownInv'
  BY <1>2, TouchedIs DEF StopInv, KnownInv
<1> QED BY <1>1, <1>2, StepTouches DEF StopInv

LEMMA StoppedStep == StopInv /\ [Next]_vars => StoppedInv'
<1> SUFFICES ASSUME StopInv, [Next]_vars, NEW d \in decommissioned'
             PROVE  /\ DecommissionDir(d) \in Directory
                    /\ Whole(DecommissionDir(d))' /\ dir'[DecommissionDir(d)].holder = "domain"
                    /\ \A n \in dir'[DecommissionDir(d)].text.known :
                         \/ runtime'[<<d, n>>] # "running"
                         \/ NoScheduler(dir'[DecommissionDir(d)].text, n)
  BY DEF StoppedInv, NoScheduler
<1> DEFINE u == DecommissionDir(d)
<1>a. FillInv /\ KnownInv /\ StoppedInv
  BY DEF StopInv
\* The file stays as it is.
<1>1. ASSUME u \in Directory, Whole(u), dir[u].holder = "domain"
      PROVE  dir'[u] = dir[u] /\ Whole(u)'
  <2>1. dir'[u] = dir[u]
    <3>1. CASE UNCHANGED dir
      BY <3>1
    <3>2. ASSUME NEW v \in Directory, Touches(v)
          PROVE  dir'[u] = dir[u]
      BY <1>a, <1>1, <3>2, TouchedIs
    <3> QED BY <1>a, <3>1, <3>2, StepTouches
  <2> QED BY <1>1, <2>1 DEF Whole, Made
<1>2. ASSUME d \in decommissioned,
             \A n \in Number : runtime'[<<d, n>>] = "running" => runtime[<<d, n>>] = "running"
      PROVE  /\ u \in Directory
             /\ Whole(u)' /\ dir'[u].holder = "domain"
             /\ \A n \in dir'[u].text.known :
                  runtime'[<<d, n>>] # "running" \/ NoScheduler(dir'[u].text, n)
  <2>1. u \in Directory /\ Whole(u) /\ dir[u].holder = "domain"
        /\ \A n \in dir[u].text.known :
             runtime[<<d, n>>] # "running" \/ NoScheduler(dir[u].text, n)
    BY <1>a, <1>2 DEF StoppedInv
  <2>2. dir'[u] = dir[u] /\ Whole(u)'
    BY <1>1, <2>1
  <2>3. dir[u].text.known \subseteq Number
    BY <1>a, <2>1, DirType, TextFields DEF FillInv
  <2> QED BY <1>2, <2>1, <2>2, <2>3
<1>3. CASE UNCHANGED environment
  BY <1>2, <1>3 DEF environment
<1>4. ASSUME NEW e \in Dataset, NEW n \in Number, Deploy(e, n)
      PROVE  /\ d \in decommissioned
             /\ \A k \in Number : runtime'[<<d, k>>] = runtime[<<d, k>>]
  <2>1. d \in decommissioned /\ e # d
    BY <1>4 DEF Deploy
  <2>2. runtime \in [Dataset \X Number -> {"none", "running", "stopped"}]
        /\ decommissioned \subseteq Dataset
    BY <1>a DEF FillInv, TypeOK
  <2>3. runtime' = [runtime EXCEPT ![<<e, n>>] = "running"]
    BY <1>4 DEF Deploy
  <2> QED BY <2>1, <2>2, <2>3
\* The file that runs knows every version that existed.
<1>5. ASSUME NEW e \in Dataset, RunDecommission(e)
      PROVE  /\ u \in Directory
             /\ Whole(u)' /\ dir'[u].holder = "domain"
             /\ \A n \in dir'[u].text.known :
                  runtime'[<<d, n>>] # "running" \/ NoScheduler(dir'[u].text, n)
  <2> DEFINE f == DecommissionDir(e)
             suspends == dir[f].text.suspends
             listed == DOMAIN suspends
             failing == {n \in listed : ~StatementRuns(e, n, suspends[n])}
             ran == {n \in listed : suspends[n] # "batch_sql" /\ \A k \in failing : n < k}
  <2>1. /\ "decommission" \in BundleKind /\ Whole(f) /\ UNCHANGED <<dir, command, starts>>
        /\ runtime' = [v \in DOMAIN runtime |->
             IF v[1] = e /\ v[2] \in ran THEN "stopped" ELSE runtime[v]]
        /\ decommissioned' = IF failing = {} THEN decommissioned \cup {e} ELSE decommissioned
    BY <1>5 DEF RunDecommission, DecommissionDir
  <2>2. /\ runtime \in [Dataset \X Number -> {"none", "running", "stopped"}]
        /\ decommissioned \subseteq Dataset
    BY <1>a DEF FillInv, TypeOK
  <2>3. d \in Dataset
    BY <2>1, <2>2
  <2>4. CASE d \in decommissioned
    <3> HIDE DEF ran
    <3>1. \A n \in Number : runtime'[<<d, n>>] = "running" => runtime[<<d, n>>] = "running"
      BY <2>1, <2>2, <2>3
    <3> QED BY <1>2, <2>4, <3>1
  <2>5. CASE d \notin decommissioned
    <3>1. d = e /\ failing = {}
      BY <2>1, <2>5
    <3>2. u \in Directory /\ u[1] = "decommission"
      BY <2>1, <2>3 DEF DecommissionDir, Directory, BundleDir, Number
    <3>3. Whole(u) /\ dir[u].holder = "domain" /\ dir' = dir
      BY <1>a, <2>1, <3>1, <3>2, WholeIsDomains
    <3>4. dir[u].text.known \subseteq listed /\ dir[u].text.known \subseteq Number
      BY <1>a, <3>1, <3>2, DirType, TextFields DEF FillInv, KnownInv
    <3>5. ASSUME NEW n \in dir[u].text.known
          PROVE  runtime'[<<d, n>>] # "running" \/ NoScheduler(dir[u].text, n)
      <4>1. CASE suspends[n] = "batch_sql"
        BY <3>1, <3>4, <3>5, <4>1 DEF NoScheduler
      <4>2. CASE suspends[n] # "batch_sql"
        <5>1. n \in ran
          BY <3>1, <3>4, <3>5, <4>2
        <5>2. <<d, n>> \in DOMAIN runtime
          BY <2>2, <2>3, <3>4, <3>5
        <5> HIDE DEF ran
        <5>3. runtime'[<<d, n>>] = "stopped"
          BY <2>1, <3>1, <5>1, <5>2
        <5> QED BY <5>3
      <4> QED BY <4>1, <4>2
    <3> HIDE DEF u
    <3>6. Whole(u)'
      BY <3>3 DEF Whole, Made
    <3> QED BY <3>2, <3>3, <3>5, <3>6
  <2> QED BY <2>4, <2>5
<1>6. ASSUME NEW v \in Directory, Complete(v) \/ Discard(v)
      PROVE  UNCHANGED environment
  BY <1>6 DEF Complete, Discard, environment
<1>7. ASSUME NEW c \in Command, RunCommand(c)
      PROVE  UNCHANGED environment
  <2>1. ASSUME NEW kind \in BundleKind, NEW e \in Dataset, NEW n \in Number,
               GenerateBundle(c, kind, e, n)
        PROVE  UNCHANGED environment
    BY <2>1 DEF GenerateBundle, Start
  <2> QED BY <1>7, <2>1 DEF RunCommand, Scaffold, ScaffoldAll, ScaffoldVersion, Start,
             Prepare, Refuse, MakeDirectory, WriteFile, Die, Interrupt
<1> HIDE DEF u
<1>8. CASE UNCHANGED vars
  BY <1>3, <1>8 DEF vars, environment, u
<1>9. CASE Engineer
  <2>1. CASE \E e \in Dataset, n \in Number : Deploy(e, n)
    BY <1>2, <1>4, <2>1 DEF u
  <2> QED BY <1>3, <1>5, <1>6, <1>9, <2>1 DEF Engineer, u
<1>10. CASE \E c \in Command : RunCommand(c)
  BY <1>3, <1>7, <1>10
<1> QED BY <1>8, <1>9, <1>10 DEF Next

LEMMA StopInit == Init => StopInv
<1> SUFFICES ASSUME Init PROVE StopInv
  OBVIOUS
<1>1. KnownInv
  <2>1. \A u \in Directory : dir[u].text.known = {}
    BY AbsentIsEmpty DEF Init, Empty
  <2> QED BY <2>1 DEF KnownInv
<1> QED BY <1>1, FillInit DEF StopInv, StoppedInv, Init

LEMMA StopNext == StopInv /\ [Next]_vars => StopInv'
BY FillNext, KnownStep, StoppedStep DEF StopInv

LEMMA StopInvariant == Spec => []StopInv
BY StopInit, StopNext, PTL DEF Spec

\* For any datasets, versions and commands, a decommission that runs to its end
\* leaves nothing running that its file knew and had a statement for, and
\* nothing starts it again (DecommissionStopsKnown).
THEOREM DecommissionStops == Spec => DecommissionStopsKnown
<1> DEFINE Stops ==
      \A d \in Dataset : decommissioned' # decommissioned /\ d \in decommissioned' =>
        LET text == dir[<<"decommission", d, 1>>].text IN
          \A n \in text.known : runtime'[<<d, n>>] # "running" \/ NoScheduler(text, n)
<1>1. StopInv /\ StopInv' /\ [Next]_vars => [Stops]_vars
  <2> SUFFICES ASSUME StopInv, StopInv', [Next]_vars, NEW d \in Dataset,
                      decommissioned' # decommissioned, d \in decommissioned'
               PROVE  \A n \in dir[DecommissionDir(d)].text.known :
                        \/ runtime'[<<d, n>>] # "running"
                        \/ NoScheduler(dir[DecommissionDir(d)].text, n)
    BY DEF DecommissionDir
  <2>1. UNCHANGED dir
    BY StepTouches DEF environment, StopInv
  <2>2. \A n \in dir'[DecommissionDir(d)].text.known :
          \/ runtime'[<<d, n>>] # "running"
          \/ NoScheduler(dir'[DecommissionDir(d)].text, n)
    BY DEF StopInv, StoppedInv, NoScheduler
  <2> QED BY <2>1, <2>2
<1>2. DecommissionStopsKnown <=> [][Stops]_vars
  BY PTL DEF DecommissionStopsKnown
<1> QED BY <1>1, <1>2, StopInvariant, PTL DEF Spec

=============================================================================
