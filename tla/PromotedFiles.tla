---------------------------- MODULE PromotedFiles ----------------------------
(***************************************************************************)
(* What a promotion commits: the files of a service under base and under   *)
(* the stage, moved into the directory of the service on the stage branch, *)
(* with one values.yaml that merges those of both.  The pure part of       *)
(* UpdateGitRepo, see PromotionService for its calls and retries.          *)
(*                                                                         *)
(* A directory is a function from paths, sequences of names, to contents.  *)
(* What YAML makes of a file is a tree.                                    *)
(***************************************************************************)
EXTENDS Integers, Sequences

CONSTANTS
  Trees,      \* trees that values files are made of, with all their subtrees
  Depth,      \* how deep each of them nests
  OrigFiles,  \* those that are the values of a service under base
  StageFiles, \* those that are its values under the stage
  Names,      \* of files, directories and keys: strings
  Paths,      \* sequences of keys at which merged values are looked at
  Service,    \* the name of the service
  Stage,      \* the name of the stage
  Rest,       \* what follows the name of the service in names that contain it
  Clones,     \* directories: clones of a tag
  Targets     \* directories: clones of the stage branch

Map(entries) == [kind |-> "map", entries |-> entries]
List(items)  == [kind |-> "list", items |-> items]
Scalar(atom) == [kind |-> "scalar", atom |-> atom]
Null    == [kind |-> "null"]
Invalid == [kind |-> "invalid"]   \* the content of a file that is no YAML map
NoValue == [kind |-> "nothing"]   \* neither a value nor a file

IsMap(v)  == v.kind = "map"
IsList(v) == v.kind = "list"

IsDirectory(d) == \A path \in DOMAIN d : path \in Seq(Names) /\ d[path] # NoValue

ASSUME FilesAssumption ==
  /\ Depth \in [Trees -> Nat]
  /\ \A v \in Trees : IsMap(v) =>
       \A k \in DOMAIN v.entries : /\ v.entries[k] \in Trees \ {NoValue}
                                   /\ Depth[v.entries[k]] < Depth[v]
  /\ OrigFiles \cup StageFiles \subseteq {v \in Trees : IsMap(v)}
  /\ {"temp", "base", "stages", "helm", "values.yaml", Service, Stage} \subseteq Names
  /\ Paths \subseteq Seq(Names) \ {<<>>}
  /\ Service \in DOMAIN Rest /\ Rest[Service] = <<>>
  /\ \A name \in DOMAIN Rest : name \in Names /\ Rest[name] \in Seq(Names)
  /\ \A d \in Clones \cup Targets : IsDirectory(d)

-----------------------------------------------------------------------------
(* Merging values. *)

\* Mutant: what meets is not merged further down.
MergeEntries_Flat(merge, in1, in2) ==
  [k \in DOMAIN in1 \cup DOMAIN in2 |-> IF k \in DOMAIN in1 THEN in1[k] ELSE in2[k]]

\* Entries of both maps, merged where they meet.
MergeEntries(merge, in1, in2) ==
  [k \in DOMAIN in1 \cup DOMAIN in2 |->
     IF k \notin DOMAIN in2 THEN in1[k]
     ELSE IF k \in DOMAIN in1 THEN merge[<<in1[k], in2[k]>>] ELSE in2[k]]

\* merge, with the function it calls for what is further down.
MergeStep(merge, in1, in2) ==
  CASE IsList(in1) /\ IsList(in2) -> List(in1.items \o in2.items)
    [] IsMap(in1) /\ IsMap(in2)   -> Map(MergeEntries(merge, in1.entries, in2.entries))
    [] in1 = Null /\ IsMap(in2)   -> in2
    [] OTHER                      -> in1

Merge[in \in Trees \X Trees] == MergeStep(Merge, in[1], in[2])

\* At the top the result of the merge is dropped: it has changed maps in place,
\* and neither appended a list nor replaced a null.
ManipulatedEntries(orig, stage) ==
  [k \in DOMAIN orig \cup DOMAIN stage |->
     IF k \notin DOMAIN stage THEN orig[k]
     ELSE IF k \in DOMAIN orig /\ IsMap(stage[k]) THEN Merge[<<stage[k], orig[k]>>]
                                                  ELSE stage[k]]

Manipulate(orig, stage) == Map(ManipulatedEntries(orig.entries, stage.entries))

\* A file that is missing or invalid has no values.
MergeValues(orig, stage) ==
  CASE IsMap(orig) /\ IsMap(stage)  -> Manipulate(orig, stage)
    [] IsMap(orig) /\ ~IsMap(stage) -> orig
    [] ~IsMap(orig) /\ IsMap(stage) -> stage
    [] OTHER                        -> NoValue

-----------------------------------------------------------------------------
(* Moving files; temp is the clone of the tag. *)

IsUnder(path, directory) ==
  /\ Len(path) > Len(directory)
  /\ SubSeq(path, 1, Len(directory)) = directory

\* What a path is below its first i names.
Below(path, i) == SubSeq(path, i + 1, Len(path))

\* path[firstIndex+len(serviceName):]
AfterService(path) ==
  LET first == CHOOSE i \in 1..Len(path) :
                 /\ path[i] \in DOMAIN Rest
                 /\ \A j \in 1..i - 1 : path[j] \notin DOMAIN Rest
  IN  Rest[path[first]] \o Below(path, first)

NewPath(path) == <<Service>> \o AfterService(path)

\* The files of from that are under directory go under the service in to.
MoveFiles(from, directory, to) ==
  LET moved   == {path \in DOMAIN from : IsUnder(path, directory)}
      arrived == {NewPath(path) : path \in moved}
  IN  [path \in DOMAIN to \cup arrived |->
         IF path \in arrived THEN from[CHOOSE p \in moved : NewPath(p) = path]
                             ELSE to[path]]

BaseDirectory  == <<"temp", "base", Service>>
StageDirectory == <<"temp", "stages", Stage, Service>>
Helm   == <<"helm", Service>>
Values == Helm \o <<"values.yaml">>

\* Mutant: the files of the stage come first.
PerformFileMove_StageFirst(from, to) ==
  MoveFiles(from, BaseDirectory, MoveFiles(from, StageDirectory, to))

PerformFileMove(from, to) ==
  MoveFiles(from, StageDirectory, MoveFiles(from, BaseDirectory, to))

ContentOf(directory, path) ==
  IF path \in DOMAIN directory THEN directory[path] ELSE NoValue

Merged(from) == MergeValues(ContentOf(from, BaseDirectory \o Values),
                            ContentOf(from, StageDirectory \o Values))

\* The merged values replace those of the stage, whose directory has to exist;
\* an error is only logged.
MergeHelmValues(from) ==
  IF \/ Merged(from) = NoValue
     \/ \A path \in DOMAIN from : ~IsUnder(path, StageDirectory \o Helm)
    THEN from
    ELSE [path \in DOMAIN from \cup {StageDirectory \o Values} |->
            IF path = StageDirectory \o Values THEN Merged(from) ELSE from[path]]

\* os.RemoveAll(filepath.Join(dirStage, service))
RemoveService(to) ==
  [path \in {p \in DOMAIN to : ~IsUnder(p, <<Service>>)} |-> to[path]]

\* The tree of the commit.
UpdateFiles(from, to) == PerformFileMove(MergeHelmValues(from), RemoveService(to))

-----------------------------------------------------------------------------
(* The same stated path by path. *)

Entry(v, k) == IF IsMap(v) /\ k \in DOMAIN v.entries THEN v.entries[k] ELSE NoValue

\* The values met on the way along a path of keys.
Nodes(v, path) ==
  LET node[i \in 0..Len(path)] == IF i = 0 THEN v ELSE Entry(node[i - 1], path[i])
  IN  node

Leaf(v) == IF IsMap(v) THEN NoValue ELSE v

\* The stage says what is at the i-th node of a path, and that nothing is below
\* it; a null below the top gives way to a map.
Decides(orig, stage, path, i) ==
  LET o == Nodes(orig, path)[i]
      s == Nodes(stage, path)[i]
  IN  ~IsMap(s) /\ s # NoValue /\ ~(i > 1 /\ s = Null /\ IsMap(o))

Expected(orig, stage, path) ==
  LET n == Len(path)
      o == Nodes(orig, path)[n]
      s == Nodes(stage, path)[n]
  IN  IF Decides(orig, stage, path, n)
        THEN IF n > 1 /\ IsList(s) /\ IsList(o) THEN List(s.items \o o.items) ELSE s
      ELSE IF s # NoValue \/ \E i \in 1..n : Decides(orig, stage, path, i)
        THEN NoValue
      ELSE Leaf(o)

\* Wherever in the tree, what the stage sets is promoted, what it does not
\* mention comes from base, and nothing else appears.
MergesPaths ==
  \A orig \in OrigFiles, stage \in StageFiles, path \in Paths :
    Leaf(Nodes(Manipulate(orig, stage), path)[Len(path)]) = Expected(orig, stage, path)

FilesUnder(from, directory) ==
  {Below(path, Len(directory)) : path \in {p \in DOMAIN from : IsUnder(p, directory)}}

\* What is committed of a file: the merged values if there are any, what the
\* stage has, or what base has.
Committed(from, file) ==
  LET s == ContentOf(from, StageDirectory \o file)
  IN  IF file = Values /\ Merged(from) # NoValue THEN Merged(from)
      ELSE IF s # NoValue THEN s ELSE ContentOf(from, BaseDirectory \o file)

\* The service's directory has the files of base and stage, those of the stage
\* where both have one, and nothing of an earlier promotion; what else is on
\* the branch stays.
Completes(from, to) ==
  LET after == UpdateFiles(from, to)
      files == FilesUnder(from, BaseDirectory) \cup FilesUnder(from, StageDirectory)
  IN  /\ FilesUnder(after, <<Service>>) = files
      /\ \A file \in files : ContentOf(after, <<Service>> \o file) = Committed(from, file)
      /\ \A path \in DOMAIN after \cup DOMAIN to :
           IsUnder(path, <<Service>>) \/ ContentOf(after, path) = ContentOf(to, path)

\* No directory above that of the service has a name with the service's in it.
NamesAreApart == {"temp", "base", "stages", Stage} \cap DOMAIN Rest = {}

AllComplete == \A from \in Clones, to \in Targets : Completes(from, to)
=============================================================================
