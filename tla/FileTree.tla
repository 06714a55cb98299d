------------------------------ MODULE FileTree ------------------------------
(***************************************************************************)
(* Paths and trees of files: what the client takes a remote path apart     *)
(* into (remote_path.rs), which files and directories a transfer of whole  *)
(* directories is made of (transfer/plan.rs, sftp.rs), in which order      *)
(* directories are made and removed, and the segments of one download.     *)
(*                                                                         *)
(* A remote path is a sequence of bytes, a local one a sequence of names.  *)
(* A file system is a function from the paths that exist to their kind;    *)
(* only a "Directory" has paths below it.                                  *)
(***************************************************************************)
EXTENDS Naturals, Sequences, SequencesExt

CONSTANT None   \* a model value: no path

Slash == 47
Dot == <<46>>
Root == <<Slash>>

---------------------------------------------------------------------------
\* remote_path.rs

TrimSlashes(path) ==
  LET kept == {i \in DOMAIN path : path[i] # Slash} IN
  SubSeq(path, 1, IF kept = {} THEN 0 ELSE CHOOSE i \in kept : \A j \in kept : j <= i)

LastSlash(path) ==
  LET slashes == {i \in DOMAIN path : path[i] = Slash} IN
  IF slashes = {} THEN 0 ELSE CHOOSE i \in slashes : \A j \in slashes : j <= i

RemoteParentPath(path) ==
  LET trimmed == TrimSlashes(path)
      last == LastSlash(trimmed) IN
  CASE trimmed \in {<<>>, Dot} -> None
    [] trimmed \notin {<<>>, Dot} /\ last = 1 -> Root
    [] trimmed \notin {<<>>, Dot} /\ last > 1 -> SubSeq(trimmed, 1, last - 1)
    [] OTHER -> Dot

\* Empty for a path that names nothing; the code says "download" then.
RemoteFileName(path) ==
  LET trimmed == TrimSlashes(path) IN SubSeq(trimmed, LastSlash(trimmed) + 1, Len(trimmed))

RemoteJoinPath(directory, name) ==
  CASE directory = Root -> Root \o name
    [] directory = Dot -> name
    [] OTHER -> TrimSlashes(directory) \o Root \o name

Below(parent, path) ==
  LET prefix == TrimSlashes(parent) \o Root IN
  IF IsPrefix(prefix, path) THEN SubSeq(path, Len(prefix) + 1, Len(path)) ELSE None

RemoteRelativePath(root, path) == IF path = root THEN <<>> ELSE Below(root, path)

\* The names between the slashes, the empty ones left out.
Components(path) ==
  LET cut == {0, Len(path) + 1} \union {i \in DOMAIN path : path[i] = Slash}
      After(i) == CHOOSE j \in cut : j > i /\ \A k \in cut : k > i => j <= k
      names == [i \in 0..Len(path) |-> IF i \in cut THEN SubSeq(path, i + 1, After(i) - 1) ELSE <<>>]
  IN SelectSeq([i \in 1..Len(path) + 1 |-> names[i - 1]], LAMBDA name : name # <<>>)

JoinRemoteRelative(root, relative) ==
  root \o SelectSeq(Components(relative), LAMBDA name : name \notin {Dot, Dot \o Dot})

RemotePathIsDescendant(parent, candidate) ==
  /\ parent # candidate
  /\ IF parent = Root THEN candidate # <<>> /\ candidate[1] = Slash /\ Len(candidate) > 1
     ELSE Below(parent, candidate) # None

RemotePathDepth(path) == Len(Components(path))

\* Paths in order: less deep first, then byte by byte.
Lower(left, right) ==
  \/ IsStrictPrefix(left, right)
  \/ \E i \in DOMAIN left \intersect DOMAIN right :
       /\ left[i] < right[i]
       /\ \A j \in 1..i - 1 : left[j] = right[j]

Before(left, right) ==
  \/ RemotePathDepth(left) < RemotePathDepth(right)
  \/ RemotePathDepth(left) = RemotePathDepth(right) /\ Lower(left, right)

\* Sorted, each once.
InOrder(paths) == SetToSortSeq(paths, Before)

---------------------------------------------------------------------------
\* The breadcrumbs of a directory, and a selection without what is below a selected
\* directory (state.rs:924, :946).

RemoteBreadcrumbs(path) ==
  IF path = <<>> \/ path[1] # Slash THEN <<path>>
  ELSE <<Root>> \o [i \in DOMAIN Components(path) |->
                      FlattenSeq([j \in 1..i |-> Root \o Components(path)[j]])]

CollapseNestedRemoteEntries(kinds) ==
  {path \in DOMAIN kinds :
     ~\E directory \in DOMAIN kinds :
        kinds[directory] = "Directory" /\ RemotePathIsDescendant(directory, path)}

---------------------------------------------------------------------------
\* What an upload consists of. The walk takes the directory it found last.

Child(fs, directory, path) == Len(path) = Len(directory) + 1 /\ IsPrefix(directory, path)

FindLocal(fs, w, local, remote) ==
  CASE fs[local] = "Directory" ->
         [w EXCEPT !.directories = @ \union {remote}, !.pending = Append(@, <<local, remote>>)]
    [] fs[local] = "File" -> [w EXCEPT !.files = Append(@, <<local, remote>>)]
    [] OTHER -> w

ByName(left, right) == Lower(Last(left), Last(right))

WalkLocal(fs, w, step) ==
  IF w.pending = <<>> THEN w
  ELSE LET local == Last(w.pending)[1]
           remote == Last(w.pending)[2]
           entries == SetToSortSeq({path \in DOMAIN fs : Child(fs, local, path)}, ByName)
           Entry(v, path) == FindLocal(fs, v, path, RemoteJoinPath(remote, Last(path)))
       IN FoldLeft(Entry, [w EXCEPT !.pending = Front(@)], entries)

\* Of two files with one remote path the one found first is kept.
FirstOf(files, i) == \A j \in 1..i - 1 : files[j][2] # files[i][2]

BuildLocalUploadPlan(fs, selected, directory) ==
  LET Select(w, path) == FindLocal(fs, w, path, RemoteJoinPath(directory, Last(path)))
      start == FoldLeft(Select, [directories |-> {}, files |-> <<>>, pending |-> <<>>], selected)
      Walk(w, step) == WalkLocal(fs, w, step)
      w == FoldLeft(Walk, start, [i \in 1..2 * Len(SetToSeq(DOMAIN fs)) |-> i])
  IN [directories |-> InOrder(w.directories),
      files |-> {w.files[i] : i \in {j \in DOMAIN w.files : FirstOf(w.files, j)}}]

---------------------------------------------------------------------------
\* The remote side of trees (sftp.rs:562-725). `kind` of a link is "Link" if it leads
\* somewhere and "Dangling" if not; a listing follows neither.

Entries(fs, directory) ==
  {path \in DOMAIN fs : path # Root /\ RemoteParentPath(path) = directory}

TreeStep(fs, w, step) ==
  IF w.pending = <<>> THEN w
  ELSE LET entries == Entries(fs, Last(w.pending))
           found == {path \in entries : fs[path] = "Directory"} IN
       [pending |-> Front(w.pending) \o SetToSeq(found),
        directories |-> w.directories \union found,
        files |-> w.files \union {path \in entries : fs[path] = "File"}]

ReadDirectoryTree(fs, root) ==
  LET Step(w, i) == TreeStep(fs, w, i)
      w == FoldLeft(Step, [pending |-> <<root>>, directories |-> {}, files |-> {}],
                    [i \in 1..Len(SetToSeq(DOMAIN fs)) + 1 |-> i])
  IN [root |-> root, directories |-> InOrder(w.directories), files |-> w.files]

Exists(fs, path) == path \in DOMAIN fs /\ fs[path] # "Dangling"

CreateDirectory(s, path) ==
  CASE s.failed -> s
    [] ~s.failed /\ Exists(s.fs, path) -> [s EXCEPT !.failed = s.fs[path] # "Directory"]
    [] ~s.failed /\ path \in DOMAIN s.fs /\ ~Exists(s.fs, path) -> [s EXCEPT !.failed = TRUE]
    [] OTHER -> IF RemoteParentPath(path) \in DOMAIN s.fs
                   /\ s.fs[RemoteParentPath(path)] \in {"Directory", "Link"}
                THEN [s EXCEPT !.fs = [p \in DOMAIN @ \union {path} |->
                                         IF p = path THEN "Directory" ELSE @[p]],
                               !.made = Append(@, path)]
                ELSE [s EXCEPT !.failed = TRUE]

CreateDirectories(fs, paths) ==
  FoldLeft(CreateDirectory, [fs |-> fs, made |-> <<>>, failed |-> FALSE], InOrder(paths))

\* Removal: a directory is put behind what is in it, the root is refused, a path that is
\* no longer there is an error.
DeleteStep(s, step) ==
  IF s.pending = <<>> \/ s.failed THEN s
  ELSE LET next == Last(s.pending)
           gone == [p \in DOMAIN s.fs \ {next.path} |-> s.fs[p]] IN
       CASE next.step = "Inspect" /\ next.path \notin DOMAIN s.fs -> [s EXCEPT !.failed = TRUE]
         [] next.step = "Inspect" /\ next.path \in DOMAIN s.fs /\ s.fs[next.path] = "Directory" ->
              [s EXCEPT !.pending = Front(@) \o <<[step |-> "Remove", path |-> next.path]>>
                 \o [i \in DOMAIN SetToSeq(Entries(s.fs, next.path)) |->
                       [step |-> "Inspect", path |-> SetToSeq(Entries(s.fs, next.path))[i]]]]
         [] next.step = "Remove" /\ Entries(s.fs, next.path) # {} -> [s EXCEPT !.failed = TRUE]
         [] OTHER -> [s EXCEPT !.fs = gone, !.pending = Front(@), !.removed = Append(@, next.path)]

DeletePath(s, path) ==
  CASE s.failed -> s
    [] ~s.failed /\ (path = Root \/ ~Exists(s.fs, path)) -> [s EXCEPT !.failed = TRUE]
    [] OTHER -> FoldLeft(DeleteStep, [s EXCEPT !.pending = <<[step |-> "Inspect", path |-> path]>>],
                         [i \in 1..2 * Len(SetToSeq(DOMAIN s.fs)) |-> i])

DeletePaths(fs, paths) ==
  FoldLeft(DeletePath, [fs |-> fs, pending |-> <<>>, removed |-> <<>>, failed |-> FALSE], paths)

---------------------------------------------------------------------------
\* What a download consists of: a path the root does not have ends it, and what was made
\* stays (transfer/plan.rs:69).

BuildRemoteDownloadPlan(tree, destination) ==
  LET Escaped(path) == RemoteRelativePath(tree.root, path) = None
      Local(path) == JoinRemoteRelative(destination, RemoteRelativePath(tree.root, path))
      made == {i \in DOMAIN tree.directories : \A j \in 1..i : ~Escaped(tree.directories[j])}
      failed == \E path \in Range(tree.directories) \union tree.files : Escaped(path)
  IN [failed |-> failed,
      directories |-> {Local(tree.directories[i]) : i \in made},
      files |-> IF failed THEN {} ELSE {<<Local(path), path>> : path \in tree.files}]

\* The segments of a download, none longer than the first (sftp.rs:519).
DivCeil(n, d) == (n + d - 1) \div d

DownloadSegmentRanges(total, minimum, streams) ==
  IF total = 0 THEN <<>>
  ELSE LET wanted == DivCeil(total, minimum)
           count == IF wanted > streams THEN streams ELSE wanted
           size == DivCeil(total, count)
           Start(i) == (i - 1) * size
           End(i) == IF i * size > total THEN total ELSE i * size
       IN SelectSeq([i \in 1..count |-> <<Start(i), End(i)>>], LAMBDA range : range[1] < range[2])
============================================================================
