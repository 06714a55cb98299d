-------------------------- MODULE MCTransferSystem --------------------------
(***************************************************************************)
(* TransferSystem for TLC.  Nobody reads the commands left to a worker     *)
(* that has ended, nor the cancellation flag of an attempt past its copy,  *)
(* so two states that differ only there count as one.  The last component  *)
(* of the view is always TRUE: it has TLC evaluate in full the functions   *)
(* it would otherwise keep unevaluated and could not write to its queue.   *)
(* The checks of the SCP sink and of the plans of directories, which have  *)
(* no states of their own, are evaluated here too.                         *)
(***************************************************************************)
EXTENDS TransferSystem, SequencesExt

CONSTANT NoPath   \* a model value

PendingCommands == [c \in listening |-> commands[c]]

LiveFlags == {a \in Files!Attempts : flag[a] /\ phase[a] \in {"Checking", "Copying"}}

SystemView == <<nextSession, open, link, closing, generation, handle, state, overwrite,
                nextId, limit, cursor, scheduling, PendingCommands, listening, conn,
                workerVars, cancellations, phase, confirmed, result, LiveFlags, events,
                /\ commands \in [Connections -> Seq(Commands)]
                /\ flag \in [Files!Attempts -> BOOLEAN]>>

---------------------------------------------------------------------------
\* ScpSink against every short answer of a server: a file is only complete if the server took
\* the header, the contents and the end, and ended well itself; what was sent is always a
\* beginning of the same upload; and a path is one word of the command whatever is in it.

LOCAL Scp == INSTANCE ScpSink WITH MaxScpErrorBytes <- 2

LOCAL Data(bytes) == [kind |-> "Data", data |-> bytes]
LOCAL Status(n) == [kind |-> "ExitStatus", status |-> n]
LOCAL Event(kind) == [kind |-> kind]

LOCAL File == [mode |-> 420, total |-> 2, name |-> <<97>>, chunks |-> <<<<1>>, <<2>>>>]
LOCAL Header == [mode |-> 420, total |-> 2, name |-> <<97>>]
LOCAL Whole == <<Header>> \o File.chunks \o <<0>>

LOCAL Early == {Data(<<0>>), Data(<<0, 0>>), Data(<<1>>), Status(1), Event("Eof"), Event("Cancel")}
LOCAL Late == {Data(<<0>>), Status(0), Status(1), Event("Close"), Event("ExitSignal")}
LOCAL Streams == {a \o b : a \in SeqOf(Early, 3), b \in SeqOf(Late, 3)}

---------------------------------------------------------------------------
\* The same said of the stream as a whole.

LOCAL BytesOf(messages) ==
  FlattenSeq([i \in DOMAIN messages |-> IF messages[i].kind = "Data" THEN messages[i].data ELSE <<>>])

LOCAL Fatal(message) ==
  \/ message.kind \in {"Eof", "Close", "ExitSignal", "Failure"}
  \/ message.kind = "ExitStatus" /\ message.status # 0

\* Three zeros first, and nothing fatal before the third of them.
LOCAL Acknowledged(messages, k) ==
  /\ Len(BytesOf(SubSeq(messages, 1, k))) >= 3
  /\ k > 0 => Len(BytesOf(SubSeq(messages, 1, k - 1))) < 3
  /\ \A i \in 1..3 : BytesOf(messages)[i] = 0
  /\ \A i \in 1..k : ~Fatal(messages[i])
  /\ \A i \in 1..k : messages[i].kind = "Cancel" =>
       Len(BytesOf(SubSeq(messages, 1, i))) >= 3

\* A close, no signal before it, and the last status up to there is zero if there is one.
LOCAL EndsWell(messages, k) ==
  \E c \in k + 1..Len(messages) :
    /\ messages[c].kind = "Close"
    /\ \A i \in k + 1..c - 1 : messages[i].kind \notin {"Close", "ExitSignal"}
    /\ \A i \in 1..c : messages[i].kind = "ExitStatus" /\ messages[i].status # 0 =>
         \E j \in i + 1..c : messages[j].kind = "ExitStatus" /\ messages[j].status = 0

\* Without a cancellation the upload is complete exactly if the server acknowledged it all
\* and ended well (scp.rs:95, :161, :236).
ASSUME CompleteOnlyIfAcknowledged ==
  \A messages \in Streams :
    Scp!CopyToScpSink(File, messages, 2).result = "Ok" <=>
      \E k \in 0..Len(messages) : Acknowledged(messages, k) /\ EndsWell(messages, k)

\* What is sent is a beginning of header, contents and end: nothing before the first
\* acknowledgement, no contents before the second, and no end after a cancellation that is
\* seen in between, so that the server never takes a part of a file for the file.
ASSUME SentIsABeginning ==
  \A messages \in Streams, keeps \in 0..2 :
    LET c == Scp!CopyToScpSink(File, messages, keeps)
        zeros == Len(BytesOf(messages)) IN
    /\ IsPrefix(c.sent, Whole)
    /\ c.sent # <<>> => zeros >= 1
    /\ Len(c.sent) > 1 => zeros >= 2
    /\ keeps < 2 => Len(c.sent) <= 1 + keeps /\ c.result # "Ok"
    /\ c.result = "Ok" => c.sent = Whole

\* An error of the server is told when its line is complete and no earlier, and a byte that
\* is no acknowledgement is never waited on (scp.rs:207).
ASSUME ErrorsAreWholeLines ==
  \A bytes \in SeqOf({0, 1, 2, 7, 10}, 3) :
    LET taken == Scp!TakeScpAck(bytes) IN
    /\ taken = "Wait" <=> bytes = <<>> \/
         (bytes # <<>> /\ bytes[1] \in {1, 2} /\ \A i \in DOMAIN bytes : bytes[i] # 10)
    /\ taken = "Rejected" => \E i \in DOMAIN bytes : bytes[i] = 10 /\ i > 1

\* A server may write to standard error forever: two limits' worth keeps its beginning.
ASSUME ErrorTextBounded ==
  \A a, b \in SeqOf({1, 2}, 3) :
    LET kept == Scp!AppendScpError(Scp!AppendScpError(<<>>, a), b) IN
    /\ IsPrefix(kept, a \o b)
    /\ Len(kept) = IF Len(a \o b) <= 2 THEN Len(a \o b) ELSE 2

---------------------------------------------------------------------------
\* A POSIX shell reading the text: words, single quotes and backslashes.

LOCAL ShellByte(s, byte) ==
  CASE s.mode = "quoted" -> IF byte = 39 THEN [s EXCEPT !.mode = "bare"]
                            ELSE [s EXCEPT !.words[Len(s.words)] = Append(@, byte)]
    [] s.mode = "escaped" -> [s EXCEPT !.mode = "bare", !.words[Len(s.words)] = Append(@, byte)]
    [] s.mode = "bare" ->
         CASE byte = 39 -> [s EXCEPT !.mode = "quoted"]
           [] byte = 92 -> [s EXCEPT !.mode = "escaped"]
           [] byte \in {32, 10, 59} -> [s EXCEPT !.words = Append(@, <<>>)]
           [] OTHER -> [s EXCEPT !.words[Len(s.words)] = Append(@, byte)]

LOCAL ShellReads(text) == FoldLeft(ShellByte, [mode |-> "bare", words |-> <<<<>>>>], text)

\* A path is one word of the command, the very path, whatever quotes, backslashes, spaces or
\* semicolons are in it (scp.rs:350).
ASSUME PathIsOneWord ==
  \A path \in SeqOf({39, 92, 32, 59, 97}, 5) :
    LET q == Scp!ShellQuote(path) IN
    q.valid /\ ShellReads(q.word) = [mode |-> "bare", words |-> <<path>>]

\* The name in the header has no slash, and is what the path names (scp.rs:336).
ASSUME NameEndsThePath ==
  \A path \in SeqOf({47, 97, 98}, 5) :
    LET name == Scp!RemoteFileName(path) IN
    /\ \A i \in DOMAIN name : name[i] # 47
    /\ (name # <<>> <=> \E i \in DOMAIN path : path[i] # 47)
    /\ name # <<>> => \E n \in 0..5 : \E before \in {SubSeq(path, 1, m) : m \in 0..Len(path)} :
         path = before \o name \o [i \in 1..n |-> 47] /\ (before = <<>> \/ before[Len(before)] = 47)

\* The parents that are made are a beginning of the list, so that no directory is made below
\* one that could not be (scp.rs:23).
ASSUME DirectoriesStopAtTheFirstFailure ==
  \A paths \in SeqOf({<<97>>, <<98>>, <<0>>}, 3), refused \in SUBSET {<<97>>, <<98>>} :
    LET c == Scp!CreateDirectories(paths, refused) IN
    /\ IsPrefix(c.made, paths)
    /\ \A i \in DOMAIN c.made : c.made[i] \notin refused \union {<<0>>}
    /\ c.ok <=> c.made = paths

---------------------------------------------------------------------------
\* FileTree on every short path and every small tree, against what paths and trees are: lists of
\* names, and the paths below a path. Whatever a transfer is given, parents come before
\* children, nothing leaves its destination, and a tree that goes up and comes down again is the
\* same.

LOCAL Tree == INSTANCE FileTree WITH None <- NoPath

LOCAL A == <<97>>
LOCAL B == <<98>>

\* Lists of names, and how the server writes them.
LOCAL Lists == SeqOf({A, B, A \o B}, 3)
LOCAL Absolute(names) ==
  IF names = <<>> THEN <<47>> ELSE FlattenSeq([i \in DOMAIN names |-> <<47>> \o names[i]])

\* On the paths a server names, the functions of remote_path.rs are those on lists of names:
\* the parent, the last name, what is below and what leads there.
ASSUME PathsAreListsOfNames ==
  \A names \in Lists :
    LET path == Absolute(names) IN
    /\ Tree!RemoteParentPath(path) = IF names = <<>> THEN NoPath ELSE Absolute(Front(names))
    /\ names # <<>> => \A p \in {path, path \o <<47>>} :
         Tree!RemoteFileName(p) = Last(names) /\ Tree!RemoteParentPath(p) = Absolute(Front(names))
    /\ \A name \in {A, B} : Tree!RemoteJoinPath(path, name) = Absolute(Append(names, name))
    /\ Tree!RemotePathDepth(path) = Len(names)
    /\ \A others \in Lists :
         LET relative == Tree!RemoteRelativePath(path, Absolute(others)) IN
         /\ Tree!RemotePathIsDescendant(path, Absolute(others)) <=> IsStrictPrefix(names, others)
         /\ relative # NoPath <=> IsPrefix(names, others)
         /\ relative # NoPath =>
              Tree!JoinRemoteRelative(<<"d">>, relative) =
                <<"d">> \o SubSeq(others, Len(names) + 1, Len(others))
    /\ Tree!RemoteBreadcrumbs(path) = [i \in 1..Len(names) + 1 |-> Absolute(SubSeq(names, 1, i - 1))]

\* Whatever a server writes, with dots and slashes anywhere, the local path begins with the
\* destination and goes down only (remote_path.rs:43).
ASSUME NothingLeavesTheDestination ==
  \A root, path \in SeqOf({47, 46, 97}, 4) :
    LET relative == Tree!RemoteRelativePath(root, path)
        joined == Tree!JoinRemoteRelative(<<A>>, relative) IN
    relative # NoPath =>
      /\ IsPrefix(<<A>>, joined)
      /\ \A i \in DOMAIN joined : joined[i] \notin {<<>>, <<46>>, <<46, 46>>}
      /\ \A i \in DOMAIN joined : \A j \in DOMAIN joined[i] : joined[i][j] # 47

\* A selection without what is below a selected directory loses nothing and downloads
\* nothing twice (state.rs:924).
ASSUME SelectionIsDisjoint ==
  \A chosen \in SUBSET {Absolute(names) : names \in SeqOf({A, B}, 2) \ {<<>>}} :
    \A kinds \in [chosen -> {"Directory", "File"}] :
      LET kept == Tree!CollapseNestedRemoteEntries(kinds)
          Covers(one, other) == one = other \/
            (kinds[one] = "Directory" /\ IsStrictPrefix(one \o <<47>>, other))
      IN /\ \A path \in chosen : \E one \in kept : Covers(one, path)
         /\ \A one, other \in kept : Covers(one, other) => one = other

---------------------------------------------------------------------------
\* Trees of files below "a" and "b".

LOCAL Places == {<<A>>, <<B>>, <<A, A>>, <<A, B>>, <<A, A, B>>}
LOCAL WellFormed(fs) == \A p \in DOMAIN fs : Len(p) > 1 => fs[Front(p)] = "Directory"
LOCAL Parts(places) == {d \in SUBSET places : \A p \in d : Len(p) > 1 => Front(p) \in d}
LOCAL LocalTrees ==
  UNION {{fs \in [d -> {"Directory", "File", "Link"}] : WellFormed(fs)} : d \in Parts(Places)}

LOCAL Home == Absolute(<<B>>)
LOCAL Server == [p \in {<<47>>, Home} |-> "Directory"]
LOCAL With(fs, files) == [p \in DOMAIN fs \union files |-> IF p \in files THEN "File" ELSE fs[p]]
LOCAL OfKind(fs, kind) == {p \in DOMAIN fs : fs[p] = kind}

LOCAL Selections(fs) ==
  {SetToSeq(chosen) : chosen \in SUBSET (DOMAIN fs \intersect {<<A>>, <<B>>})}

\* An upload of whole directories: each directory can be made when its turn comes, each file
\* has its directory by then, and what there is on the server is what was selected, links
\* left out (plan.rs:14, sftp.rs:623).
ASSUME UploadCopiesTheTree ==
  \A fs \in LocalTrees : \A selected \in Selections(fs) :
    LET plan == Tree!BuildLocalUploadPlan(fs, selected, Home)
        made == Tree!CreateDirectories(Server, Range(plan.directories))
        chosen == {p \in DOMAIN fs : \E i \in DOMAIN selected : IsPrefix(selected[i], p)}
        Remote(p) == Absolute(<<B>> \o p)
    IN /\ ~made.failed
       /\ \A file \in plan.files : Tree!RemoteParentPath(file[2]) \in DOMAIN made.fs
       /\ plan.files = {<<p, Remote(p)>> : p \in chosen \intersect OfKind(fs, "File")}
       /\ OfKind(made.fs, "Directory") \ DOMAIN Server =
            {Remote(p) : p \in chosen \intersect OfKind(fs, "Directory")}

\* What went up comes down: the tree of the uploaded directory, downloaded, has the
\* directories and files it had, at the same places (plan.rs:14, :69, sftp.rs:562).
ASSUME UploadThenDownload ==
  \A fs \in {t \in LocalTrees : <<A>> \in DOMAIN t /\ t[<<A>>] = "Directory"} :
    LET plan == Tree!BuildLocalUploadPlan(fs, <<<<A>>>>, Home)
        made == Tree!CreateDirectories(Server, Range(plan.directories))
        server == With(made.fs, {file[2] : file \in plan.files})
        tree == Tree!ReadDirectoryTree(server, Absolute(<<B, A>>))
        back == Tree!BuildRemoteDownloadPlan(tree, <<A>>)
        below == {p \in DOMAIN fs : IsStrictPrefix(<<A>>, p)}
    IN /\ ~back.failed
       /\ back.directories = below \intersect OfKind(fs, "Directory")
       /\ {file[1] : file \in back.files} = below \intersect OfKind(fs, "File")

\* Two selected files of one name have one place on the server: the plan takes one of them,
\* and no place twice (plan.rs:58).
ASSUME OneFileForOnePlace ==
  \A selected \in SeqOf({<<A, B>>, <<B, B>>, <<B>>}, 3) :
    LET fs == [p \in {<<A>>, <<A, B>>, <<B>>, <<B, B>>} |-> IF Len(p) = 1 /\ p # <<B>>
                                                            THEN "Directory" ELSE "File"]
        files == Tree!BuildLocalUploadPlan(fs, selected, Home).files
    IN /\ \A one, other \in files : one[2] = other[2] => one = other
       /\ {file[2] : file \in files} = {Absolute(<<B, Last(selected[i])>>) : i \in DOMAIN selected}

---------------------------------------------------------------------------
\* The remote side: what can already be there.

LOCAL Spots == {Absolute(<<A>>), Absolute(<<B>>), Absolute(<<A, A>>), Absolute(<<A, B>>)}
LOCAL Up(path) == IF Len(path) = 2 THEN <<47>> ELSE SubSeq(path, 1, Len(path) - 2)
LOCAL RemoteTrees ==
  {fs \in UNION {[d \union {<<47>>} -> {"Directory", "File", "Link", "Dangling"}] : d \in SUBSET Spots} :
     fs[<<47>>] = "Directory" /\
       \A p \in DOMAIN fs \ {<<47>>} : Up(p) \in DOMAIN fs /\ fs[Up(p)] = "Directory"}

\* The tree of a directory is what is below it, parents first and links left out
\* (sftp.rs:562).
ASSUME TreeIsWhatIsBelow ==
  \A fs \in RemoteTrees :
    LET tree == Tree!ReadDirectoryTree(fs, Absolute(<<A>>))
        below == {p \in DOMAIN fs : IsPrefix(Absolute(<<A>>) \o <<47>>, p)} IN
    /\ Range(tree.directories) = below \intersect OfKind(fs, "Directory")
    /\ tree.files = below \intersect OfKind(fs, "File")
    /\ \A i, j \in DOMAIN tree.directories :
         IsStrictPrefix(tree.directories[i], tree.directories[j]) => i < j

\* Directories are made from the top down and none over something else; what was there stays
\* (sftp.rs:623).
ASSUME DirectoriesFromTheTop ==
  \A fs \in RemoteTrees, paths \in SUBSET Spots :
    LET made == Tree!CreateDirectories(fs, paths) IN
    /\ \A i \in DOMAIN made.made : made.made[i] \notin DOMAIN fs
    /\ \A p \in DOMAIN fs : made.fs[p] = fs[p]
    /\ ~made.failed <=> \A p \in paths :
         /\ p \notin DOMAIN fs \/ fs[p] = "Directory"
         /\ p \notin DOMAIN fs =>
              Up(p) \in paths \/ (Up(p) \in DOMAIN fs /\ fs[Up(p)] \in {"Directory", "Link"})

\* A removal takes exactly what is below the path, follows no link, never the root, and
\* empties a directory before it removes it (sftp.rs:657).
ASSUME RemovalTakesTheSubtree ==
  \A fs \in RemoteTrees : \A path \in Spots \union {<<47>>} :
    LET s == Tree!DeletePaths(fs, <<path>>)
        subtree == {p \in DOMAIN fs : p = path \/ IsPrefix(path \o <<47>>, p)} IN
    /\ s.failed <=> path = <<47>> \/ path \notin DOMAIN fs \/ fs[path] = "Dangling"
    /\ ~s.failed => DOMAIN s.fs = DOMAIN fs \ subtree
    /\ s.failed => s.fs = fs
    /\ \A i, j \in DOMAIN s.removed : i < j => ~IsPrefix(s.removed[i] \o <<47>>, s.removed[j])

---------------------------------------------------------------------------
\* The segments of a file are the file: none is empty, each begins where the last ended, and
\* there are several only for a file longer than one segment has to be (sftp.rs:519).
ASSUME SegmentsAreTheFile ==
  \A total \in 0..40, minimum \in 1..5, streams \in 1..4 :
    LET ranges == Tree!DownloadSegmentRanges(total, minimum, streams) IN
    /\ total = 0 <=> ranges = <<>>
    /\ Len(ranges) <= streams
    /\ total > 0 => ranges[1][1] = 0 /\ ranges[Len(ranges)][2] = total
    /\ \A i \in DOMAIN ranges : ranges[i][1] < ranges[i][2]
    /\ \A i \in 2..Len(ranges) : ranges[i][1] = ranges[i - 1][2]
    /\ Len(ranges) > 1 => total > minimum
=============================================================================
