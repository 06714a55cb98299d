------------------------------ MODULE FileList ------------------------------
(***************************************************************************)
(* One list of remote files (SftpBrowserState in sftp/state.rs): the       *)
(* directory it shows or waits for, the directories open inside it, the    *)
(* downloads of whole directories it waits for, its selection and the      *)
(* error it shows. The functions of the code are operators from the record *)
(* they find to the record they leave.                                     *)
(*                                                                         *)
(* A path is a member of Paths, Parent its directory and Order the order   *)
(* of a listing; an Option is a set of at most one element.                *)
(***************************************************************************)
EXTENDS Naturals, Sequences, SequencesExt, Functions

CONSTANTS
  Paths, Directories,   \* the paths of the server, and those that are directories
  Home, Parent,         \* the topmost directory, and the directory of each other path
  Order                 \* all paths but Home, as a listing sorts them

\* What the paths have to be; MCEditorSystem states it of its tree.
PathsAssumption ==
  /\ Home \in Directories /\ Directories \subseteq Paths
  /\ Parent \in [Paths \ {Home} -> Directories]
  /\ Range(Order) \subseteq Paths \ {Home}

\* What is in a directory and in the directories in it: trees are at most that deep.
Below(directory) ==
  {p \in Paths \ {Home} : \/ Parent[p] = directory
                          \/ Parent[p] # Home /\ Parent[Parent[p]] = directory}

NewBrowser ==
  [path |-> Home, entries |-> <<>>, loading |-> FALSE, loaded |-> FALSE, next |-> 1,
   active |-> {}, asked |-> {}, resolved |-> {}, tree |-> <<>>, expanded |-> {},
   requests |-> <<>>, downloads |-> {}, selected |-> <<>>, anchor |-> {},
   error |-> FALSE, generation |-> 0]

Without(f, key) == [k \in DOMAIN f \ {key} |-> f[k]]
With(f, key, value) == [k \in DOMAIN f \union {key} |-> IF k = key THEN value ELSE f[k]]


SetError(b) == [b EXCEPT !.error = TRUE, !.generation = @ + 1]
ClearError(b) == [b EXCEPT !.error = FALSE, !.generation = @ + 1]

\* Wrong: a timer clears whatever error there is.
ClearAnyError(b, generation) == IF b.error THEN ClearError(b) ELSE b

ClearErrorIfCurrent(b, generation) ==
  IF b.error /\ b.generation = generation THEN ClearError(b) ELSE b

NeedsRequest(b, path) == b.asked # {path} /\ b.resolved # {path}

BeginRequest(b, path) ==
  [ClearError(b) EXCEPT !.active = {b.next}, !.next = @ + 1, !.asked = {path}, !.loading = TRUE,
                        !.tree = <<>>, !.expanded = {}, !.requests = <<>>,
                        !.selected = <<>>, !.anchor = {}]

\* Wrong: any answer fills the list.
CompleteAnyRequest(b, id, path, entries) ==
  [ClearError(b) EXCEPT !.path = path, !.entries = entries, !.loading = FALSE, !.loaded = TRUE,
                        !.active = {}, !.resolved = b.asked, !.asked = {}]

CompleteRequest(b, id, path, entries) ==
  CASE id \in DOMAIN b.requests ->
         [ClearError(b) EXCEPT !.requests = Without(@, id), !.tree = With(@, path, entries),
                               !.expanded = (@ \ {b.requests[id]}) \union {path}]
    [] id \notin DOMAIN b.requests /\ id \in b.active ->
         [ClearError(b) EXCEPT !.path = path, !.entries = entries, !.loading = FALSE,
                               !.loaded = TRUE, !.active = {}, !.resolved = b.asked, !.asked = {}]
    [] OTHER -> b

FailRequest(b, id) ==
  CASE id \in DOMAIN b.requests ->
         [SetError(b) EXCEPT !.requests = Without(@, id), !.expanded = @ \ {b.requests[id]}]
    [] id \notin DOMAIN b.requests /\ id \in b.downloads ->
         [SetError(b) EXCEPT !.downloads = @ \ {id}]
    [] id \notin DOMAIN b.requests \union b.downloads /\ id \in b.active ->
         [SetError(b) EXCEPT !.loading = FALSE, !.active = {}, !.asked = {}, !.requests = <<>>,
                             !.downloads = {}]
    [] OTHER -> b

StopLoading(b) == [b EXCEPT !.loading = FALSE, !.active = {}, !.asked = {}]

BeginTreeRequest(b, path) ==
  [ClearError(b) EXCEPT !.requests = With(@, b.next, path), !.next = @ + 1,
                        !.expanded = @ \union {path}]

BeginDownloadTree(b) == [b EXCEPT !.downloads = @ \union {b.next}, !.next = @ + 1]

\* The rows shown: behind an open directory whose entries are there come its entries.
RowStep(b, w, step) ==
  IF w.pending = <<>> THEN w
  ELSE LET row == Head(w.pending)
           children == IF row \in b.expanded /\ row \in DOMAIN b.tree THEN b.tree[row] ELSE <<>>
       IN [rows |-> Append(w.rows, row), pending |-> children \o Tail(w.pending)]

VisibleRows(b, tree) ==
  IF ~tree THEN b.entries
  ELSE LET Step(w, i) == RowStep(b, w, i)
           most == 2 * Len(Order)
       IN FoldLeft(Step, [rows |-> <<>>, pending |-> b.entries], [i \in 1..most |-> i]).rows

Known(b) == Range(b.entries) \union UNION {Range(b.tree[p]) : p \in DOMAIN b.tree}

Place(rows, path) == CHOOSE i \in DOMAIN rows : rows[i] = path

\* Shift takes the rows from the anchor on, the secondary key adds or takes away.
SelectPath(b, path, shift, secondary, tree) ==
  LET rows == VisibleRows(b, tree)
      clicked == Place(rows, path)
      anchors == {i \in DOMAIN rows : rows[i] \in b.anchor}
      anchor == IF anchors = {} THEN clicked ELSE CHOOSE i \in anchors : TRUE
      range == IF anchor <= clicked THEN SubSeq(rows, anchor, clicked)
               ELSE SubSeq(rows, clicked, anchor)
      before == IF secondary THEN b.selected ELSE <<>>
  IN CASE path \notin Range(rows) -> b
       [] path \in Range(rows) /\ shift ->
            [b EXCEPT !.selected = before \o SelectSeq(range, LAMBDA p : p \notin Range(before))]
       [] path \in Range(rows) /\ ~shift /\ secondary ->
            [b EXCEPT !.selected = IF path \in Range(@) THEN SelectSeq(@, LAMBDA p : p # path)
                                   ELSE Append(@, path), !.anchor = {path}]
       [] OTHER -> [b EXCEPT !.selected = <<path>>, !.anchor = {path}]

SelectForContextMenu(b, path) ==
  IF path \in Range(b.selected) THEN b ELSE [b EXCEPT !.selected = <<path>>, !.anchor = {path}]

SelectedEntries(b) == SelectSeq(b.selected, LAMBDA p : p \in Known(b))

\* Wrong: only the list itself forgets what was deleted, not what is open inside it.
RemoveFromList(b, gone) ==
  [b EXCEPT !.selected = SelectSeq(@, LAMBDA p : p \notin gone),
            !.entries = SelectSeq(@, LAMBDA p : ~\E g \in gone : p = g \/ p \in Below(g))]

RemovePaths(b, gone) ==
  LET Deleted(p) == \E g \in gone : p = g \/ p \in Below(g)
      kept == {p \in DOMAIN b.tree : ~Deleted(p)} IN
  [b EXCEPT !.selected = SelectSeq(@, LAMBDA p : p \notin gone),
            !.tree = [p \in kept |-> SelectSeq(@[p], LAMBDA q : ~Deleted(q))],
            !.entries = SelectSeq(@, LAMBDA p : ~Deleted(p))]
=============================================================================
