----------------------------- MODULE FileBrowser -----------------------------
(***************************************************************************)
(* The two lists of remote files of a session, the one of the Files view   *)
(* and the one beside the terminal (FileList, and the operations around it *)
(* in sftp/operations.rs), and the connection that answers them one        *)
(* request after the other.                                                *)
(*                                                                         *)
(* A list waits for one directory at a time and drops every other answer,  *)
(* while directories opened inside it and directories that are being       *)
(* downloaded have requests of their own. An error is shown until its own  *)
(* timer ends. Both lists hear of what was deleted through either.         *)
(*                                                                         *)
(* The open file of the Files view is in RemoteEditor, the transfers       *)
(* themselves in TransferQueue.                                            *)
(***************************************************************************)
EXTENDS FileList

CONSTANTS
  Clicks,        \* what may be held while a row is clicked: <<shift, secondary key>>
  MaxRequests    \* bound: placement |-> requests of its list, half the generations of its error

Placements == {"Center", "Sidebar"}

VARIABLES
  browsers,     \* placement |-> the list
  connection,   \* "Connected", "Ended" (the window has not heard of it), "Disconnected"
  sent,         \* requests the connection has not carried out
  events,       \* its answers the window has not handled
  exists,       \* the paths there are on the server
  timers,       \* <<placement, generation>>: timers that will end
  partial       \* history: a removal failed after it had begun

vars == <<browsers, connection, sent, events, exists, timers, partial>>

Listing(directory) == SelectSeq(Order, LAMBDA p : p \in exists /\ Parent[p] = directory)

Init ==
  /\ browsers = [p \in Placements |-> NewBrowser]
  /\ connection = "Connected" /\ sent = <<>> /\ events = <<>>
  /\ exists = Paths /\ timers = {} /\ partial = FALSE

-----------------------------------------------------------------------------
(* Requests.  One that cannot be sent fails at once.                       *)

Placed(p, b) == [browsers EXCEPT ![p] = b]
Timed(p, b) == timers \union {<<p, b.generation>>}

Request(op, p, id, paths) == [op |-> op, placement |-> p, id |-> id, paths |-> paths]

\* Of a list that has a request with id in it, and what becomes of it if that cannot be sent.
Ask(p, b, op, id, paths, failed) ==
  IF connection = "Connected"
  THEN /\ browsers' = Placed(p, b) /\ sent' = Append(sent, Request(op, p, id, paths))
       /\ UNCHANGED timers
  ELSE browsers' = Placed(p, failed) /\ timers' = Timed(p, failed) /\ UNCHANGED sent

\* Wrong: a list that cannot ask goes on waiting.
RequestOrWait(p, b, path) ==
  LET asking == BeginRequest(b, path) IN
  Ask(p, asking, "Read", b.next, {path}, SetError(asking))

\* request_sftp_directory
RequestDirectory(p, b, path) ==
  LET asking == BeginRequest(b, path)
      refused == SetError([b EXCEPT !.loading = FALSE])
  IN IF connection = "Disconnected"
     THEN browsers' = Placed(p, refused) /\ timers' = Timed(p, refused) /\ UNCHANGED sent
     ELSE Ask(p, asking, "Read", b.next, {path}, FailRequest(asking, b.next))

Bounded(p) ==
  browsers[p].next <= MaxRequests[p] /\ browsers[p].generation < 2 * MaxRequests[p]

Open(p, path) ==
  LET b == browsers[p] IN
  /\ Bounded(p)
  /\ path \in Directories
  /\ path \in {b.path, Home} \union Known(b) \/ (b.path # Home /\ path = Parent[b.path])
  /\ RequestDirectory(p, b, path)
  /\ UNCHANGED <<connection, events, exists, partial>>

\* ensure_sftp_directory
Show(p) ==
  /\ Bounded(p)
  /\ NeedsRequest(browsers[p], Home)
  /\ RequestDirectory(p, browsers[p], Home)
  /\ UNCHANGED <<connection, events, exists, partial>>

\* toggle_remote_tree_directory: closed, opened with what is known, or asked for.
Toggle(path) ==
  LET b == browsers["Sidebar"]
      asking == BeginTreeRequest(b, path) IN
  /\ path \in Directories \intersect Range(VisibleRows(b, TRUE))
  /\ CASE path \in b.expanded ->
            browsers' = Placed("Sidebar", [b EXCEPT !.expanded = @ \ {path}])
            /\ UNCHANGED <<sent, timers>>
       [] path \notin b.expanded /\ path \in DOMAIN b.tree ->
            browsers' = Placed("Sidebar", [b EXCEPT !.expanded = @ \union {path}])
            /\ UNCHANGED <<sent, timers>>
       [] OTHER ->
            /\ Bounded("Sidebar") /\ connection # "Disconnected"
            /\ Ask("Sidebar", asking, "Read", b.next, {path}, FailRequest(asking, b.next))
  /\ UNCHANGED <<connection, events, exists, partial>>

Select(p, path, shift, secondary) ==
  LET b == browsers[p] IN
  /\ path \in Range(VisibleRows(b, p = "Sidebar"))
  /\ browsers' = Placed(p, SelectPath(b, path, shift, secondary, p = "Sidebar"))
  /\ UNCHANGED <<connection, sent, events, exists, timers, partial>>

SelectForMenu(p, path) ==
  LET b == browsers[p] IN
  /\ path \in Range(VisibleRows(b, p = "Sidebar"))
  /\ browsers' = Placed(p, SelectForContextMenu(b, path))
  /\ UNCHANGED <<connection, sent, events, exists, timers, partial>>

Collapsed(paths) == {q \in paths : ~\E d \in paths \intersect Directories : q \in Below(d)}

\* delete_selected_sftp_entries, for the paths the question was about.
Delete(p) ==
  LET b == browsers[p]
      asked == [b EXCEPT !.next = @ + 1] IN
  /\ Bounded(p) /\ connection # "Disconnected" /\ SelectedEntries(b) # <<>>
  /\ Ask(p, asked, "Delete", b.next, Collapsed(Range(SelectedEntries(b))), SetError(asked))
  /\ UNCHANGED <<connection, events, exists, partial>>

\* choose_sftp_downloads of one directory; its files follow when its tree is known.
Download(p) ==
  LET b == browsers[p]
      asking == BeginDownloadTree(b)
      chosen == Collapsed(Range(SelectedEntries(b))) \intersect Directories IN
  /\ Bounded(p) /\ connection # "Disconnected"
  /\ \E directory \in chosen :
       Ask(p, asking, "ReadTree", b.next, {directory}, FailRequest(asking, b.next))
  /\ UNCHANGED <<connection, events, exists, partial>>

\* submit_sftp_create; a refused one is told in its prompt.
Create(p, path) ==
  LET b == browsers[p]
      asked == [b EXCEPT !.next = @ + 1] IN
  /\ Bounded(p) /\ connection = "Connected"
  /\ path \in Paths \ (exists \union {Home}) /\ Parent[path] = b.path
  /\ Ask(p, asked, "Create", b.next, {path}, asked)
  /\ UNCHANGED <<connection, events, exists, partial>>

TimerEnds(p, generation) ==
  /\ <<p, generation>> \in timers
  /\ timers' = timers \ {<<p, generation>>}
  /\ browsers' = Placed(p, ClearErrorIfCurrent(browsers[p], generation))
  /\ UNCHANGED <<connection, sent, events, exists, partial>>

-----------------------------------------------------------------------------
(* The connection, one request after the other.                            *)

Answer(op, request, paths, entries) ==
  [op |-> op, placement |-> request.placement, id |-> request.id, paths |-> paths,
   entries |-> entries, read |-> request.op \in {"Read", "ReadTree"}]

Serves(op) == connection = "Connected" /\ sent # <<>> /\ Head(sent).op \in op
Replies(answer) == sent' = Tail(sent) /\ events' = Append(events, answer)

ReadRequested ==
  /\ Serves({"Read", "ReadTree"})
  /\ \E path \in Head(sent).paths \intersect exists :
       Replies(Answer(Head(sent).op, Head(sent), {path},
                      IF Head(sent).op = "Read" THEN Listing(path) ELSE <<>>))
  /\ UNCHANGED <<browsers, connection, exists, timers, partial>>

\* Every path is gone with what is below it.
DeleteRequested ==
  /\ Serves({"Delete"}) /\ Head(sent).paths \subseteq exists
  /\ exists' = {p \in exists : ~\E d \in Head(sent).paths : p = d \/ p \in Below(d)}
  /\ Replies(Answer("Deleted", Head(sent), Head(sent).paths, <<>>))
  /\ UNCHANGED <<browsers, connection, timers, partial>>

\* A removal that ends half-way: a part is gone, a directory only with what is in it.
DeleteHalfway ==
  /\ Serves({"Delete"})
  /\ \E gone \in SUBSET {p \in exists : \E d \in Head(sent).paths : p = d \/ p \in Below(d)} :
       /\ \A d \in gone \intersect Directories : Below(d) \intersect exists \subseteq gone
       /\ exists' = exists \ gone
       /\ partial' = (partial \/ gone # {})
  /\ Replies(Answer("Failed", Head(sent), {}, <<>>))
  /\ UNCHANGED <<browsers, connection, timers>>

CreateRequested ==
  /\ Serves({"Create"})
  /\ \A p \in Head(sent).paths : p \notin exists /\ Parent[p] \in exists
  /\ exists' = exists \union Head(sent).paths
  /\ Replies(Answer("Created", Head(sent), Head(sent).paths, <<>>))
  /\ UNCHANGED <<browsers, connection, timers, partial>>

FailRequested ==
  /\ Serves({"Read", "ReadTree", "Create"})
  /\ Replies(Answer("Failed", Head(sent), {}, <<>>))
  /\ UNCHANGED <<browsers, connection, exists, timers, partial>>

Ends ==
  /\ connection = "Connected"
  /\ connection' = "Ended" /\ sent' = <<>>
  /\ events' = Append(events, [op |-> "Disconnected"])
  /\ UNCHANGED <<browsers, exists, timers, partial>>

-----------------------------------------------------------------------------
(* The window handles the answers in their order.                          *)

Hears(op) == events # <<>> /\ Head(events).op = op /\ events' = Tail(events)

HearDirectory ==
  LET e == Head(events) IN
  /\ Hears("Read")
  /\ \E path \in e.paths :
       browsers' = Placed(e.placement,
                          CompleteRequest(browsers[e.placement], e.id, path, e.entries))
  /\ UNCHANGED <<connection, sent, exists, timers, partial>>

\* complete_directory_tree_download
HearTree ==
  LET e == Head(events) IN
  /\ Hears("ReadTree")
  /\ browsers' = Placed(e.placement, [browsers[e.placement] EXCEPT !.downloads = @ \ {e.id}])
  /\ UNCHANGED <<connection, sent, exists, timers, partial>>

\* A failed removal or creation is shown, a failed read belongs to its request.
HearFailure ==
  LET e == Head(events)
      b == browsers[e.placement]
      failed == IF e.read THEN FailRequest(b, e.id) ELSE SetError(b) IN
  /\ Hears("Failed")
  /\ browsers' = Placed(e.placement, failed)
  /\ timers' = IF failed = b THEN timers ELSE Timed(e.placement, failed)
  /\ UNCHANGED <<connection, sent, exists, partial>>

\* A list is asked for again when something was created or deleted through it.
Refresh(placement, lists) ==
  LET b == lists[placement]
      asking == BeginRequest(b, b.path)
      left == IF connection = "Connected" THEN asking ELSE FailRequest(asking, b.next) IN
  /\ browsers' = [lists EXCEPT ![placement] = left]
  /\ IF connection = "Connected"
     THEN sent' = Append(sent, Request("Read", placement, b.next, {b.path})) /\ UNCHANGED timers
     ELSE UNCHANGED sent /\ timers' = Timed(placement, left)

HearCreated ==
  /\ Hears("Created")
  /\ Refresh(Head(events).placement, browsers)
  /\ UNCHANGED <<connection, exists, partial>>

HearDeleted ==
  LET e == Head(events) IN
  /\ Hears("Deleted")
  /\ Refresh(e.placement, [p \in Placements |-> RemovePaths(browsers[p], e.paths)])
  /\ UNCHANGED <<connection, exists, partial>>

HearDisconnected ==
  /\ Hears("Disconnected")
  /\ connection' = "Disconnected"
  /\ browsers' = [p \in Placements |-> StopLoading(browsers[p])]
  /\ UNCHANGED <<sent, exists, timers, partial>>

Reconnect ==
  /\ connection = "Disconnected"
  /\ connection' = "Connected"
  /\ UNCHANGED <<browsers, sent, events, exists, timers, partial>>

-----------------------------------------------------------------------------
User ==
  \/ \E p \in Placements, path \in Paths :
       \/ Open(p, path) \/ SelectForMenu(p, path) \/ Create(p, path)
       \/ \E keys \in Clicks : Select(p, path, keys[1], keys[2])
  \/ \E p \in Placements : Show(p) \/ Delete(p) \/ Download(p)
  \/ \E path \in Paths : Toggle(path)
  \/ Reconnect

Worker ==
  ReadRequested \/ DeleteRequested \/ DeleteHalfway \/ CreateRequested \/ FailRequested \/ Ends

Window ==
  \/ HearDirectory \/ HearTree \/ HearFailure \/ HearCreated \/ HearDeleted \/ HearDisconnected
  \/ \E timer \in timers : TimerEnds(timer[1], timer[2])

Next == User \/ Worker \/ Window

Spec == Init /\ [][Next]_vars

-----------------------------------------------------------------------------
Messages == Range(sent) \union {e \in Range(events) : e.op # "Disconnected"}
Told == \E e \in Range(events) : e.op = "Disconnected"

\* A list that waits for its directory is a list with a request the connection has, or whose
\* answer or end is on its way: no list waits for ever (request_sftp_directory, stop_loading).
LoadingIsAnswered ==
  \A p \in Placements :
    LET b == browsers[p] IN
    /\ b.loading => b.active # {}
    /\ b.active # {} => Told \/ \E m \in Messages : m.placement = p /\ m.id \in b.active

\* The directory a list has for loaded, and will not ask for again, is the one it shows, also
\* when answers come for directories it no longer waits for (complete_request, needs_request).
LoadedIsShown ==
  \A p \in Placements : browsers[p].resolved \subseteq {browsers[p].path}

\* An error that is shown has a timer that will take it away (schedule_sftp_error_clear).
ErrorIsTimed ==
  \A p \in Placements : browsers[p].error => <<p, browsers[p].generation>> \in timers

\* No row is shown twice, whichever directories are open, however late their answers came.
RowsAreDistinct ==
  \A p \in Placements : IsInjective(VisibleRows(browsers[p], p = "Sidebar"))

Gone(e) == UNION {{g} \union Below(g) : g \in e.paths}

\* What either list shows exists, or the answer that takes it away is on its way - as long as
\* every removal succeeded or failed as a whole: one that fails half-way is told as an
\* error and leaves in the lists what is gone (remove_paths, connection_flow.rs:1533).
ShownExists ==
  ~partial =>
    \A p \in Placements : \A path \in Known(browsers[p]) :
      path \in exists \/ \E e \in Range(events) : e.op = "Deleted" /\ path \in Gone(e)
==============================================================================
