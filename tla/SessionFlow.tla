---------------------------- MODULE SessionFlow ----------------------------
(***************************************************************************)
(* How the window gets from "connect" to a running connection and back:    *)
(* connection_flow.rs, with the sessions and panes of workspace.rs.        *)
(*                                                                         *)
(* A connection needs secrets: for its proxy, for each jump host and for   *)
(* the target.  The window prepares one connection at a time: it looks     *)
(* each secret up in the system keychain, on another thread, and asks the  *)
(* user for what it does not find.  Several sessions share that one        *)
(* preparation, its one lookup, its one prompt and the one approval dialog *)
(* of a proxy command, while the connections of the others succeed, fail   *)
(* and end on their own.                                                   *)
(*                                                                         *)
(* The window's state is one record, app, and the functions of the code    *)
(* are operators from the record they find to the record they leave, so    *)
(* that a handler is the composition of the calls it makes.  An Option is  *)
(* a set of at most one element.                                           *)
(***************************************************************************)
EXTENDS Naturals, Sequences

CONSTANTS
  Sessions,        \* the session ids, each used once
  Profiles,        \* the profile ids
  Auth,            \* the credential the authentication of a profile takes, or "None"
  Proxy,           \* the credential the upstream proxy of a profile takes, or "None"
  Jumps,           \* the jump hosts of a profile, in order
  Values,          \* what a secret may be; for a proxy command, its text
  Right,           \* the secret the server or the proxy takes
  Typed,           \* what the user types: a secret, and whether it is to be remembered
  Keychains,       \* the contents the keychain may start with
  MaxRequests      \* bound: the connections prepared and the profiles edited

Kinds == {"Password", "PrivateKeyPassphrase", "ProxyPassword", "ProxyCommand"}
Items == Profiles \X Kinds

\* A session is opened for a profile: without one there is nothing to connect.
ASSUME ProfilesAssumption == Profiles # {}
ASSUME AuthAssumption ==
  Auth \in [Profiles -> {"None", "Password", "PrivateKeyPassphrase"}]
ASSUME ProxyAssumption == Proxy \in [Profiles -> {"None", "ProxyPassword", "ProxyCommand"}]
ASSUME JumpsAssumption == Jumps \in [Profiles -> Seq(Profiles)]
ASSUME ValuesAssumption == Right \in Values /\ "none" \notin Values
ASSUME TypedAssumption == Typed \subseteq Values \X BOOLEAN
ASSUME KeychainsAssumption == Keychains \subseteq [Items -> Values \cup {"none"}]
ASSUME BoundsAssumption == MaxRequests \in Nat

VARIABLES
  app,        \* the window
  keychain,   \* the secrets stored in the system keychain
  disk,       \* the approved commands, as the profile file has them
  consent,    \* history: the commands the user has approved
  requests    \* history: how many connections were prepared and profiles edited

vars == <<app, keychain, disk, consent, requests>>

States ==
  {"Disconnected", "Connecting", "Authenticating", "Connected", "Disconnecting", "Failed"}
CanConnect == {"Disconnected", "Failed"}
CanDisconnect == {"Connecting", "Authenticating", "Connected"}

(***************************************************************************)
(* What the steps of a connection to a profile need, in the order they are *)
(* prepared and used: its proxy, if that takes a secret, its jump hosts    *)
(* and the profile itself.  The routes of the jump hosts are not followed. *)
(***************************************************************************)
Needs(p) ==
  LET hops == Append(Jumps[p], p)
  IN  (IF Proxy[p] = "None" THEN <<>> ELSE <<<<p, Proxy[p]>>>>)
        \o [i \in DOMAIN hops |-> <<hops[i], Auth[hops[i]]>>]

\* ConnectionPlan::validate, for what a saved profile may get wrong.
ValidPlan(p) ==
  /\ ~(Proxy[p] = "ProxyCommand" /\ Jumps[p] # <<>>)
  /\ \A i \in DOMAIN Jumps[p] : Jumps[p][i] # p
  /\ \A i, j \in DOMAIN Jumps[p] : Jumps[p][i] = Jumps[p][j] => i = j

\* The item a preparation is at.
NextNeed(p) == Needs(p.target)[Len(p.secrets) + 1]

\* A preparation goes past the steps that need no secret, to the next that does or the end.
Stops(p, i) == i = Len(Needs(p.target)) + 1 \/ Needs(p.target)[i][2] # "None"
NextStop(p) ==
  CHOOSE i \in (Len(p.secrets) + 1)..(Len(Needs(p.target)) + 1) :
    Stops(p, i) /\ \A j \in (Len(p.secrets) + 1)..(i - 1) : ~Stops(p, j)
PassOver(p) ==
  [p EXCEPT !.secrets =
     [i \in 1..(NextStop(p) - 1) |->
        IF i \in DOMAIN p.secrets THEN p.secrets[i]
        ELSE [item |-> Needs(p.target)[i], value |-> "none"]]]

NewSession(p) ==
  [profile |-> p, state |-> "Disconnected", handle |-> FALSE, closing |-> FALSE,
   credentials |-> {}]
Gone == NewSession(CHOOSE p \in Profiles : TRUE)

(***************************************************************************)
(* Panes and sessions (workspace.rs).  A session has a pane, in some tab,  *)
(* until the user closes it.  Which pane is shown is left open: any of     *)
(* them may be the active one.                                             *)
(***************************************************************************)
RemovePane(a, s) == [a EXCEPT !.panes = @ \ {s}]

OfOthers(slot, s) == {x \in slot : x.session # s}

\* Wrong: the connection that waits for an approval outlives its session.
RemoveSessionKeepingApproval(a, s) ==
  IF s \notin a.open THEN a
  ELSE LET b == RemovePane(a, s) IN
    [b EXCEPT !.open = @ \ {s},
              !.worker[s] = {},
              !.lookup = OfOthers(@, s),
              !.pending = OfOthers(@, s),
              !.prompt = OfOthers(@, s),
              !.session[s] = Gone]

RemoveSession(a, s) ==
  IF s \notin a.open THEN a
  ELSE LET b == RemovePane(a, s) IN
    [b EXCEPT !.open = @ \ {s},
              !.worker[s] = {},
              !.lookup = OfOthers(@, s),
              !.pending = OfOthers(@, s),
              !.approval = OfOthers(@, s),
              !.approving = IF OfOthers(b.approval, s) # b.approval THEN @ \ {s} ELSE @,
              !.prompt = OfOthers(@, s),
              !.session[s] = Gone]

\* Takes the prompt away and nothing else: what was being prepared stays pending.
DismissPrompt(a) ==
  LET b == [a EXCEPT !.prompt = {}]
      paneless == {x.session : x \in a.prompt} \ a.panes
  IN  IF paneless = {} THEN b ELSE RemoveSession(b, CHOOSE s \in paneless : TRUE)

ActivateSession(a, s) == IF s \in a.panes THEN DismissPrompt(a) ELSE a

ActivateInWindow(a, s) ==
  IF s \in a.open THEN ActivateSession([a EXCEPT !.panes = @ \cup {s}], s) ELSE a

(***************************************************************************)
(* The preparation of a connection.                                        *)
(***************************************************************************)
OpenPrompt(a, s, item) ==
  [DismissPrompt(a) EXCEPT !.prompt = {[session |-> s, item |-> item]}]

Lookup(a, s, item) ==
  [a EXCEPT !.lookup = {[session |-> s, item |-> item, purpose |-> "Lookup"]}]

\* A new connection of the session, with what was prepared for it.
Start(a, p) ==
  LET b == DismissPrompt(a) IN
    IF p.session \notin b.open THEN b
    ELSE [b EXCEPT
           !.lookup = {},
           !.worker[p.session] =
              {[target |-> p.target, secrets |-> p.secrets, digest |-> p.digest, at |-> 1]},
           !.session[p.session] = [@ EXCEPT
              !.state = "Connecting", !.handle = TRUE, !.closing = FALSE,
              !.credentials = p.credentials]]

\* Wrong: any approval of the profile's command counts, whatever its text was.
ApprovedAtAll(p) == p.digest # "none"

Approved(p) == p.secrets[1].value = p.digest

FinishPreparation(a, p) ==
  IF ~ValidPlan(p.target) THEN a
  ELSE IF Proxy[p.target] = "ProxyCommand" /\ ~Approved(p)
       THEN [a EXCEPT !.approving = @ \cup {p.session}, !.approval = {p}]
       ELSE Start(a, p)

\* The loop of continue_connection_preparation, up to the next secret it has to wait for.
ContinuePreparation(a) ==
  LET p == PassOver(CHOOSE x \in a.pending : TRUE) IN
    IF a.pending = {} THEN a
    ELSE IF p.session \notin a.open THEN [a EXCEPT !.pending = {}]
    ELSE IF Len(p.secrets) = Len(Needs(p.target))
         THEN FinishPreparation([a EXCEPT !.pending = {}], p)
    ELSE IF NextNeed(p) \in p.forced
         THEN OpenPrompt([a EXCEPT !.pending = {[p EXCEPT !.forced = {}]}], p.session, NextNeed(p))
    ELSE Lookup([a EXCEPT !.pending = {p}], p.session, NextNeed(p))

\* Wrong: the prompt of the preparation that is given up stays on the screen.
BeginKeepingPrompt(a, s, profile, forced) ==
  ContinuePreparation(
    [a EXCEPT !.pending =
       {[session |-> s, target |-> profile, digest |-> a.approved[profile],
         secrets |-> <<>>, credentials |-> {}, forced |-> forced]}])

BeginPreparation(a, s, profile, forced) ==
  ContinuePreparation(
    [DismissPrompt(a) EXCEPT !.pending =
       {[session |-> s, target |-> profile, digest |-> a.approved[profile],
         secrets |-> <<>>, credentials |-> {}, forced |-> forced]}])

\* What connect_profile_in_session checks before it prepares anything.
Free(a, s) ==
  /\ s \in a.open
  /\ a.session[s].state \in CanConnect
  /\ a.lookup = {}
  /\ a.pending = {}
  /\ s \notin a.approving
  /\ \A e \in a.editing : e.profile # a.session[s].profile

ConnectInSession(a, s) ==
  IF Free(a, s)
  THEN BeginPreparation(ActivateInWindow(a, s), s, a.session[s].profile, {})
  ELSE a

\* Wrong: an answer goes to whatever is being prepared.
FitsAnything(a, s, item) == TRUE

\* An answer for a session and an item is for what is being prepared, and for the step it
\* is at: the session is checked when the answer comes and the step when it is used.
Fits(a, s, item) == \E p \in a.pending : p.session = s /\ NextNeed(p) = item

\* accept_preparation_secret and accept_preparation_auth.
AcceptSecret(a, item, value, credentials) ==
  LET p == CHOOSE x \in a.pending : TRUE IN
    IF a.pending = {} THEN a
    ELSE ContinuePreparation([a EXCEPT !.pending =
           {[p EXCEPT !.secrets = Append(@, [item |-> item, value |-> value]),
                      !.credentials = @ \cup credentials]}])

\* A credential remembered until the server has taken it or not.
Credential(item, source, save, value) ==
  [item |-> item, source |-> source, save |-> save, value |-> value]

\* handle_missing_preparation_secret: a key may have no passphrase, a command is given
\* up, and the others are asked for.
MissingSecret(a, s, item, error) ==
  CASE item[2] = "PrivateKeyPassphrase" /\ ~error -> AcceptSecret(a, item, "none", {})
    [] item[2] = "ProxyCommand" -> [a EXCEPT !.pending = {}]
    [] OTHER -> OpenPrompt(a, s, item)

(***************************************************************************)
(* A connection that failed, and what the window does about it.            *)
(***************************************************************************)
\* The prompt for an item can lead a new preparation of the session.
CanRetry(a, s, item) ==
  IF item[2] = "ProxyPassword"
  THEN item[1] = a.session[s].profile /\ Proxy[item[1]] = "ProxyPassword"
  ELSE Auth[item[1]] = item[2]

RetryWithPrompt(a, s, item) ==
  IF s \in a.open /\ CanRetry(a, s, item)
  THEN BeginPreparation(a, s, a.session[s].profile, {item})
  ELSE a

RemoveRejectedThenPrompt(a, s, item) ==
  [a EXCEPT !.lookup = {[session |-> s, item |-> item, purpose |-> "Delete"]},
            !.deleting = @ \cup {item}]

\* Wrong: the secrets of the other hosts stay with the session.
EndKeeping(a, s, state) ==
  [a EXCEPT !.worker[s] = {},
            !.session[s] = [@ EXCEPT !.state = state, !.handle = FALSE]]

End(a, s, state) ==
  [a EXCEPT !.worker[s] = {},
            !.session[s] = [@ EXCEPT !.state = state, !.handle = FALSE, !.credentials = {}]]

\* The event Failed, for an item the other side rejected or (item = {}) any other reason.
HandleFailed(a, s, items) ==
  LET b == End(a, s, "Failed")
      rejected == {c \in a.session[s].credentials : c.item \in items}
      stored == {c.item : c \in {d \in rejected : d.source = "Keychain"}}
      item == CHOOSE x \in items : TRUE
  IN  IF a.session[s].closing THEN RemoveSession(b, s)
      ELSE IF stored # {} THEN RemoveRejectedThenPrompt(b, s, item)
      ELSE IF rejected # {}
              \/ \E x \in items : x[2] \in {"PrivateKeyPassphrase", "ProxyPassword"}
           THEN RetryWithPrompt(b, s, item)
      ELSE b

HandleDisconnected(a, s) ==
  LET b == End(a, s, "Disconnected")
  IN  IF a.session[s].closing THEN RemoveSession(b, s) ELSE b

\* Wrong: one host that took its secret vouches for those of all of them.
SuccessfulOfAll(credentials, profile) == credentials

\* The credentials that are known to be right once a host has let the user in.
Successful(credentials, profile) ==
  {c \in credentials : c.item[1] = profile \/ c.item[2] = "ProxyPassword"}

SaveSuccessful(a, s, profile) ==
  LET successful == Successful(a.session[s].credentials, profile)
  IN  [a EXCEPT !.session[s].credentials = @ \ successful,
                !.saving = @ \cup {<<c.item, c.value>> : c \in {d \in successful : d.save}}]
----------------------------------------------------------------------------
Init ==
  /\ app = [open |-> {}, used |-> {}, panes |-> {},
            session |-> [s \in Sessions |-> Gone],
            worker |-> [s \in Sessions |-> {}],
            pending |-> {}, lookup |-> {}, prompt |-> {}, approval |-> {}, approving |-> {},
            approved |-> [p \in Profiles |-> "none"],
            editing |-> {}, deleting |-> {}, saving |-> {}]
  /\ keychain \in Keychains
  /\ disk = [p \in Profiles |-> "none"]
  /\ consent = {}
  /\ requests = 0

\* A step that leaves the stores as they are.
InMemory(a) ==
  /\ app' = a
  /\ UNCHANGED <<keychain, disk, consent>>

Quietly(a) == InMemory(a) /\ UNCHANGED requests

(***************************************************************************)
(* The user.  A request to connect counts when it is not refused.  The     *)
(* last event of a connection has been handled before the user asks for    *)
(* the next one in the same session.                                       *)
(***************************************************************************)
Ask(a, s) ==
  /\ requests < MaxRequests
  /\ a.worker[s] = {}
  /\ requests' = requests + (IF Free(a, s) THEN 1 ELSE 0)
  /\ InMemory(ConnectInSession(a, s))

NotEdited(profile) == \A e \in app.editing : e.profile # profile

WithSession(a, s, profile) ==
  [a EXCEPT !.open = @ \cup {s}, !.used = @ \cup {s}, !.session[s] = NewSession(profile)]

\* A profile is connected in a new session: from its page, while no session of it is
\* active, or in a new tab.  The session is there even when connect_profile_in_session
\* then refuses to connect it.
ConnectInNewSession(s, profile) ==
  /\ s \notin app.used
  /\ Ask(WithSession(app, s, profile), s)

\* A new pane beside the active one, for another session of the same profile.
SplitActivePane(s) ==
  /\ s \notin app.used
  /\ app.lookup = {}
  /\ \E r \in app.panes \cap app.open :
       /\ NotEdited(app.session[r].profile)
       /\ LET b == WithSession(app, s, app.session[r].profile)
          IN  Ask(ActivateSession([b EXCEPT !.panes = @ \cup {s}], s), s)

Reconnect(s) ==
  /\ s \in app.panes \cap app.open
  /\ Ask(ActivateInWindow(app, s), s)

SubmitSecret(value, remember) ==
  \E p \in app.prompt :
    IF Fits(app, p.session, p.item)
    THEN Quietly(AcceptSecret([app EXCEPT !.prompt = {}], p.item, value,
                              {Credential(p.item, "Prompt", remember, value)}))
    ELSE Quietly(DismissPrompt(app))

CancelCredential ==
  /\ app.prompt # {}
  /\ Quietly(DismissPrompt([app EXCEPT !.pending = {}]))

\* Wrong: the dialog is still there to be answered again.
ApproveKeepingDialog(saved) ==
  \E p \in app.approval :
    LET command == p.secrets[1].value
        b == [app EXCEPT !.approving = @ \ {p.session}]
        c == [b EXCEPT !.approved[p.target] = command]
    IN  /\ consent' = consent \cup {<<p.target, command>>}
        /\ disk' = IF saved THEN c.approved ELSE disk
        /\ app' = IF saved THEN Start(c, [p EXCEPT !.digest = command]) ELSE b
        /\ UNCHANGED <<keychain, requests>>

\* The user approves the command of the dialog; the profiles are saved before it is run.
ApproveProxyCommand(saved) ==
  \E p \in app.approval :
    LET command == p.secrets[1].value
        b == [app EXCEPT !.approval = {}, !.approving = @ \ {p.session}]
        c == [b EXCEPT !.approved[p.target] = command]
    IN  /\ consent' = consent \cup {<<p.target, command>>}
        /\ disk' = IF saved THEN c.approved ELSE disk
        /\ app' = IF saved THEN Start(c, [p EXCEPT !.digest = command]) ELSE b
        /\ UNCHANGED <<keychain, requests>>

CancelApproval ==
  \E p \in app.approval :
    Quietly([app EXCEPT !.approval = {}, !.approving = @ \ {p.session}])

\* The settings, the diagnostics, the import, the start page or the page of a profile is
\* shown in place of the terminals.
ShowPanel == Quietly(DismissPrompt(app))

\* The window asks the worker to end; the worker may have ended already.
Disconnecting(a, s, sent) ==
  IF sent THEN [a EXCEPT !.session[s].state = "Disconnecting"]
  ELSE LET b == [a EXCEPT !.session[s].state = "Failed", !.session[s].handle = FALSE]
       IN  IF a.session[s].closing THEN RemoveSession(b, s) ELSE b

Disconnect(s, sent) ==
  /\ s \in app.open
  /\ app.session[s].state \in CanDisconnect
  /\ sent => app.session[s].handle
  /\ Quietly(Disconnecting(app, s, sent))

CloseTab(s, sent) ==
  /\ s \in app.panes \cap app.open
  /\ sent => app.session[s].handle
  /\ LET b == RemovePane(app, s)
     IN  Quietly(IF app.session[s].state \in CanDisconnect
                 THEN Disconnecting([b EXCEPT !.session[s].closing = TRUE], s, sent)
                 ELSE RemoveSession(b, s))

(***************************************************************************)
(* The profile editor gives a profile another proxy command, not approved  *)
(* yet.  The list of profiles it saves is the one it found when it began.  *)
(***************************************************************************)
BeginEdit(profile, command) ==
  /\ requests < MaxRequests
  /\ Proxy[profile] = "ProxyCommand"
  /\ command # keychain[<<profile, "ProxyCommand">>]
  /\ app.editing = {}
  /\ app' = [app EXCEPT !.editing =
              {[profile |-> profile, command |-> command,
                approved |-> [app.approved EXCEPT ![profile] = "none"]]}]
  /\ requests' = requests + 1
  /\ UNCHANGED <<keychain, disk, consent>>

\* The stores are written when the window hears that they are.
EndEdit(done) ==
  \E e \in app.editing :
    /\ app' = [app EXCEPT !.editing = {}, !.approved = IF done THEN e.approved ELSE @]
    /\ disk' = IF done THEN e.approved ELSE disk
    /\ keychain' = IF done THEN [keychain EXCEPT ![<<e.profile, "ProxyCommand">>] = e.command]
                   ELSE keychain
    /\ UNCHANGED <<consent, requests>>

(***************************************************************************)
(* The keychain, on a thread of its own.  A lookup reads the keychain when *)
(* its answer is delivered.                                                *)
(***************************************************************************)
LookupAnswers(error) ==
  \E l \in app.lookup :
    LET a == [app EXCEPT !.lookup = {}]
        value == keychain[l.item]
    IN  /\ l.purpose = "Lookup"
        /\ Quietly(IF ~Fits(a, l.session, l.item) THEN a
                   ELSE IF error \/ value = "none" THEN MissingSecret(a, l.session, l.item, error)
                   ELSE AcceptSecret(a, l.item, value,
                          IF l.item[2] = "ProxyCommand" THEN {}
                          ELSE {Credential(l.item, "Keychain", FALSE, value)}))

\* The deletion goes on when the task that waits for it is dropped.
KeychainDeletes(item, done) ==
  /\ item \in app.deleting
  /\ keychain' = IF done THEN [keychain EXCEPT ![item] = "none"] ELSE keychain
  /\ app' = [app EXCEPT !.deleting = @ \ {item}]
  /\ UNCHANGED <<disk, consent, requests>>

DeleteAnswers ==
  \E l \in app.lookup :
    /\ l.purpose = "Delete" /\ l.item \notin app.deleting
    /\ requests < MaxRequests
    /\ requests' = requests + 1
    /\ InMemory(RetryWithPrompt([app EXCEPT !.lookup = {}], l.session, l.item))

KeychainSaves(x, done) ==
  /\ x \in app.saving
  /\ keychain' = IF done THEN [keychain EXCEPT ![x[1]] = x[2]] ELSE keychain
  /\ app' = [app EXCEPT !.saving = @ \ {x}]
  /\ UNCHANGED <<disk, consent, requests>>

(***************************************************************************)
(* The connections, as the window hears of them.  A worker that cannot be  *)
(* told to end has nothing left to say but how it ended.                   *)
(***************************************************************************)
Working(s) == {w \in app.worker[s] : app.session[s].handle}

\* The host, the proxy or this computer takes the secret of the item the worker is at.
StepSucceeds(s) ==
  \E w \in Working(s) :
    /\ w.at <= Len(w.secrets)
    /\ LET secret == w.secrets[w.at]
           next == [app EXCEPT !.worker[s] = {[w EXCEPT !.at = @ + 1]}]
       IN  CASE secret.item[2] = "ProxyCommand" ->
                  secret.value = w.digest /\ Quietly(next)
             [] secret.item[2] = "ProxyPassword" ->
                  secret.value = Right /\ Quietly(next)
             [] OTHER ->
                  /\ secret.value \in {Right, "none"}
                  /\ Quietly(SaveSuccessful(
                       [next EXCEPT !.session[s].state = "Authenticating"], s, secret.item[1]))

\* ... or rejects it.  An empty passphrase may do or not: the key may not be encrypted.
StepRejected(s) ==
  \E w \in app.worker[s] :
    /\ w.at <= Len(w.secrets)
    /\ w.secrets[w.at].item[2] \notin {"None", "ProxyCommand"}
    /\ w.secrets[w.at].value # Right
    /\ requests < MaxRequests
    /\ requests' = requests + 1
    /\ InMemory(HandleFailed(app, s, {w.secrets[w.at].item}))

\* The network, the server or the computer fails, at any time.
ConnectionFails(s) ==
  /\ app.worker[s] # {}
  /\ Quietly(HandleFailed(app, s, {}))

HostKeyVerificationRequired(s) ==
  /\ \E w \in Working(s) : w.at <= Len(w.secrets)
  /\ Quietly(ActivateSession(app, s))

Connects(s) ==
  /\ \E w \in Working(s) : w.at > Len(w.secrets)
  /\ app.session[s].state # "Connected"
  /\ Quietly([app EXCEPT !.session[s].state = "Connected"])

Disconnects(s) ==
  /\ app.worker[s] # {}
  /\ \/ app.session[s].state = "Disconnecting"
     \/ ~app.session[s].handle
     \/ \E w \in app.worker[s] : w.at > Len(w.secrets)
  /\ Quietly(HandleDisconnected(app, s))

User ==
  \/ \E s \in Sessions, p \in Profiles : ConnectInNewSession(s, p)
  \/ \E s \in Sessions : SplitActivePane(s) \/ Reconnect(s)
  \/ \E s \in Sessions, sent \in BOOLEAN : Disconnect(s, sent) \/ CloseTab(s, sent)
  \/ \E x \in Typed : SubmitSecret(x[1], x[2])
  \/ CancelCredential
  \/ \E saved \in BOOLEAN : ApproveProxyCommand(saved)
  \/ CancelApproval
  \/ ShowPanel
  \/ \E p \in Profiles, command \in Values : BeginEdit(p, command)

Stores ==
  \/ \E error \in BOOLEAN : LookupAnswers(error)
  \/ DeleteAnswers
  \/ \E item \in Items, done \in BOOLEAN : KeychainDeletes(item, done)
  \/ \E x \in Items \X Values, done \in BOOLEAN : KeychainSaves(x, done)
  \/ \E done \in BOOLEAN : EndEdit(done)

Connections ==
  \E s \in Sessions :
    \/ StepSucceeds(s) \/ StepRejected(s) \/ ConnectionFails(s)
    \/ HostKeyVerificationRequired(s) \/ Connects(s) \/ Disconnects(s)

Next == User \/ Stores \/ Connections

Spec == Init /\ [][Next]_vars
----------------------------------------------------------------------------
Credentials ==
  [item : Items, source : {"Keychain", "Prompt"}, save : BOOLEAN, value : Values]
Secrets == [item : Profiles \X (Kinds \cup {"None"}), value : Values \cup {"none"}]
Preparations ==
  [session : Sessions, target : Profiles, digest : Values \cup {"none"},
   secrets : Seq(Secrets), credentials : SUBSET Credentials, forced : SUBSET Items]
AtMostOne(slot) == \A x, y \in slot : x = y

\* The shape of the window's state.  The code keeps each of the five slots below in an
\* Option, and a session it shows, prepares, asks or looks something up for is one it has.
FlowTypeOK ==
  /\ app.panes \cup app.open \subseteq app.used /\ app.used \subseteq Sessions
  /\ \A s \in Sessions :
       /\ app.session[s].profile \in Profiles /\ app.session[s].state \in States
       /\ app.session[s].credentials \subseteq Credentials
       /\ AtMostOne(app.worker[s])
       /\ app.worker[s] # {} => s \in app.open
  /\ app.pending \cup app.approval \subseteq Preparations
  /\ AtMostOne(app.pending) /\ AtMostOne(app.approval)
  /\ AtMostOne(app.lookup) /\ AtMostOne(app.prompt) /\ AtMostOne(app.editing)
  /\ \A x \in app.pending \cup app.lookup \cup app.prompt \cup app.approval :
       x.session \in app.open
  /\ keychain \in [Items -> Values \cup {"none"}]

\* Every secret a connection is started with was found or typed for the host, the key or
\* the proxy it is used on, although lookups and prompts of several sessions go through
\* one preparation that any of them may replace (connection_flow.rs:655-682).
SecretsGoWhereTheyBelong ==
  \A s \in Sessions : \A w \in app.worker[s] :
    [i \in DOMAIN w.secrets |-> w.secrets[i].item] = Needs(w.target)

\* The keychain only ever learns a secret that the host or the proxy it belongs to has
\* taken: what the user asked to remember waits until its own host has let the user in
\* (connection_flow.rs:1190-1206), and the editor alone changes a proxy command.
OnlyAcceptedSecretsSaved ==
  [][\A i \in Items :
       \/ keychain'[i] \in {keychain[i], "none"}
       \/ IF i[2] = "ProxyCommand" THEN \E e \in app.editing : e.command = keychain'[i]
          ELSE keychain'[i] = Right]_keychain

\* A proxy command runs only when the user has approved exactly its text, whatever was
\* edited, looked up or approved for another session in the meantime, and no approval is
\* remembered that was not given (connection_flow.rs:684-722, proxy.rs:75-84).
OnlyConsentedCommandRuns ==
  /\ \A s \in Sessions : \A w \in app.worker[s] :
       Proxy[w.target] = "ProxyCommand" => <<w.target, w.secrets[1].value>> \in consent
  /\ \A p \in Profiles :
       {app.approved[p], disk[p]} \subseteq {"none"} \cup {c[2] : c \in {d \in consent : d[1] = p}}

\* The prompt on the screen asks for what the preparation under way needs next, for the
\* session it prepares: a secret is never asked for that nothing would use
\* (connection_flow.rs:31, 240, 514-520).
PromptIsCurrent ==
  \A x \in app.prompt :
    \E p \in app.pending : p.session = x.session /\ NextNeed(p) = x.item

\* A connection is only started in a session that has none.  What the window checks when
\* the user asks (connection_flow.rs:211-219) is not checked again when the plan is
\* started, after lookups, prompts and an approval that may take as long as they like.
OneConnectionPerSession ==
  [][\A s \in Sessions : \A w \in app.worker[s] :
       app'.worker[s] \subseteq {w, [w EXCEPT !.at = @ + 1]}]_app

\* A session that has no connection keeps no secret of one: "No credential can still
\* succeed after the connection attempt has failed" (connection_flow.rs:1405).
NoSecretOutlivesConnection ==
  \A s \in app.open : app.session[s].credentials # {} => app.worker[s] # {}

\* session.rs:6 of a disconnected session: "No connection exists and a new connection may
\* be started."  The window starts none while it believes another is being prepared.
DisconnectedMayConnect ==
  \A s \in app.open :
    /\ app.session[s].state = "Disconnected"
    /\ app.lookup = {} /\ app.prompt = {} /\ app.approval = {} /\ app.editing = {}
    /\ \A r \in Sessions : app.worker[r] = {}
    => Free(app, s)
============================================================================
