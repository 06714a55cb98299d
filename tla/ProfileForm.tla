---------------------------- MODULE ProfileForm ----------------------------
(***************************************************************************)
(* The form a profile is edited in (ProfileEditor in profiles.rs): what is *)
(* typed and chosen, the secret of the proxy that is looked up while the   *)
(* form is open already, the dialog for the key file, and the save, whose  *)
(* end may find another form.                                              *)
(*                                                                         *)
(* A state is a record: the profiles and the secrets of their proxies, the *)
(* form (a set with at most one), the list of authentication methods that  *)
(* may be open in it, and the lookups, dialogs and saves under way. A text *)
(* is trimmed and "" is empty; `target` stands for host, port and user     *)
(* name, `address` for those of the proxy. What the save does to both      *)
(* stores is in ProfileStore; here it succeeds or fails as a whole.        *)
(***************************************************************************)
EXTENDS Naturals, Sequences, SequencesExt, Functions

CONSTANTS NewId(_), PathFrom(_)   \* of a profile that is created; a key file of a dialog

Methods == <<"None", "Password", "PrivateKey", "Agent">>   \* ProfileAuthKind::OPTIONS
Proxied == {"HttpConnect", "Socks5"}

\* profiles: id |-> a record as Profile below makes it; secrets: id |-> the stored ones, of
\* the login and of the proxy.
NewState(profiles, secrets) ==
  [profiles |-> profiles, secrets |-> secrets, next |-> 1, form |-> {}, error |-> FALSE,
   open |-> FALSE, cursor |-> 1, lookups |-> {}, dialogs |-> {}, saves |-> {}]

TheForm(s) == CHOOSE form \in s.form : TRUE
Shows(s, id) == \E form \in s.form : form.id = id
Change(s, form) == [s EXCEPT !.form = {form}, !.error = FALSE]

---------------------------------------------------------------------------
\* Opening.

\* Wrong: what is not known yet counts as loaded.
LoadAsKnown(s, id) ==
  LET p == s.profiles[id] IN
  [s EXCEPT !.form = {[p EXCEPT !.mode = "Edit", !.loaded = TRUE]}, !.error = FALSE, !.open = FALSE,
            !.lookups = IF p.proxy = "Direct" THEN @ ELSE @ \union {[id |-> id, kind |-> p.proxy]}]

\* load_editor_for_selected_profile: the secret of the proxy comes later.
LoadEditor(s, id) ==
  LET p == s.profiles[id] IN
  [s EXCEPT !.form = {[p EXCEPT !.mode = "Edit", !.loaded = p.proxy = "Direct"]},
            !.error = FALSE, !.open = FALSE,
            !.lookups = IF p.proxy = "Direct" THEN @ ELSE @ \union {[id |-> id, kind |-> p.proxy]}]

BlankForm(id) ==
  [mode |-> "Create", id |-> id, name |-> "", target |-> "", auth |-> "Password", key |-> "",
   proxy |-> "Direct", address |-> "", user |-> "", password |-> "", command |-> "",
   jumps |-> <<>>, loaded |-> TRUE, approved |-> FALSE]

OpenNew(s) == [s EXCEPT !.form = {BlankForm(NewId(s.next))}, !.error = FALSE, !.open = FALSE]

\* Wrong: the secret goes into whatever form is open.
ArrivesAnywhere(s, lookup, succeeded) ==
  LET form == TheForm(s)
      stored == s.secrets[lookup.id]
      filled == IF lookup.kind = "ProxyCommand"
                THEN [form EXCEPT !.loaded = TRUE, !.command = IF stored.command = "" THEN @ ELSE stored.command]
                ELSE [form EXCEPT !.loaded = TRUE, !.password = IF stored.password = "" THEN @ ELSE stored.password]
      heard == [s EXCEPT !.lookups = @ \ {lookup}]
  IN CASE s.form = {} -> heard
       [] s.form # {} /\ succeeded -> [heard EXCEPT !.form = {filled}]
       [] OTHER -> [heard EXCEPT !.error = TRUE]

\* The answer goes into the form of this profile, also a later one, and over what was typed.
LookupArrives(s, lookup, succeeded) ==
  IF Shows(s, lookup.id) THEN ArrivesAnywhere(s, lookup, succeeded)
  ELSE [s EXCEPT !.lookups = @ \ {lookup}]

---------------------------------------------------------------------------
\* What the user chooses; typing changes one text of the form and nothing else.

Type(s, field, text) == [s EXCEPT !.form = {[TheForm(s) EXCEPT ![field] = text]}]

SelectAuthMethod(s, method) == [Change(s, [TheForm(s) EXCEPT !.auth = method]) EXCEPT !.open = FALSE]

\* Whoever chooses the kind of proxy does not wait for the secret any more.
SelectProxyMethod(s, proxy) ==
  Change(s, [TheForm(s) EXCEPT !.proxy = proxy, !.loaded = TRUE,
                               !.jumps = IF proxy = "ProxyCommand" THEN <<>> ELSE @])

\* Wrong: a command stays when a jump host is added.
ToggleJumpOnly(s, id) ==
  LET form == TheForm(s)
      known == \E i \in DOMAIN form.jumps : form.jumps[i] = id IN
  IF id = form.id THEN s
  ELSE Change(s, [form EXCEPT !.jumps = IF known THEN SelectSeq(@, LAMBDA j : j # id) ELSE Append(@, id)])

ToggleJumpHost(s, id) ==
  LET form == TheForm(s)
      known == \E i \in DOMAIN form.jumps : form.jumps[i] = id IN
  CASE id = form.id -> s
    [] id # form.id /\ known -> Change(s, [form EXCEPT !.jumps = SelectSeq(@, LAMBDA j : j # id)])
    [] OTHER -> Change(s, [form EXCEPT !.jumps = Append(@, id),
                                       !.proxy = IF @ = "ProxyCommand" THEN "Direct" ELSE @])

\* `up` moves it one place towards the first hop.
MoveJumpHost(s, id, up) ==
  LET form == TheForm(s)
      at == CHOOSE i \in DOMAIN form.jumps : form.jumps[i] = id
      to == IF up THEN at - 1 ELSE at + 1 IN
  IF to \notin DOMAIN form.jumps THEN s
  ELSE [s EXCEPT !.form = {[form EXCEPT !.jumps = [@ EXCEPT ![at] = form.jumps[to], ![to] = id]]}]

\* The list of methods: a cursor from 1, opened at the method of the form.
MenuIndex(current, count, key) ==
  CASE key = "up" -> IF current = 1 THEN 1 ELSE current - 1
    [] key = "down" -> IF current < count THEN current + 1 ELSE count
    [] key = "home" -> 1
    [] key = "end" -> count

ToggleAuthSelector(s) ==
  [s EXCEPT !.cursor = CHOOSE i \in DOMAIN Methods : Methods[i] = TheForm(s).auth, !.open = ~@]

NavigateAuth(s, key) ==
  IF s.open THEN [s EXCEPT !.cursor = MenuIndex(@, Len(Methods), key)] ELSE ToggleAuthSelector(s)

\* The button of the list, pressed by key.
PressAuth(s) == IF s.open THEN SelectAuthMethod(s, Methods[s.cursor]) ELSE ToggleAuthSelector(s)

\* browse_private_key, set_private_key_path
Browse(s) == [s EXCEPT !.dialogs = @ \union {TheForm(s).id}]

\* Wrong: the path goes into whatever form is open.
PickAnywhere(s, id) ==
  LET picked == [s EXCEPT !.dialogs = @ \ {id}] IN
  IF s.form = {} THEN picked ELSE Change(picked, [TheForm(s) EXCEPT !.key = PathFrom(id)])

Picked(s, id) ==
  IF Shows(s, id) THEN PickAnywhere(s, id) ELSE [s EXCEPT !.dialogs = @ \ {id}]

---------------------------------------------------------------------------
\* save_editor

IntoConfig(form) == form.auth = "PrivateKey" => form.key # ""

ProxyAcceptable(form) ==
  CASE form.proxy \in Proxied -> form.address # "" /\ (form.user = "" => form.password = "")
    [] form.proxy = "ProxyCommand" -> form.command # ""
    [] OTHER -> TRUE

JumpsAcceptable(s, form) ==
  /\ IsInjective(form.jumps)
  /\ Range(form.jumps) \subseteq DOMAIN s.profiles \ {form.id}
  /\ form.proxy = "ProxyCommand" => form.jumps = <<>>

Acceptable(s, form) ==
  /\ form.loaded
  /\ form.name # "" /\ form.target # ""
  /\ IntoConfig(form) /\ ProxyAcceptable(form) /\ JumpsAcceptable(s, form)

\* What is kept of a form: of an unused proxy nothing, of a command its digest, which is
\* approved still if neither it nor what it was approved for has changed.
UpstreamProxy(p) ==
  CASE p.proxy \in Proxied -> <<p.proxy, p.address, p.user>>
    [] p.proxy = "ProxyCommand" -> <<p.proxy, p.digest, p.approved>>
    [] OTHER -> <<p.proxy>>

ApprovalStays(old, form) ==
  /\ old.proxy = "ProxyCommand" /\ old.approved /\ old.digest = form.command
  /\ old.name = form.name /\ old.target = form.target

Profile(s, form) ==
  LET proxied == form.proxy \in Proxied
      command == form.proxy = "ProxyCommand"
  IN [BlankForm(form.id) EXCEPT
        !.name = form.name, !.target = form.target, !.auth = form.auth,
        !.key = IF form.auth = "PrivateKey" THEN form.key ELSE "",
        !.proxy = form.proxy, !.jumps = form.jumps,
        !.address = IF proxied THEN form.address ELSE "", !.user = IF proxied THEN form.user ELSE "",
        !.approved = command /\ form.id \in DOMAIN s.profiles /\ ApprovalStays(s.profiles[form.id], form)]
     @@ [digest |-> IF command THEN form.command ELSE ""]

CredentialsInvalidatedByEdit(old, new) ==
  old.target # new.target \/ old.auth # new.auth \/ old.key # new.key

Job(s, form) ==
  LET profile == Profile(s, form)
      known == form.id \in DOMAIN s.profiles
      password == IF form.proxy \in Proxied THEN form.password ELSE ""
      command == IF form.proxy = "ProxyCommand" THEN form.command ELSE ""
      changed == /\ known /\ s.profiles[form.id].proxy # "Direct"
                 /\ UpstreamProxy(s.profiles[form.id]) # UpstreamProxy(profile)
  IN [id |-> form.id, create |-> form.mode = "Create",
      cleanup |-> known /\ form.mode = "Edit"
                  /\ CredentialsInvalidatedByEdit(s.profiles[form.id], profile),
      profiles |-> [i \in DOMAIN s.profiles \union {form.id} |->
                      IF i = form.id THEN profile ELSE s.profiles[i]],
      route |-> password # "" \/ command # "" \/ changed,
      password |-> password, command |-> command]

SaveEditor(s) ==
  IF Acceptable(s, TheForm(s))
  THEN [s EXCEPT !.saves = @ \union {Job(s, TheForm(s))}, !.error = FALSE]
  ELSE [s EXCEPT !.error = TRUE]

\* The form that is open is closed, whichever profile it is of.
Saved(s, job) ==
  [s EXCEPT !.saves = @ \ {job}, !.profiles = job.profiles,
            !.secrets[job.id] = [login |-> IF job.cleanup THEN "" ELSE @.login,
                                 password |-> IF job.route THEN job.password ELSE @.password,
                                 command |-> IF job.route THEN job.command ELSE @.command],
            !.next = IF job.create THEN @ + 1 ELSE @,
            !.form = {}, !.open = FALSE, !.error = FALSE]

SaveFailed(s, job) == [s EXCEPT !.saves = @ \ {job}, !.error = TRUE]

CancelEditor(s) ==
  IF s.open THEN [s EXCEPT !.open = FALSE] ELSE [s EXCEPT !.form = {}, !.error = FALSE]
=============================================================================
