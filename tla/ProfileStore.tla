---------------------------- MODULE ProfileStore ----------------------------
(***************************************************************************)
(* The window's list of profiles, the profiles file and the keychain.      *)
(*                                                                         *)
(* Saving the profile editor, deleting a profile, forgetting a secret and  *)
(* applying an import work on blocking threads: each takes its list when   *)
(* the user acts, reaches the keychain and the file in several steps, any  *)
(* of which may fail, and is heard of by the window afterwards.  Nothing   *)
(* keeps two of them, or a synchronous write of the window, apart.         *)
(*                                                                         *)
(* The form of the editor is any content it would accept.  The secrets to  *)
(* log in (password, passphrase) of a profile are one.  A preview is one   *)
(* step: the list it was made from may be old when it is applied.          *)
(* MaxActs bounds what the user does, MaxFailures the failures of the      *)
(* keychain and the file, MaxJobs the threads at work at once.             *)
(***************************************************************************)
EXTENDS OpenSshImport

CONSTANTS
    InitialLists,    \* lists a window may be started with
    Forms,           \* what the user may type into the editor
    Configs,         \* what the OpenSSH configuration may say
    MaxJobs, MaxActs, MaxFailures

ASSUME InitialListsAssumption ==
    \A list \in InitialLists : IsList(list) /\ Closed(list)

ASSUME InputsAssumption ==
    /\ Forms \subseteq Contents
    /\ \A config \in Configs :
         /\ DOMAIN config \subseteq Hosts
         /\ \A host \in DOMAIN config : config[host] \in Contents \cup {Invalid}

\* MaxJobs bounds the model only: how many threads are followed at a time.
ASSUME BoundsAssumption == MaxJobs \in Nat

VARIABLES
    profiles,      \* the window's list
    disk,          \* profiles.json
    keychain,      \* [command, password, login] of every id
    jobs,          \* the threads at work and their results not heard of yet
    busy,          \* credential_mutations_in_progress
    importing,     \* openssh_import_loading, while an import is applied
    preview,       \* the candidates shown, or NoPreview
    acts, failures,
    calm           \* history: no two writers met and nothing failed that the
                   \* code does not go back on

vars == <<profiles, disk, keychain, jobs, busy, importing, preview, acts, failures, calm>>
stores == <<disk, keychain>>

Slots == 1 .. MaxJobs

NoPreview == [host \in {} |-> None]

NoSecrets == [command |-> None, password |-> FALSE, login |-> None]

\* The secrets of a profile that has been saved and connected once.
SecretsOf(list, id) ==
    [command |-> IF UsesCommand(list, id) THEN list[id].content.upstream ELSE None,
     password |-> id \in DOMAIN list /\ list[id].content.upstream = Proxied,
     login |-> IF id \in DOMAIN list THEN list[id].content.login ELSE None]

Init ==
    /\ profiles \in InitialLists
    /\ disk = profiles
    /\ keychain = [id \in Ids |-> SecretsOf(profiles, id)]
    /\ jobs = [j \in {} |-> None]
    /\ busy = [id \in Ids |-> 0]
    /\ importing = FALSE
    /\ preview = NoPreview
    /\ acts = 0
    /\ failures = 0
    /\ calm = TRUE
-----------------------------------------------------------------------------
\* The user's acts.  Each starts at most one thread.
Acts == acts < MaxActs /\ acts' = acts + 1

Quiet == DOMAIN jobs = {}

Start(job) ==
    \E j \in Slots \ DOMAIN jobs :
      /\ \A i \in Slots \ DOMAIN jobs : j <= i
      /\ jobs' = [i \in DOMAIN jobs \cup {j} |-> IF i = j THEN job ELSE jobs[i]]

\* What a thread carries: the list to write, the secrets before it.
Job(kind, id, next, stage) ==
    [kind |-> kind, id |-> id, next |-> next, stage |-> stage,
     password |-> FALSE, newLogin |-> FALSE, routed |-> FALSE,
     secrets |-> {}, left |-> {}, before |-> keychain, found |-> disk,
     failed |-> FALSE]

With(list, id, profile) ==
    [i \in DOMAIN list \cup {id} |-> IF i = id THEN profile ELSE list[i]]

Without(list, id) == [i \in DOMAIN list \ {id} |-> list[i]]

Edited(id, content) ==
    [content |-> content,
     source |-> IF id \in DOMAIN profiles THEN profiles[id].source ELSE None]

\* save_editor: jump hosts are other profiles, a password belongs to a proxy.
SaveEditor(id, content, password) ==
    LET known == id \in DOMAIN profiles
        old == IF known THEN profiles[id].content ELSE content
        routed == \/ password
                  \/ content.upstream \in Commands
                  \/ known /\ old.upstream # Direct /\ old.upstream # content.upstream
    IN
    /\ Acts
    /\ known \/ id \notin Hosts
    /\ content.jumps \subseteq DOMAIN profiles \ {id}
    /\ password => content.upstream = Proxied
    /\ busy' = [busy EXCEPT ![id] = @ + 1]
    /\ Start([Job("Save", id, With(profiles, id, Edited(id, content)),
                  IF routed THEN "Load" ELSE "Write") EXCEPT
                !.password = password,
                !.routed = routed,
                !.newLogin = known /\ old.login # content.login])
    /\ calm' = (calm /\ Quiet)
    /\ UNCHANGED <<profiles, disk, keychain, importing, preview, failures>>

\* persist_profiles: a failure is shown and the window goes on with its list.
Persist(list) ==
    \/ /\ disk' = list
       /\ calm' = (calm /\ Quiet)
       /\ UNCHANGED failures
    \/ /\ failures < MaxFailures
       /\ failures' = failures + 1
       /\ calm' = FALSE
       /\ UNCHANGED disk

\* Wrong: a profile others go through is deleted.
DeleteAnyProfile(id) ==
    /\ Acts
    /\ id \in DOMAIN profiles
    /\ profiles' = Without(profiles, id)
    /\ Persist(profiles')
    /\ busy' = [busy EXCEPT ![id] = @ + 1]
    /\ Start(Job("Delete", id, profiles', "Delete"))
    /\ UNCHANGED <<keychain, importing, preview>>

\* delete_profile, when no session of the profile is connected.
DeleteProfile(id) ==
    /\ Acts
    /\ id \in DOMAIN profiles
    /\ \A other \in DOMAIN profiles \ {id} : id \notin profiles[other].content.jumps
    /\ profiles' = Without(profiles, id)
    /\ Persist(profiles')
    /\ busy' = [busy EXCEPT ![id] = @ + 1]
    /\ Start(Job("Delete", id, profiles', "Delete"))
    /\ UNCHANGED <<keychain, importing, preview>>

ForgetCredential(id) ==
    /\ Acts
    /\ id \in DOMAIN profiles
    /\ busy' = [busy EXCEPT ![id] = @ + 1]
    /\ Start(Job("Forget", id, profiles, "Delete"))
    /\ calm' = (calm /\ Quiet)
    /\ UNCHANGED <<profiles, disk, keychain, importing, preview, failures>>

\* approve_proxy_command writes the whole list; when that fails it takes the
\* approval back, and nothing has changed.
ApproveCommand(id) ==
    /\ Acts
    /\ UsesCommand(profiles, id)
    /\ disk' = profiles
    /\ calm' = (calm /\ Quiet)
    /\ UNCHANGED <<profiles, keychain, jobs, busy, importing, preview, failures>>

Preview(config) ==
    /\ Acts
    /\ ~importing
    /\ preview' = Candidates(config, profiles)
    /\ UNCHANGED <<profiles, disk, keychain, jobs, busy, importing, failures, calm>>

\* The thread of an import that is not acceptable ends at once.
ApplyImport(selected, overwrite) ==
    /\ Acts
    /\ ~importing
    /\ selected # {}
    /\ importing' = TRUE
    /\ IF Acceptable(preview, selected, profiles, overwrite)
       THEN Start([Job("Import", None,
                       Imported(preview, selected, profiles, overwrite), "Change") EXCEPT
                     !.left = SecretsMoved(preview, selected, profiles, overwrite)])
       ELSE Start([Job("Import", None, profiles, "Done") EXCEPT !.failed = TRUE])
    /\ calm' = (calm /\ Quiet)
    /\ UNCHANGED <<profiles, disk, keychain, busy, preview, failures>>
-----------------------------------------------------------------------------
\* The threads.
At(j, kind, stage) == j \in DOMAIN jobs /\ jobs[j].kind = kind /\ jobs[j].stage = stage

Becomes(j, job) == jobs' = [jobs EXCEPT ![j] = job]

GoesTo(j, stage) == Becomes(j, [jobs[j] EXCEPT !.stage = stage])

Ends(j, failed) == Becomes(j, [jobs[j] EXCEPT !.stage = "Done", !.failed = failed])

Fails == failures < MaxFailures /\ failures' = failures + 1

Secret(id, kind, value) == keychain' = [keychain EXCEPT ![id][kind] = value]

Window == <<profiles, busy, importing, preview, acts>>

\* save_profiles_with_route_secrets reads what it may have to put back.
LoadBefore(j) ==
    /\ At(j, "Save", "Load")
    /\ \/ /\ Becomes(j, [jobs[j] EXCEPT !.stage = "ApplyPassword", !.before = keychain])
          /\ UNCHANGED failures
       \/ Fails /\ Ends(j, TRUE)
    /\ UNCHANGED <<stores, Window, calm>>

ApplyPassword(j) ==
    /\ At(j, "Save", "ApplyPassword")
    /\ \/ /\ Secret(jobs[j].id, "password", jobs[j].password)
          /\ GoesTo(j, "ApplyCommand")
          /\ UNCHANGED failures
       \/ Fails /\ Ends(j, TRUE) /\ UNCHANGED keychain
    /\ UNCHANGED <<disk, Window, calm>>

\* Wrong: a refused ProxyCommand leaves the proxy password as it is now.
ApplyCommandAlone(j) ==
    /\ At(j, "Save", "ApplyCommand")
    /\ \/ /\ Secret(jobs[j].id, "command", SecretsOf(jobs[j].next, jobs[j].id).command)
          /\ GoesTo(j, "Write")
          /\ UNCHANGED failures
       \/ Fails /\ Ends(j, TRUE) /\ UNCHANGED keychain
    /\ UNCHANGED <<disk, Window, calm>>

ApplyCommand(j) ==
    /\ At(j, "Save", "ApplyCommand")
    /\ \/ /\ Secret(jobs[j].id, "command", SecretsOf(jobs[j].next, jobs[j].id).command)
          /\ GoesTo(j, "Write")
          /\ UNCHANGED failures
       \/ Fails /\ GoesTo(j, "RestorePassword") /\ UNCHANGED keychain
    /\ UNCHANGED <<disk, Window, calm>>

\* The file is replaced as a whole, or not at all.
WriteEdited(j) ==
    /\ At(j, "Save", "Write")
    /\ \/ /\ disk' = jobs[j].next
          /\ IF jobs[j].newLogin THEN GoesTo(j, "Cleanup") ELSE Ends(j, FALSE)
          /\ UNCHANGED failures
       \/ /\ Fails
          /\ IF jobs[j].routed THEN GoesTo(j, "RestoreCommand") ELSE Ends(j, TRUE)
          /\ UNCHANGED disk
    /\ UNCHANGED <<keychain, Window, calm>>

\* restore_route_secret ignores its own failure.
RestoreSecret(j, kind) ==
    \/ /\ Secret(jobs[j].id, kind, jobs[j].before[jobs[j].id][kind])
       /\ UNCHANGED <<failures, calm>>
    \/ /\ Fails
       /\ calm' = FALSE
       /\ UNCHANGED keychain

RestoreCommand(j) ==
    /\ At(j, "Save", "RestoreCommand")
    /\ RestoreSecret(j, "command")
    /\ GoesTo(j, "RestorePassword")
    /\ UNCHANGED <<disk, Window>>

RestorePassword(j) ==
    /\ At(j, "Save", "RestorePassword")
    /\ RestoreSecret(j, "password")
    /\ Ends(j, TRUE)
    /\ UNCHANGED <<disk, Window>>

\* The secrets to log in elsewhere go once the profile says so; a failure is a
\* warning.
CleanupLogin(j) ==
    /\ At(j, "Save", "Cleanup")
    /\ \/ Secret(jobs[j].id, "login", None) /\ UNCHANGED <<failures, calm>>
       \/ Fails /\ calm' = FALSE /\ UNCHANGED keychain
    /\ Ends(j, FALSE)
    /\ UNCHANGED <<disk, Window>>

\* apply_import_with moves one secret; when it cannot even read the previous
\* one it leaves those moved already.
ChangeSecret(j) ==
    /\ At(j, "Import", "Change")
    /\ \E id \in jobs[j].left :
         \/ /\ Secret(id, "command", SecretsOf(jobs[j].next, id).command)
            /\ Becomes(j, [jobs[j] EXCEPT
                             !.left = @ \ {id},
                             !.secrets = @ \cup {id},
                             !.before[id] = keychain[id]])
            /\ UNCHANGED <<failures, calm>>
         \/ Fails /\ GoesTo(j, "Rollback") /\ UNCHANGED <<keychain, calm>>
         \/ /\ Fails
            /\ Ends(j, TRUE)
            /\ calm' = (calm /\ jobs[j].secrets = {})
            /\ UNCHANGED keychain
    /\ UNCHANGED <<disk, Window>>

WriteImported(j) ==
    /\ At(j, "Import", "Change")
    /\ jobs[j].left = {}
    /\ \/ disk' = jobs[j].next /\ Ends(j, FALSE) /\ UNCHANGED failures
       \/ Fails /\ GoesTo(j, "Rollback") /\ UNCHANGED disk
    /\ UNCHANGED <<keychain, Window, calm>>

\* rollback_credentials ignores its own failures.
Rollback(j) ==
    /\ At(j, "Import", "Rollback")
    /\ IF jobs[j].secrets = {}
       THEN Ends(j, TRUE) /\ UNCHANGED <<keychain, failures, calm>>
       ELSE \E id \in jobs[j].secrets :
              /\ Becomes(j, [jobs[j] EXCEPT !.secrets = @ \ {id}])
              /\ \/ /\ Secret(id, "command", jobs[j].before[id].command)
                    /\ UNCHANGED <<failures, calm>>
                 \/ Fails /\ calm' = FALSE /\ UNCHANGED keychain
    /\ UNCHANGED <<disk, Window>>

\* delete_kinds goes on after a failure and reports the first.
DeleteSecrets(j) ==
    LET id == jobs[j].id IN
    /\ j \in DOMAIN jobs
    /\ jobs[j].stage = "Delete"
    /\ LET kinds == IF jobs[j].kind = "Delete" THEN DOMAIN NoSecrets ELSE {"login"} IN
       \E refused \in SUBSET kinds :
         /\ keychain' = [keychain EXCEPT ![id] =
                           [kind \in DOMAIN NoSecrets |->
                              IF kind \in kinds \ refused THEN NoSecrets[kind] ELSE @[kind]]]
         /\ IF refused = {} THEN UNCHANGED <<failures, calm>> ELSE Fails /\ calm' = FALSE
         /\ Ends(j, refused # {})
    /\ UNCHANGED <<disk, Window>>

Thread(j) ==
    \/ LoadBefore(j) \/ ApplyPassword(j) \/ ApplyCommand(j) \/ WriteEdited(j)
    \/ RestoreCommand(j) \/ RestorePassword(j) \/ CleanupLogin(j)
    \/ ChangeSecret(j) \/ WriteImported(j) \/ Rollback(j) \/ DeleteSecrets(j)
-----------------------------------------------------------------------------
\* The window hears of a thread that is done.
Over(j) == jobs' = [i \in DOMAIN jobs \ {j} |-> jobs[i]]

\* The whole list becomes the one the thread wrote, and every mark of the
\* profile goes, whoever made it.
HearSaved(j) ==
    /\ At(j, "Save", "Done")
    /\ Over(j)
    /\ profiles' = IF jobs[j].failed THEN profiles ELSE jobs[j].next
    /\ busy' = [busy EXCEPT ![jobs[j].id] = 0]
    /\ UNCHANGED <<stores, importing, preview, acts, failures, calm>>

\* Wrong: a deletion that failed leaves its mark.
HearDeletedOnly(j) ==
    /\ At(j, "Delete", "Done") \/ At(j, "Forget", "Done")
    /\ Over(j)
    /\ busy' = IF jobs[j].failed \/ busy[jobs[j].id] = 0
               THEN busy
               ELSE [busy EXCEPT ![jobs[j].id] = @ - 1]
    /\ UNCHANGED <<profiles, stores, importing, preview, acts, failures, calm>>

HearDeleted(j) ==
    /\ At(j, "Delete", "Done") \/ At(j, "Forget", "Done")
    /\ Over(j)
    /\ busy' = IF busy[jobs[j].id] = 0
               THEN busy
               ELSE [busy EXCEPT ![jobs[j].id] = @ - 1]
    /\ UNCHANGED <<profiles, stores, importing, preview, acts, failures, calm>>

\* After an import the configuration is read again.
HearImported(j) ==
    /\ At(j, "Import", "Done")
    /\ Over(j)
    /\ importing' = FALSE
    /\ IF jobs[j].failed
       THEN UNCHANGED <<profiles, preview>>
       ELSE /\ profiles' = jobs[j].next
            /\ \E config \in Configs : preview' = Candidates(config, jobs[j].next)
    /\ UNCHANGED <<stores, busy, acts, failures, calm>>

Hear(j) == HearSaved(j) \/ HearDeleted(j) \/ HearImported(j)

\* The program ends at any time and is started again.
Restart ==
    /\ Acts
    /\ profiles' = disk
    /\ jobs' = [j \in {} |-> None]
    /\ busy' = [id \in Ids |-> 0]
    /\ importing' = FALSE
    /\ preview' = NoPreview
    /\ calm' = (calm /\ Quiet)
    /\ UNCHANGED <<stores, failures>>

\* A connection was accepted: save_successful_credentials.
RememberLogin(id) ==
    /\ Acts
    /\ id \in DOMAIN profiles
    /\ Secret(id, "login", profiles[id].content.login)
    /\ calm' = (calm /\ Quiet)
    /\ UNCHANGED <<profiles, disk, jobs, busy, importing, preview, failures>>

UserActs ==
    \/ \E id \in Ids, content \in Forms, password \in BOOLEAN :
         SaveEditor(id, content, password)
    \/ \E id \in Ids : \/ DeleteProfile(id) \/ ForgetCredential(id)
                       \/ ApproveCommand(id) \/ RememberLogin(id)
    \/ \E config \in Configs : Preview(config)
    \/ \E selected, overwrite \in SUBSET DOMAIN preview : ApplyImport(selected, overwrite)
    \/ Restart

Next == UserActs \/ \E j \in Slots : Thread(j) \/ Hear(j)

Spec == Init /\ [][Next]_vars
-----------------------------------------------------------------------------
Keychains == [Ids -> [command : Commands \cup {None}, password : BOOLEAN,
                      login : Logins \cup {None}]]

Stages == {"Load", "ApplyPassword", "ApplyCommand", "Write", "RestoreCommand",
           "RestorePassword", "Cleanup", "Change", "Rollback", "Delete", "Done"}

JobTypeOK(job) ==
    /\ job \in [kind : {"Save", "Delete", "Forget", "Import"}, id : Ids \cup {None},
               next : {job.next}, stage : Stages, password : BOOLEAN,
               newLogin : BOOLEAN, routed : BOOLEAN, secrets : SUBSET Ids,
               left : SUBSET Ids, before : Keychains, found : {job.found},
               failed : BOOLEAN]
    /\ IF job.kind = "Import" THEN job.id = None ELSE job.id \in Ids
    /\ IsList(job.next)

CandidateTypeOK(candidate) ==
    candidate.status # "Invalid" => candidate.content \in Contents

\* The window, the two stores and what the threads carry (RemCmdApp, profiles.json).
StoreTypeOK ==
    /\ IsList(profiles)
    /\ IsList(disk)
    /\ keychain \in Keychains
    /\ DOMAIN jobs \subseteq Slots
    /\ \A j \in DOMAIN jobs : JobTypeOK(jobs[j])
    /\ busy \in [Ids -> Nat]
    /\ DOMAIN preview \subseteq Hosts
    /\ \A host \in DOMAIN preview : CandidateTypeOK(preview[host])

\* A save or an import that reports a failure has put back what it changed of
\* both stores (save_profiles_with_route_secrets, apply_import_with).
FailuresUndone ==
    \A j \in DOMAIN jobs :
      jobs[j].kind \in {"Save", "Import"} /\ jobs[j].stage = "Done" /\ jobs[j].failed =>
        /\ disk = jobs[j].found
        /\ \A id \in Ids : /\ keychain[id].command = jobs[j].before[id].command
                           /\ keychain[id].password = jobs[j].before[id].password

\* The keychain holds the ProxyCommand of every profile that has one and no
\* other, and no secret to log in where a profile typed in by hand no longer does.
SecretsMatchProfiles ==
    \A id \in Ids :
      /\ keychain[id].command = SecretsOf(disk, id).command
      /\ \/ keychain[id].login = None
         \/ id \in DOMAIN disk /\ disk[id].source # None
         \/ keychain[id].login = SecretsOf(disk, id).login

\* As long as writers do not meet and no failure hits a step the code does not go
\* back on: what fails changes nothing, and between two acts the window shows
\* what the file holds and the keychain has the secrets it speaks of (save_editor,
\* delete_profile, apply_openssh_preview and the two functions of remcmd-storage).
\* Not calm are a failed persist_profiles, restore or cleanup, and the import of
\* openssh.rs:258 that leaves without a rollback, of which ImportRollsBack speaks.
StoresAgree ==
    calm => /\ FailuresUndone
            /\ Quiet => disk = profiles /\ SecretsMatchProfiles

\* docs/openssh-import.md:48-50: "Batch application atomically replaces the profiles
\* file and rolls back ProxyCommand keychain changes on a normal failure path."  With
\* no other thread at work and one failure, an import that has failed leaves every
\* ProxyCommand as it found it (apply_import_with).
ImportRollsBack ==
    \A j \in DOMAIN jobs :
      jobs[j].kind = "Import" /\ jobs[j].stage = "Done" /\ jobs[j].failed =>
        \A id \in Ids : keychain[id].command = jobs[j].before[id].command

\* Whatever meets and whatever fails, no list sends a connection through a jump
\* host it does not hold: the window's, the file's, and those about to be written
\* (the checks of save_editor, delete_profile and apply_import_with against lists
\* that may be old).
JumpHostsExist ==
    /\ Closed(profiles)
    /\ Closed(disk)
    /\ \A j \in DOMAIN jobs : Closed(jobs[j].next)

\* Connect and import are not refused forever: behind every mark of a profile, and
\* behind the lock of the import page, there is a thread the window will hear of,
\* also when threads fail and marks are shared (credential_mutations_in_progress,
\* openssh_import_loading).  The marks of a profile never outnumber its threads.
LocksHaveThreads ==
    /\ \A id \in Ids : busy[id] <= Cardinality({j \in DOMAIN jobs : jobs[j].id = id})
    /\ importing <=> \E j \in DOMAIN jobs : jobs[j].kind = "Import"
=============================================================================
