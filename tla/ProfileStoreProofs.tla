------------------------- MODULE ProfileStoreProofs -------------------------
(***************************************************************************)
(* Profiles, the profiles file and the keychain, for any number of         *)
(* profiles, threads, acts and failures.                                   *)
(*                                                                         *)
(* No list of profiles ever names a jump host it does not hold: a list is  *)
(* closed where it is made, against the list it is made from, and from     *)
(* then on it is only ever passed on as a whole; so it does not matter how *)
(* old it is when it reaches the file or the window.                       *)
(*                                                                         *)
(* Every lock has a thread: threads are counted by the profile they work   *)
(* for, and hearing of one takes at least one mark and exactly one thread. *)
(*                                                                         *)
(* Window, file and keychain agree as long as writers do not meet: then at *)
(* most one thread is at work, and what it has done to the two stores can  *)
(* be read off its stage (SaveProgress, ImportProgress, DeleteOK).         *)
(***************************************************************************)
EXTENDS ProfileStore, FiniteSetTheorems, TLAPS

LEMMA WithIsList ==
  ASSUME NEW list, IsList(list), NEW id \in Ids, NEW profile \in Profiles
  PROVE  IsList(With(list, id, profile))
BY DEF IsList, With

LEMMA WithoutIsList ==
  ASSUME NEW list, IsList(list), NEW id
  PROVE  IsList(Without(list, id))
BY DEF IsList, Without

\* A profile whose jump hosts are others of the list keeps the list closed.
LEMMA WithClosed ==
  ASSUME NEW list, Closed(list), NEW id, NEW profile,
         profile.content.jumps \subseteq DOMAIN list \ {id}
  PROVE  Closed(With(list, id, profile))
BY DEF Closed, With

\* A profile no other goes through may leave the list.
LEMMA WithoutClosed ==
  ASSUME NEW list, Closed(list), NEW id,
         \A other \in DOMAIN list \ {id} : id \notin list[other].content.jumps
  PROVE  Closed(Without(list, id))
BY DEF Closed, Without

LEMMA SecretsTyped ==
  ASSUME NEW list, IsList(list), NEW id \in Ids
  PROVE  SecretsOf(list, id) \in [command : Commands \cup {None}, password : BOOLEAN,
                                  login : Logins \cup {None}]
BY DEF SecretsOf, IsList, UsesCommand, Profiles, Contents, Upstreams

LEMMA CandidatesTyped ==
  ASSUME NEW config \in Configs, NEW existing
  PROVE  /\ DOMAIN Candidates(config, existing) \subseteq Hosts
         /\ \A host \in DOMAIN Candidates(config, existing) :
              CandidateTypeOK(Candidates(config, existing)[host])
BY InputsAssumption DEF Candidates, CandidateTypeOK, Status

LEMMA ImportedIsList ==
  ASSUME NEW candidates, NEW selected, NEW existing, NEW overwrite, IsList(existing),
         DOMAIN candidates \subseteq Hosts,
         \A host \in DOMAIN candidates : CandidateTypeOK(candidates[host])
  PROVE  /\ IsList(Imported(candidates, selected, existing, overwrite))
         /\ SecretsMoved(candidates, selected, existing, overwrite) \subseteq Ids
<1> DEFINE replaced == Replaced(candidates, selected, existing, overwrite)
<1>1. replaced \subseteq Available(candidates)
  BY DEF Replaced, WithDependencies
<1>2. replaced \subseteq Ids /\ \A host \in replaced : candidates[host].content \in Contents
  BY <1>1, HostsAssumption DEF Available, CandidateTypeOK
<1>3. IsList(Imported(candidates, selected, existing, overwrite))
  BY <1>2 DEF Imported, IsList, Profiles
<1>4. SecretsMoved(candidates, selected, existing, overwrite) \subseteq Ids
  BY <1>2 DEF SecretsMoved
<1> QED BY <1>3, <1>4
-----------------------------------------------------------------------------
\* What a thread may become without upsetting the others.
LEMMA BecomesTyped ==
  ASSUME StoreTypeOK, NEW j \in DOMAIN jobs, NEW job, JobTypeOK(job), Becomes(j, job)
  PROVE  /\ DOMAIN jobs' \subseteq Slots
         /\ \A i \in DOMAIN jobs' : JobTypeOK(jobs'[i])
BY DEF StoreTypeOK, Becomes

LEMMA StartTyped ==
  ASSUME StoreTypeOK, NEW job, JobTypeOK(job), Start(job)
  PROVE  /\ DOMAIN jobs' \subseteq Slots
         /\ \A i \in DOMAIN jobs' : JobTypeOK(jobs'[i])
<1>1. PICK j \in Slots \ DOMAIN jobs :
        jobs' = [i \in DOMAIN jobs \cup {j} |-> IF i = j THEN job ELSE jobs[i]]
  BY DEF Start
<1> QED BY <1>1 DEF StoreTypeOK

LEMMA GoesToTyped ==
  ASSUME StoreTypeOK, NEW j \in DOMAIN jobs, NEW stage \in Stages, GoesTo(j, stage)
  PROVE  /\ DOMAIN jobs' \subseteq Slots
         /\ \A i \in DOMAIN jobs' : JobTypeOK(jobs'[i])
<1>1. JobTypeOK([jobs[j] EXCEPT !.stage = stage])
  BY DEF StoreTypeOK, JobTypeOK
<1> QED BY <1>1, BecomesTyped DEF GoesTo

LEMMA EndsTyped ==
  ASSUME StoreTypeOK, NEW j \in DOMAIN jobs, NEW failed \in BOOLEAN, Ends(j, failed)
  PROVE  /\ DOMAIN jobs' \subseteq Slots
         /\ \A i \in DOMAIN jobs' : JobTypeOK(jobs'[i])
<1>1. JobTypeOK([jobs[j] EXCEPT !.stage = "Done", !.failed = failed])
  BY ZenonT(60) DEF StoreTypeOK, JobTypeOK, Stages
<1> QED BY <1>1, BecomesTyped DEF Ends

LEMMA OverTyped ==
  ASSUME StoreTypeOK, NEW j, Over(j)
  PROVE  /\ DOMAIN jobs' \subseteq Slots
         /\ \A i \in DOMAIN jobs' : JobTypeOK(jobs'[i])
BY DEF StoreTypeOK, Over

LEMMA JobTyped ==
  ASSUME StoreTypeOK, NEW kind \in {"Save", "Delete", "Forget", "Import"},
         NEW id, IF kind = "Import" THEN id = None ELSE id \in Ids,
         NEW next, IsList(next), NEW stage \in Stages
  PROVE  JobTypeOK(Job(kind, id, next, stage))
BY DEF StoreTypeOK, JobTypeOK, Job
-----------------------------------------------------------------------------
LEMMA InitTyped == Init => StoreTypeOK
<1> SUFFICES ASSUME Init PROVE StoreTypeOK
  OBVIOUS
<1>1. IsList(profiles) /\ IsList(disk)
  BY InitialListsAssumption DEF Init
<1>2. keychain \in Keychains
  BY <1>1, SecretsTyped DEF Init, Keychains
<1>3. /\ DOMAIN jobs \subseteq Slots
      /\ \A j \in DOMAIN jobs : JobTypeOK(jobs[j])
  BY DEF Init
<1>4. busy \in [Ids -> Nat]
  BY DEF Init
<1>5. /\ DOMAIN preview \subseteq Hosts
      /\ \A host \in DOMAIN preview : CandidateTypeOK(preview[host])
  BY DEF Init, NoPreview
<1> QED BY <1>1, <1>2, <1>3, <1>4, <1>5 DEF StoreTypeOK

\* The user's acts.
LEMMA ActsTyped == StoreTypeOK /\ UserActs => StoreTypeOK'
<1> SUFFICES ASSUME StoreTypeOK, UserActs PROVE StoreTypeOK'
  OBVIOUS
<1>1. ASSUME NEW id \in Ids, NEW content \in Forms, NEW password \in BOOLEAN,
             SaveEditor(id, content, password)
      PROVE  StoreTypeOK'
  <2> DEFINE list == With(profiles, id, Edited(id, content))
             newLogin == id \in DOMAIN profiles /\ profiles[id].content.login # content.login
  <2>1. Edited(id, content) \in Profiles
    BY InputsAssumption DEF Edited, Profiles, StoreTypeOK, IsList
  <2>2. IsList(list)
    BY <2>1, WithIsList DEF StoreTypeOK
  <2>3. PICK stage \in {"Load", "Write"}, routed \in BOOLEAN, new \in BOOLEAN :
          Start([Job("Save", id, list, stage) EXCEPT
                   !.password = password, !.routed = routed, !.newLogin = new])
    BY <1>1 DEF SaveEditor
  <2>4. JobTypeOK(Job("Save", id, list, stage))
    BY <2>2, JobTyped DEF Stages
  <2>5. JobTypeOK([Job("Save", id, list, stage) EXCEPT
                     !.password = password, !.routed = routed, !.newLogin = new])
    BY <2>4, ZenonT(60) DEF JobTypeOK, Job
  <2>6. /\ DOMAIN jobs' \subseteq Slots
        /\ \A i \in DOMAIN jobs' : JobTypeOK(jobs'[i])
    BY <2>3, <2>5, StartTyped
  <2> QED BY <1>1, <2>6 DEF SaveEditor, StoreTypeOK
<1>2. ASSUME NEW id \in Ids, DeleteProfile(id) PROVE StoreTypeOK'
  <2>1. IsList(profiles')
    BY <1>2, WithoutIsList DEF DeleteProfile, StoreTypeOK
  <2>2. IsList(disk')
    BY <1>2, <2>1 DEF DeleteProfile, Persist, StoreTypeOK
  <2>3. JobTypeOK(Job("Delete", id, profiles', "Delete"))
    BY <2>1, JobTyped DEF Stages
  <2>4. /\ DOMAIN jobs' \subseteq Slots
        /\ \A i \in DOMAIN jobs' : JobTypeOK(jobs'[i])
    BY <1>2, <2>3, StartTyped DEF DeleteProfile
  <2> QED BY <1>2, <2>1, <2>2, <2>4 DEF DeleteProfile, StoreTypeOK
<1>3. ASSUME NEW id \in Ids, ForgetCredential(id) PROVE StoreTypeOK'
  <2>1. JobTypeOK(Job("Forget", id, profiles, "Delete"))
    BY JobTyped DEF Stages, StoreTypeOK
  <2>2. /\ DOMAIN jobs' \subseteq Slots
        /\ \A i \in DOMAIN jobs' : JobTypeOK(jobs'[i])
    BY <1>3, <2>1, StartTyped DEF ForgetCredential
  <2> QED BY <1>3, <2>2 DEF ForgetCredential, StoreTypeOK
<1>4. ASSUME NEW id \in Ids, ApproveCommand(id) PROVE StoreTypeOK'
  BY <1>4 DEF ApproveCommand, StoreTypeOK
<1>5. ASSUME NEW id \in Ids, RememberLogin(id) PROVE StoreTypeOK'
  <2>1. profiles[id].content.login \in Logins
    BY <1>5 DEF RememberLogin, StoreTypeOK, IsList, Profiles, Contents
  <2>2. keychain' \in Keychains
    BY <1>5, <2>1 DEF RememberLogin, Secret, StoreTypeOK, Keychains
  <2> QED BY <1>5, <2>2 DEF RememberLogin, StoreTypeOK
<1>6. ASSUME NEW config \in Configs, Preview(config) PROVE StoreTypeOK'
  BY <1>6, CandidatesTyped DEF Preview, StoreTypeOK
<1>7. ASSUME NEW selected \in SUBSET DOMAIN preview, NEW overwrite \in SUBSET DOMAIN preview,
             ApplyImport(selected, overwrite)
      PROVE  StoreTypeOK'
  <2> DEFINE list == Imported(preview, selected, profiles, overwrite)
             moved == SecretsMoved(preview, selected, profiles, overwrite)
             good == [Job("Import", None, list, "Change") EXCEPT !.left = moved]
             bad == [Job("Import", None, profiles, "Done") EXCEPT !.failed = TRUE]
  <2>1. IsList(list) /\ moved \subseteq Ids
    BY ImportedIsList DEF StoreTypeOK
  <2>2. JobTypeOK(Job("Import", None, list, "Change"))
    BY <2>1, JobTyped DEF Stages
  <2>3. JobTypeOK(good)
    BY <2>1, <2>2 DEF JobTypeOK, Job
  <2>4. JobTypeOK(Job("Import", None, profiles, "Done"))
    BY JobTyped DEF Stages, StoreTypeOK
  <2>5. JobTypeOK(bad)
    BY <2>4 DEF JobTypeOK, Job
  <2>6. Start(good) \/ Start(bad)
    BY <1>7 DEF ApplyImport
  <2>7. /\ DOMAIN jobs' \subseteq Slots
        /\ \A i \in DOMAIN jobs' : JobTypeOK(jobs'[i])
    BY <2>3, <2>5, <2>6, StartTyped
  <2> QED BY <1>7, <2>7 DEF ApplyImport, StoreTypeOK
<1>8. CASE Restart
  BY <1>8 DEF Restart, StoreTypeOK, NoPreview, stores
<1> QED BY <1>1, <1>2, <1>3, <1>4, <1>5, <1>6, <1>7, <1>8 DEF UserActs

\* The threads.  A step moves one thread on, and at most one secret or the file.
LEMMA SecretTyped ==
  ASSUME StoreTypeOK, NEW id \in Ids, NEW kind \in {"command", "password", "login"},
         NEW value, kind = "command" => value \in Commands \cup {None},
         kind = "password" => value \in BOOLEAN, kind = "login" => value \in Logins \cup {None},
         Secret(id, kind, value)
  PROVE  keychain' \in Keychains
<1>1. CASE kind = "command"
  BY <1>1 DEF Secret, StoreTypeOK, Keychains
<1>2. CASE kind = "password"
  BY <1>2 DEF Secret, StoreTypeOK, Keychains
<1>3. CASE kind = "login"
  BY <1>3 DEF Secret, StoreTypeOK, Keychains
<1> QED BY <1>1, <1>2, <1>3

\* What is known of a thread that is about to move.
LEMMA ThreadFacts ==
  ASSUME StoreTypeOK, NEW j \in DOMAIN jobs
  PROVE  /\ JobTypeOK(jobs[j])
         /\ IsList(jobs[j].next)
         /\ jobs[j].kind # "Import" => jobs[j].id \in Ids
         /\ jobs[j].password \in BOOLEAN
         /\ jobs[j].left \subseteq Ids /\ jobs[j].secrets \subseteq Ids
         /\ jobs[j].before \in Keychains
BY DEF StoreTypeOK, JobTypeOK

LEMMA SaveThreadTyped ==
  ASSUME StoreTypeOK, NEW j \in Slots,
         \/ LoadBefore(j) \/ ApplyPassword(j) \/ ApplyCommand(j) \/ WriteEdited(j)
         \/ RestoreCommand(j) \/ RestorePassword(j) \/ CleanupLogin(j)
  PROVE  StoreTypeOK'
<1> DEFINE JobsTyped == /\ DOMAIN jobs' \subseteq Slots
                        /\ \A i \in DOMAIN jobs' : JobTypeOK(jobs'[i])
<1>a. j \in DOMAIN jobs /\ jobs[j].kind = "Save"
  BY DEF LoadBefore, ApplyPassword, ApplyCommand, WriteEdited, RestoreCommand,
         RestorePassword, CleanupLogin, At
<1>b. jobs[j].id \in Ids /\ IsList(jobs[j].next) /\ jobs[j].before \in Keychains
       /\ jobs[j].password \in BOOLEAN
  BY <1>a, ThreadFacts
<1>c. \A stage \in Stages : GoesTo(j, stage) => JobsTyped
  BY <1>a, GoesToTyped
<1>d. \A failed \in BOOLEAN : Ends(j, failed) => JobsTyped
  BY <1>a, EndsTyped
<1>1. CASE LoadBefore(j)
  <2>1. JobTypeOK([jobs[j] EXCEPT !.stage = "ApplyPassword", !.before = keychain])
    BY <1>a, ZenonT(60) DEF StoreTypeOK, JobTypeOK, Stages
  <2>2. JobsTyped
    BY <1>a, <1>d, <1>1, <2>1, BecomesTyped DEF LoadBefore
  <2> QED BY <1>1, <2>2 DEF LoadBefore, StoreTypeOK, stores, Window
<1>2. CASE ApplyPassword(j)
  <2>1. JobsTyped
    BY <1>c, <1>d, <1>2 DEF ApplyPassword, Stages
  <2>2. Secret(jobs[j].id, "password", jobs[j].password) => keychain' \in Keychains
    BY <1>b, SecretTyped
  <2>3. keychain' \in Keychains
    BY <1>2, <2>2 DEF ApplyPassword, StoreTypeOK
  <2> QED BY <1>2, <2>1, <2>3 DEF ApplyPassword, StoreTypeOK, Window
<1>3. CASE ApplyCommand(j)
  <2>1. JobsTyped
    BY <1>c, <1>d, <1>3 DEF ApplyCommand, Stages
  <2>2. SecretsOf(jobs[j].next, jobs[j].id).command \in Commands \cup {None}
    BY <1>b, SecretsTyped
  <2>3. Secret(jobs[j].id, "command", SecretsOf(jobs[j].next, jobs[j].id).command)
          => keychain' \in Keychains
    BY <1>b, <2>2, SecretTyped
  <2>4. keychain' \in Keychains
    BY <1>3, <2>3 DEF ApplyCommand, StoreTypeOK
  <2> QED BY <1>3, <2>1, <2>4 DEF ApplyCommand, StoreTypeOK, Window
<1>4. CASE WriteEdited(j)
  <2>1. JobsTyped
    BY <1>c, <1>d, <1>4 DEF WriteEdited, Stages
  <2>2. IsList(disk')
    BY <1>b, <1>4 DEF WriteEdited, StoreTypeOK
  <2> QED BY <1>4, <2>1, <2>2 DEF WriteEdited, StoreTypeOK, Window
<1>5. ASSUME NEW kind \in {"command", "password"}, RestoreSecret(j, kind)
      PROVE  keychain' \in Keychains
  <2>1. jobs[j].before[jobs[j].id] \in [command : Commands \cup {None}, password : BOOLEAN,
                                        login : Logins \cup {None}]
    BY <1>b DEF Keychains
  <2>2. /\ kind = "command" => jobs[j].before[jobs[j].id][kind] \in Commands \cup {None}
        /\ kind = "password" => jobs[j].before[jobs[j].id][kind] \in BOOLEAN
    BY <2>1
  <2>3. Secret(jobs[j].id, kind, jobs[j].before[jobs[j].id][kind]) => keychain' \in Keychains
    BY <1>b, <2>2, SecretTyped
  <2> QED BY <1>5, <2>3 DEF RestoreSecret, StoreTypeOK
<1>6. CASE RestoreCommand(j)
  <2>1. JobsTyped
    BY <1>c, <1>6 DEF RestoreCommand, Stages
  <2> QED BY <1>5, <1>6, <2>1 DEF RestoreCommand, StoreTypeOK, Window
<1>7. CASE RestorePassword(j)
  <2>1. JobsTyped
    BY <1>d, <1>7 DEF RestorePassword
  <2> QED BY <1>5, <1>7, <2>1 DEF RestorePassword, StoreTypeOK, Window
<1>8. CASE CleanupLogin(j)
  <2>1. JobsTyped
    BY <1>d, <1>8 DEF CleanupLogin
  <2>2. Secret(jobs[j].id, "login", None) => keychain' \in Keychains
    BY <1>b, SecretTyped
  <2>3. keychain' \in Keychains
    BY <1>8, <2>2 DEF CleanupLogin, StoreTypeOK
  <2> QED BY <1>8, <2>1, <2>3 DEF CleanupLogin, StoreTypeOK, Window
<1> QED BY <1>1, <1>2, <1>3, <1>4, <1>6, <1>7, <1>8

LEMMA ImportThreadTyped ==
  ASSUME StoreTypeOK, NEW j \in Slots, ChangeSecret(j) \/ WriteImported(j) \/ Rollback(j)
  PROVE  StoreTypeOK'
<1> DEFINE JobsTyped == /\ DOMAIN jobs' \subseteq Slots
                        /\ \A i \in DOMAIN jobs' : JobTypeOK(jobs'[i])
<1>a. j \in DOMAIN jobs
  BY DEF ChangeSecret, WriteImported, Rollback, At
<1>b. /\ IsList(jobs[j].next) /\ jobs[j].before \in Keychains
      /\ jobs[j].left \subseteq Ids /\ jobs[j].secrets \subseteq Ids
  BY <1>a, ThreadFacts
<1>c. \A stage \in Stages : GoesTo(j, stage) => JobsTyped
  BY <1>a, GoesToTyped
<1>d. \A failed \in BOOLEAN : Ends(j, failed) => JobsTyped
  BY <1>a, EndsTyped
<1>1. CASE ChangeSecret(j)
  <2>1. PICK id \in jobs[j].left :
          \/ /\ Secret(id, "command", SecretsOf(jobs[j].next, id).command)
             /\ Becomes(j, [jobs[j] EXCEPT !.left = @ \ {id}, !.secrets = @ \cup {id},
                                           !.before[id] = keychain[id]])
          \/ GoesTo(j, "Rollback") /\ UNCHANGED keychain
          \/ Ends(j, TRUE) /\ UNCHANGED keychain
    BY <1>1 DEF ChangeSecret
  <2>2. id \in Ids
    BY <1>b
  <2>3. JobTypeOK([jobs[j] EXCEPT !.left = @ \ {id}, !.secrets = @ \cup {id},
                                  !.before[id] = keychain[id]])
    <3>1. JobTypeOK(jobs[j])
      BY <1>a, ThreadFacts
    <3>2. [jobs[j].before EXCEPT ![id] = keychain[id]] \in Keychains
      BY <1>b, <2>2 DEF Keychains, StoreTypeOK
    <3> QED BY <1>b, <2>2, <3>1, <3>2 DEF JobTypeOK
  <2>4. JobsTyped
    BY <1>a, <1>c, <1>d, <2>1, <2>3, BecomesTyped DEF Stages
  <2>5. SecretsOf(jobs[j].next, id).command \in Commands \cup {None}
    BY <1>b, <2>2, SecretsTyped
  <2>6. Secret(id, "command", SecretsOf(jobs[j].next, id).command) => keychain' \in Keychains
    BY <2>2, <2>5, SecretTyped
  <2>7. keychain' \in Keychains
    BY <2>1, <2>6 DEF StoreTypeOK
  <2> QED BY <1>1, <2>4, <2>7 DEF ChangeSecret, StoreTypeOK, Window
<1>2. CASE WriteImported(j)
  <2>1. JobsTyped
    BY <1>c, <1>d, <1>2 DEF WriteImported, Stages
  <2>2. IsList(disk')
    BY <1>b, <1>2 DEF WriteImported, StoreTypeOK
  <2> QED BY <1>2, <2>1, <2>2 DEF WriteImported, StoreTypeOK, Window
<1>3. CASE Rollback(j) /\ jobs[j].secrets = {}
  <2>1. JobsTyped
    BY <1>d, <1>3 DEF Rollback
  <2> QED BY <1>3, <2>1 DEF Rollback, StoreTypeOK, Window
<1>4. CASE Rollback(j) /\ jobs[j].secrets # {}
  <2>1. PICK id \in jobs[j].secrets :
          /\ Becomes(j, [jobs[j] EXCEPT !.secrets = @ \ {id}])
          /\ \/ Secret(id, "command", jobs[j].before[id].command)
             \/ UNCHANGED keychain
    BY <1>4 DEF Rollback
  <2>2. JobTypeOK([jobs[j] EXCEPT !.secrets = @ \ {id}])
    BY <1>a DEF StoreTypeOK, JobTypeOK
  <2>3. JobsTyped
    BY <1>a, <2>1, <2>2, BecomesTyped
  <2>4. id \in Ids /\ jobs[j].before[id].command \in Commands \cup {None}
    BY <1>b DEF Keychains
  <2>5. Secret(id, "command", jobs[j].before[id].command) => keychain' \in Keychains
    BY <2>4, SecretTyped
  <2>6. keychain' \in Keychains
    BY <2>1, <2>5 DEF StoreTypeOK
  <2> QED BY <1>4, <2>3, <2>6 DEF Rollback, StoreTypeOK, Window
<1> QED BY <1>1, <1>2, <1>3, <1>4

LEMMA DeleteThreadTyped ==
  ASSUME StoreTypeOK, NEW j \in Slots, DeleteSecrets(j)
  PROVE  StoreTypeOK'
<1>1. j \in DOMAIN jobs /\ IsList(profiles) /\ \E failed \in BOOLEAN : Ends(j, failed)
  BY DEF DeleteSecrets, StoreTypeOK
<1>2. /\ DOMAIN jobs' \subseteq Slots
      /\ \A i \in DOMAIN jobs' : JobTypeOK(jobs'[i])
  BY <1>1, EndsTyped
<1>3. PICK kept \in SUBSET DOMAIN NoSecrets :
        keychain' = [keychain EXCEPT ![jobs[j].id] =
                       [kind \in DOMAIN NoSecrets |-> IF kind \in kept THEN @[kind]
                                                      ELSE NoSecrets[kind]]]
  <2> DEFINE kinds == IF jobs[j].kind = "Delete" THEN DOMAIN NoSecrets ELSE {"login"}
  <2>1. PICK refused \in SUBSET kinds :
          keychain' = [keychain EXCEPT ![jobs[j].id] =
                         [kind \in DOMAIN NoSecrets |->
                            IF kind \in kinds \ refused THEN NoSecrets[kind] ELSE @[kind]]]
    BY DEF DeleteSecrets
  <2>2. \A kind \in DOMAIN NoSecrets :
          kind \in kinds \ refused <=> kind \notin DOMAIN NoSecrets \ (kinds \ refused)
    OBVIOUS
  <2>3. keychain' = [keychain EXCEPT ![jobs[j].id] =
                       [kind \in DOMAIN NoSecrets |->
                          IF kind \in DOMAIN NoSecrets \ (kinds \ refused)
                          THEN @[kind] ELSE NoSecrets[kind]]]
    BY <2>1, <2>2
  <2> QED BY <2>3
<1>4. keychain' \in Keychains
  <2>1. [kind \in DOMAIN NoSecrets |-> IF kind \in kept THEN keychain[jobs[j].id][kind]
                                       ELSE NoSecrets[kind]]
          \in [command : Commands \cup {None}, password : BOOLEAN, login : Logins \cup {None}]
        \/ jobs[j].id \notin Ids
    BY DEF StoreTypeOK, Keychains, NoSecrets
  <2> QED BY <1>3, <2>1 DEF StoreTypeOK, Keychains
<1> QED BY <1>2, <1>4 DEF DeleteSecrets, StoreTypeOK, Window

LEMMA HearTyped ==
  ASSUME StoreTypeOK, NEW j \in Slots, Hear(j)
  PROVE  StoreTypeOK'
<1>1. /\ DOMAIN jobs' \subseteq Slots
      /\ \A i \in DOMAIN jobs' : JobTypeOK(jobs'[i])
  BY OverTyped DEF Hear, HearSaved, HearDeleted, HearImported
<1>2. CASE HearSaved(j)
  <2>1. IsList(jobs[j].next)
    BY <1>2, ThreadFacts DEF HearSaved, At
  <2> QED BY <1>1, <1>2, <2>1 DEF HearSaved, StoreTypeOK, stores
<1>3. CASE HearDeleted(j)
  <2>1. jobs[j].id \in Ids
    BY <1>3, ThreadFacts DEF HearDeleted, At
  <2>2. busy' \in [Ids -> Nat]
    BY <1>3, <2>1 DEF HearDeleted, StoreTypeOK
  <2> QED BY <1>1, <1>3, <2>2 DEF HearDeleted, StoreTypeOK, stores
<1>4. CASE HearImported(j)
  <2>1. IsList(jobs[j].next)
    BY <1>4, ThreadFacts DEF HearImported, At
  <2>2. IsList(profiles')
    BY <1>4, <2>1 DEF HearImported, StoreTypeOK
  <2>3. /\ DOMAIN preview' \subseteq Hosts
        /\ \A host \in DOMAIN preview' : CandidateTypeOK(preview'[host])
    BY <1>4, CandidatesTyped DEF HearImported, StoreTypeOK
  <2> QED BY <1>1, <1>4, <2>2, <2>3 DEF HearImported, StoreTypeOK, stores
<1> QED BY <1>2, <1>3, <1>4 DEF Hear

LEMMA NextTyped == StoreTypeOK /\ [Next]_vars => StoreTypeOK'
<1> SUFFICES ASSUME StoreTypeOK, [Next]_vars PROVE StoreTypeOK'
  OBVIOUS
<1>1. CASE UserActs
  BY <1>1, ActsTyped
<1>2. ASSUME NEW j \in Slots, Thread(j) PROVE StoreTypeOK'
  BY <1>2, SaveThreadTyped, ImportThreadTyped, DeleteThreadTyped DEF Thread
<1>3. ASSUME NEW j \in Slots, Hear(j) PROVE StoreTypeOK'
  BY <1>3, HearTyped
<1>4. CASE UNCHANGED vars
  BY <1>4 DEF vars, StoreTypeOK
<1> QED BY <1>1, <1>2, <1>3, <1>4 DEF Next

\* Window, file, keychain, threads and preview keep their types.
THEOREM StoreTypeCorrect == Spec => []StoreTypeOK
BY InitTyped, NextTyped, PTL DEF Spec
-----------------------------------------------------------------------------
\* A thread keeps the list it was given.
LEMMA BecomesClosed ==
  ASSUME JumpHostsExist, NEW j \in DOMAIN jobs, NEW job, Closed(job.next), Becomes(j, job)
  PROVE  \A i \in DOMAIN jobs' : Closed(jobs'[i].next)
BY DEF JumpHostsExist, Becomes

LEMMA KeepsList ==
  ASSUME StoreTypeOK, NEW j \in DOMAIN jobs, NEW value
  PROVE  /\ [jobs[j] EXCEPT !.stage = value].next = jobs[j].next
         /\ [jobs[j] EXCEPT !.secrets = value].next = jobs[j].next
BY DEF StoreTypeOK, JobTypeOK

LEMMA StartClosed ==
  ASSUME JumpHostsExist, NEW job, Closed(job.next), Start(job)
  PROVE  \A i \in DOMAIN jobs' : Closed(jobs'[i].next)
<1>1. PICK j \in Slots \ DOMAIN jobs :
        jobs' = [i \in DOMAIN jobs \cup {j} |-> IF i = j THEN job ELSE jobs[i]]
  BY DEF Start
<1> QED BY <1>1 DEF JumpHostsExist

LEMMA InitClosed == Init => JumpHostsExist
BY InitialListsAssumption DEF Init, JumpHostsExist

\* Lists are made by the user's acts only.
LEMMA ActsClosed == StoreTypeOK /\ JumpHostsExist /\ UserActs => JumpHostsExist'
<1> SUFFICES ASSUME StoreTypeOK, JumpHostsExist, UserActs PROVE JumpHostsExist'
  OBVIOUS
<1>1. ASSUME NEW id \in Ids, NEW content \in Forms, NEW password \in BOOLEAN,
             SaveEditor(id, content, password)
      PROVE  JumpHostsExist'
  <2> DEFINE list == With(profiles, id, Edited(id, content))
  <2>1. Closed(list)
    BY <1>1, WithClosed DEF SaveEditor, Edited, JumpHostsExist
  <2>2. PICK stage \in {"Load", "Write"}, routed \in BOOLEAN, new \in BOOLEAN :
          Start([Job("Save", id, list, stage) EXCEPT
                   !.password = password, !.routed = routed, !.newLogin = new])
    BY <1>1 DEF SaveEditor
  <2>3. [Job("Save", id, list, stage) EXCEPT
           !.password = password, !.routed = routed, !.newLogin = new].next = list
    BY DEF Job
  <2>4. \A i \in DOMAIN jobs' : Closed(jobs'[i].next)
    BY <2>1, <2>2, <2>3, StartClosed
  <2> QED BY <1>1, <2>4 DEF SaveEditor, JumpHostsExist
<1>2. ASSUME NEW id \in Ids, DeleteProfile(id) PROVE JumpHostsExist'
  <2>1. Closed(profiles')
    BY <1>2, WithoutClosed DEF DeleteProfile, JumpHostsExist
  <2>2. Closed(disk')
    BY <1>2, <2>1 DEF DeleteProfile, Persist, JumpHostsExist
  <2>3. Job("Delete", id, profiles', "Delete").next = profiles'
    BY DEF Job
  <2>4. \A i \in DOMAIN jobs' : Closed(jobs'[i].next)
    BY <1>2, <2>1, <2>3, StartClosed DEF DeleteProfile
  <2> QED BY <2>1, <2>2, <2>4 DEF JumpHostsExist
<1>3. ASSUME NEW id \in Ids, ForgetCredential(id) PROVE JumpHostsExist'
  <2>1. Job("Forget", id, profiles, "Delete").next = profiles
    BY DEF Job
  <2>2. \A i \in DOMAIN jobs' : Closed(jobs'[i].next)
    BY <1>3, <2>1, StartClosed DEF ForgetCredential, JumpHostsExist
  <2> QED BY <1>3, <2>2 DEF ForgetCredential, JumpHostsExist
<1>4. ASSUME NEW id \in Ids, ApproveCommand(id) PROVE JumpHostsExist'
  BY <1>4 DEF ApproveCommand, JumpHostsExist
<1>5. ASSUME NEW id \in Ids, RememberLogin(id) PROVE JumpHostsExist'
  BY <1>5 DEF RememberLogin, JumpHostsExist
<1>6. ASSUME NEW config \in Configs, Preview(config) PROVE JumpHostsExist'
  BY <1>6 DEF Preview, JumpHostsExist
<1>7. ASSUME NEW selected \in SUBSET DOMAIN preview, NEW overwrite \in SUBSET DOMAIN preview,
             ApplyImport(selected, overwrite)
      PROVE  JumpHostsExist'
  <2> DEFINE list == Imported(preview, selected, profiles, overwrite)
             moved == SecretsMoved(preview, selected, profiles, overwrite)
             good == [Job("Import", None, list, "Change") EXCEPT !.left = moved]
             bad == [Job("Import", None, profiles, "Done") EXCEPT !.failed = TRUE]
  <2>1. good.next = list /\ bad.next = profiles
    BY DEF Job
  <2>2. (Closed(list) /\ Start(good)) \/ Start(bad)
    BY <1>7 DEF ApplyImport, Acceptable
  <2>3. \A i \in DOMAIN jobs' : Closed(jobs'[i].next)
    BY <2>1, <2>2, StartClosed, ZenonT(30) DEF JumpHostsExist
  <2> QED BY <1>7, <2>3 DEF ApplyImport, JumpHostsExist
<1>8. CASE Restart
  BY <1>8 DEF Restart, JumpHostsExist, stores
<1> QED BY <1>1, <1>2, <1>3, <1>4, <1>5, <1>6, <1>7, <1>8 DEF UserActs

\* A thread passes its list on.
LEMMA ThreadClosed ==
  ASSUME StoreTypeOK, JumpHostsExist, NEW j \in Slots, Thread(j)
  PROVE  JumpHostsExist'
<1>1. j \in DOMAIN jobs /\ profiles' = profiles
  BY DEF Thread, LoadBefore, ApplyPassword, ApplyCommand, WriteEdited, RestoreCommand,
         RestorePassword, CleanupLogin, ChangeSecret, WriteImported, Rollback,
         DeleteSecrets, At, Window
<1>2. Closed(jobs[j].next)
  BY <1>1, SMTT(30) DEF JumpHostsExist
<1>3. disk' \in {disk, jobs[j].next}
  BY DEF Thread, LoadBefore, ApplyPassword, ApplyCommand, WriteEdited, RestoreCommand,
         RestorePassword, CleanupLogin, ChangeSecret, WriteImported, Rollback,
         DeleteSecrets, stores
<1>4. \A stage : GoesTo(j, stage) => \A i \in DOMAIN jobs' : Closed(jobs'[i].next)
  BY <1>1, <1>2, KeepsList, BecomesClosed DEF GoesTo
<1>5. ASSUME NEW failed, Ends(j, failed)
      PROVE  \A i \in DOMAIN jobs' : Closed(jobs'[i].next)
  <2> DEFINE job == [jobs[j] EXCEPT !.stage = "Done", !.failed = failed]
  <2>1. job.next = jobs[j].next
    BY <1>1 DEF StoreTypeOK, JobTypeOK
  <2>2. Becomes(j, job)
    BY <1>5 DEF Ends
  <2> HIDE DEF job
  <2> QED BY <1>1, <1>2, <2>1, <2>2, BecomesClosed
<1>6. \A i \in DOMAIN jobs' : Closed(jobs'[i].next)
  <2>1. CASE LoadBefore(j)
    <3> DEFINE job == [jobs[j] EXCEPT !.stage = "ApplyPassword", !.before = keychain]
    <3>1. job.next = jobs[j].next
      BY <1>1 DEF StoreTypeOK, JobTypeOK
    <3>2. Becomes(j, job) \/ Ends(j, TRUE)
      BY <2>1 DEF LoadBefore
    <3> HIDE DEF job
    <3> QED BY <1>1, <1>2, <1>5, <3>1, <3>2, BecomesClosed
  <2>2. CASE \/ ApplyPassword(j) \/ ApplyCommand(j) \/ WriteEdited(j)
             \/ RestoreCommand(j) \/ RestorePassword(j) \/ CleanupLogin(j)
    BY <1>4, <1>5, <2>2 DEF ApplyPassword, ApplyCommand, WriteEdited, RestoreCommand,
                            RestorePassword, CleanupLogin
  <2>3. CASE ChangeSecret(j)
    <3> DEFINE job(id) == [jobs[j] EXCEPT !.left = @ \ {id}, !.secrets = @ \cup {id},
                                          !.before[id] = keychain[id]]
    <3>1. \A id : job(id).next = jobs[j].next
      BY <1>1 DEF StoreTypeOK, JobTypeOK
    <3>2. PICK id \in jobs[j].left :
            Becomes(j, job(id)) \/ GoesTo(j, "Rollback") \/ Ends(j, TRUE)
      BY <2>3 DEF ChangeSecret
    <3> HIDE DEF job
    <3> QED BY <1>1, <1>2, <1>4, <1>5, <3>1, <3>2, BecomesClosed
  <2>4. CASE WriteImported(j) \/ DeleteSecrets(j)
    BY <1>4, <1>5, <2>4 DEF WriteImported, DeleteSecrets
  <2>5. CASE Rollback(j)
    <3>1. \/ Ends(j, TRUE)
          \/ \E id \in jobs[j].secrets : Becomes(j, [jobs[j] EXCEPT !.secrets = @ \ {id}])
      BY <2>5 DEF Rollback
    <3> QED BY <1>1, <1>2, <1>5, <3>1, KeepsList, BecomesClosed
  <2> QED BY <2>1, <2>2, <2>3, <2>4, <2>5 DEF Thread
<1> QED BY <1>1, <1>2, <1>3, <1>6 DEF JumpHostsExist

LEMMA HearClosed ==
  ASSUME JumpHostsExist, NEW j \in Slots, Hear(j)
  PROVE  JumpHostsExist'
<1>1. \A i \in DOMAIN jobs' : Closed(jobs'[i].next)
  BY DEF Hear, HearSaved, HearDeleted, HearImported, Over, JumpHostsExist
<1>2. Closed(profiles') /\ disk' = disk
  BY DEF Hear, HearSaved, HearDeleted, HearImported, At, stores, JumpHostsExist
<1> QED BY <1>1, <1>2 DEF JumpHostsExist

LEMMA NextClosed == StoreTypeOK /\ JumpHostsExist /\ [Next]_vars => JumpHostsExist'
<1> SUFFICES ASSUME StoreTypeOK, JumpHostsExist, [Next]_vars PROVE JumpHostsExist'
  OBVIOUS
<1>1. CASE UserActs
  BY <1>1, ActsClosed
<1>2. ASSUME NEW j \in Slots, Thread(j) \/ Hear(j) PROVE JumpHostsExist'
  BY <1>2, ThreadClosed, HearClosed
<1>3. CASE UNCHANGED vars
  BY <1>3 DEF vars, JumpHostsExist
<1> QED BY <1>1, <1>2, <1>3 DEF Next

\* However saves, deletions and imports overtake each other, fail or are cut short
\* by the end of the program, no list names a jump host it does not hold.
THEOREM JumpHostsAlwaysExist == Spec => []JumpHostsExist
<1>1. StoreTypeOK /\ JumpHostsExist /\ [Next]_vars => (StoreTypeOK /\ JumpHostsExist)'
  BY NextTyped, NextClosed
<1> QED BY <1>1, InitTyped, InitClosed, PTL DEF Spec
-----------------------------------------------------------------------------
\* The locks.  A thread keeps what it works for until the window has heard of it.
OneImport ==
    \A i, j \in DOMAIN jobs : jobs[i].kind = "Import" /\ jobs[j].kind = "Import" => i = j

Marked(f, id) == {j \in DOMAIN f : f[j].id = id}

LEMMA MarkedFinite ==
  ASSUME StoreTypeOK, NEW id
  PROVE  IsFiniteSet(Marked(jobs, id)) /\ Cardinality(Marked(jobs, id)) \in Nat
<1>1. IsFiniteSet(Slots)
  BY BoundsAssumption, FS_Interval DEF Slots
<1>2. Marked(jobs, id) \subseteq Slots
  BY DEF Marked, StoreTypeOK
<1> QED BY <1>1, <1>2, FS_Subset, FS_CardinalityType

LEMMA StartMarks ==
  ASSUME StoreTypeOK, NEW job, Start(job)
  PROVE  /\ \A id : Cardinality(Marked(jobs', id)) =
                      Cardinality(Marked(jobs, id)) + IF job.id = id THEN 1 ELSE 0
         /\ \E j \in DOMAIN jobs' \ DOMAIN jobs :
              /\ DOMAIN jobs' = DOMAIN jobs \cup {j}
              /\ jobs'[j] = job
              /\ \A i \in DOMAIN jobs : jobs'[i] = jobs[i]
<1>1. PICK j \in Slots \ DOMAIN jobs :
        jobs' = [i \in DOMAIN jobs \cup {j} |-> IF i = j THEN job ELSE jobs[i]]
  BY DEF Start
<1>2. ASSUME NEW id
      PROVE  Cardinality(Marked(jobs', id)) =
               Cardinality(Marked(jobs, id)) + IF job.id = id THEN 1 ELSE 0
  <2>1. CASE job.id = id
    <3>1. Marked(jobs', id) = Marked(jobs, id) \cup {j} /\ j \notin Marked(jobs, id)
      BY <1>1, <2>1 DEF Marked
    <3>2. IsFiniteSet(Marked(jobs, id)) /\ Cardinality(Marked(jobs, id)) \in Nat
      BY MarkedFinite
    <3>3. Cardinality(Marked(jobs, id) \cup {j}) = Cardinality(Marked(jobs, id)) + 1
      BY <3>1, <3>2, FS_AddElement
    <3> QED BY <2>1, <3>1, <3>3
  <2>2. CASE job.id # id
    <3>1. Marked(jobs', id) = Marked(jobs, id)
      BY <1>1, <2>2 DEF Marked
    <3>2. Cardinality(Marked(jobs, id)) \in Nat
      BY MarkedFinite
    <3> QED BY <2>2, <3>1, <3>2
  <2> QED BY <2>1, <2>2
<1>3. /\ j \in DOMAIN jobs' \ DOMAIN jobs
      /\ DOMAIN jobs' = DOMAIN jobs \cup {j}
      /\ jobs'[j] = job
      /\ \A i \in DOMAIN jobs : jobs'[i] = jobs[i]
  BY <1>1
<1> QED BY <1>2, <1>3

\* Any act that starts one thread, with a mark if it is for a profile and with the
\* lock if it is an import.
LEMMA StartLocks ==
  ASSUME StoreTypeOK, LocksHaveThreads, OneImport, NEW job, Start(job),
         IF job.kind = "Import"
         THEN job.id = None /\ ~importing /\ importing' /\ busy' = busy
         ELSE importing' = importing /\ job.id \in Ids
              /\ busy' = [busy EXCEPT ![job.id] = @ + 1]
  PROVE  LocksHaveThreads' /\ OneImport'
<1>1. PICK j \in DOMAIN jobs' \ DOMAIN jobs :
        /\ DOMAIN jobs' = DOMAIN jobs \cup {j}
        /\ jobs'[j] = job
        /\ \A i \in DOMAIN jobs : jobs'[i] = jobs[i]
  BY StartMarks
<1>2. ASSUME NEW id \in Ids
      PROVE  busy'[id] <= Cardinality({i \in DOMAIN jobs' : jobs'[i].id = id})
  <2>1. Cardinality(Marked(jobs', id)) =
          Cardinality(Marked(jobs, id)) + IF job.id = id THEN 1 ELSE 0
    BY StartMarks
  <2>2. busy[id] \in Nat /\ Cardinality(Marked(jobs, id)) \in Nat
    BY MarkedFinite DEF StoreTypeOK
  <2>3. busy[id] <= Cardinality(Marked(jobs, id))
    BY DEF LocksHaveThreads, Marked
  <2>4. busy'[id] = busy[id] + (IF job.id = id THEN 1 ELSE 0)
    BY <2>2, NoneAssumption DEF StoreTypeOK
  <2> QED BY <2>1, <2>2, <2>3, <2>4 DEF Marked
<1>3. importing' <=> \E i \in DOMAIN jobs' : jobs'[i].kind = "Import"
  BY <1>1 DEF LocksHaveThreads
<1>4. OneImport'
  BY <1>1 DEF OneImport, LocksHaveThreads
<1> QED BY <1>2, <1>3, <1>4 DEF LocksHaveThreads

LEMMA ActsKeepLocks ==
  ASSUME StoreTypeOK, LocksHaveThreads, OneImport, UserActs
  PROVE  LocksHaveThreads' /\ OneImport'
<1>1. ASSUME NEW id \in Ids, NEW content \in Forms, NEW password \in BOOLEAN,
             SaveEditor(id, content, password)
      PROVE  LocksHaveThreads' /\ OneImport'
  <2>1. PICK list, stage, routed, new :
          Start([Job("Save", id, list, stage) EXCEPT
                   !.password = password, !.routed = routed, !.newLogin = new])
    BY <1>1 DEF SaveEditor
  <2> DEFINE job == [Job("Save", id, list, stage) EXCEPT
                       !.password = password, !.routed = routed, !.newLogin = new]
  <2>2. job.kind = "Save" /\ job.id = id
    BY DEF Job
  <2>3. importing' = importing /\ busy' = [busy EXCEPT ![id] = @ + 1]
    BY <1>1 DEF SaveEditor
  <2> HIDE DEF job
  <2> QED BY <2>1, <2>2, <2>3, StartLocks DEF job
<1>2. ASSUME NEW id \in Ids, NEW kind \in {"Delete", "Forget"}, NEW list,
             Start(Job(kind, id, list, "Delete")),
             importing' = importing, busy' = [busy EXCEPT ![id] = @ + 1]
      PROVE  LocksHaveThreads' /\ OneImport'
  <2>1. Job(kind, id, list, "Delete").kind = kind /\ Job(kind, id, list, "Delete").id = id
    BY DEF Job
  <2> QED BY <1>2, <2>1, StartLocks
<1>3. ASSUME NEW id \in Ids, DeleteProfile(id) PROVE LocksHaveThreads' /\ OneImport'
  BY <1>2, <1>3 DEF DeleteProfile
<1>4. ASSUME NEW id \in Ids, ForgetCredential(id) PROVE LocksHaveThreads' /\ OneImport'
  BY <1>2, <1>4 DEF ForgetCredential
<1>5. ASSUME UNCHANGED <<jobs, busy, importing>> PROVE LocksHaveThreads' /\ OneImport'
  BY <1>5 DEF LocksHaveThreads, OneImport
<1>6. ASSUME NEW id \in Ids, ApproveCommand(id) \/ RememberLogin(id)
      PROVE  LocksHaveThreads' /\ OneImport'
  BY <1>5, <1>6 DEF ApproveCommand, RememberLogin
<1>7. ASSUME NEW config \in Configs, Preview(config) PROVE LocksHaveThreads' /\ OneImport'
  BY <1>5, <1>7 DEF Preview
<1>8. ASSUME NEW selected \in SUBSET DOMAIN preview, NEW overwrite \in SUBSET DOMAIN preview,
             ApplyImport(selected, overwrite)
      PROVE  LocksHaveThreads' /\ OneImport'
  <2>1. PICK list, left, failed, stage :
          Start([Job("Import", None, list, stage) EXCEPT !.left = left])
          \/ Start([Job("Import", None, list, stage) EXCEPT !.failed = failed])
    BY <1>8 DEF ApplyImport
  <2>2. PICK job : Start(job) /\ job.kind = "Import" /\ job.id = None
    <3>1. /\ [Job("Import", None, list, stage) EXCEPT !.left = left].kind = "Import"
          /\ [Job("Import", None, list, stage) EXCEPT !.left = left].id = None
          /\ [Job("Import", None, list, stage) EXCEPT !.failed = failed].kind = "Import"
          /\ [Job("Import", None, list, stage) EXCEPT !.failed = failed].id = None
      BY DEF Job
    <3> QED BY <2>1, <3>1
  <2>3. ~importing /\ importing' /\ busy' = busy
    BY <1>8 DEF ApplyImport
  <2> QED BY <2>2, <2>3, StartLocks
<1>9. CASE Restart
  <2>1. DOMAIN jobs' = {} /\ ~importing' /\ \A id \in Ids : busy'[id] = 0
    BY <1>9 DEF Restart
  <2>2. \A id : {j \in DOMAIN jobs' : jobs'[j].id = id} = {}
    BY <2>1
  <2>3. Cardinality({}) = 0
    BY FS_EmptySet
  <2> QED BY <2>1, <2>2, <2>3 DEF LocksHaveThreads, OneImport
<1> QED BY <1>1, <1>3, <1>4, <1>6, <1>7, <1>8, <1>9 DEF UserActs

\* What no step of a thread changes.
LEMMA ThreadKeeps ==
  ASSUME StoreTypeOK, NEW j \in Slots, Thread(j)
  PROVE  /\ j \in DOMAIN jobs /\ DOMAIN jobs' = DOMAIN jobs
         /\ \A i \in DOMAIN jobs : i # j => jobs'[i] = jobs[i]
         /\ jobs'[j].kind = jobs[j].kind /\ jobs'[j].id = jobs[j].id
         /\ profiles' = profiles /\ busy' = busy /\ importing' = importing
<1>1. j \in DOMAIN jobs /\ profiles' = profiles /\ busy' = busy /\ importing' = importing
  BY DEF Thread, LoadBefore, ApplyPassword, ApplyCommand, WriteEdited, RestoreCommand,
         RestorePassword, CleanupLogin, ChangeSecret, WriteImported, Rollback,
         DeleteSecrets, At, Window
<1> DEFINE Kept(job) == job.kind = jobs[j].kind /\ job.id = jobs[j].id
<1>2. PICK job : Becomes(j, job) /\ Kept(job)
  <2>a. \A stage : GoesTo(j, stage) => \E job : Becomes(j, job) /\ Kept(job)
    <3> SUFFICES ASSUME NEW stage PROVE Kept([jobs[j] EXCEPT !.stage = stage])
      BY DEF GoesTo
    <3> QED BY <1>1 DEF StoreTypeOK, JobTypeOK
  <2>b. \A failed : Ends(j, failed) => \E job : Becomes(j, job) /\ Kept(job)
    <3> SUFFICES ASSUME NEW failed
                 PROVE  Kept([jobs[j] EXCEPT !.stage = "Done", !.failed = failed])
      BY DEF Ends
    <3> QED BY <1>1 DEF StoreTypeOK, JobTypeOK
  <2>1. CASE LoadBefore(j)
    <3>1. Kept([jobs[j] EXCEPT !.stage = "ApplyPassword", !.before = keychain])
      BY <1>1 DEF StoreTypeOK, JobTypeOK
    <3> HIDE DEF Kept
    <3> QED BY <2>b, <2>1, <3>1 DEF LoadBefore
  <2>2. CASE \/ ApplyPassword(j) \/ ApplyCommand(j) \/ WriteEdited(j)
             \/ RestoreCommand(j) \/ RestorePassword(j) \/ CleanupLogin(j)
             \/ WriteImported(j) \/ DeleteSecrets(j)
    <3> HIDE DEF Kept
    <3> QED BY <2>a, <2>b, <2>2 DEF ApplyPassword, ApplyCommand, WriteEdited,
                 RestoreCommand, RestorePassword, CleanupLogin, WriteImported, DeleteSecrets
  <2>3. CASE ChangeSecret(j)
    <3>1. \A id : Kept([jobs[j] EXCEPT !.left = @ \ {id}, !.secrets = @ \cup {id},
                                       !.before[id] = keychain[id]])
      BY <1>1 DEF StoreTypeOK, JobTypeOK
    <3> HIDE DEF Kept
    <3> QED BY <2>a, <2>b, <2>3, <3>1 DEF ChangeSecret
  <2>4. CASE Rollback(j)
    <3>1. \A id : Kept([jobs[j] EXCEPT !.secrets = @ \ {id}])
      BY <1>1 DEF StoreTypeOK, JobTypeOK
    <3> HIDE DEF Kept
    <3> QED BY <2>b, <2>4, <3>1 DEF Rollback
  <2> QED BY <2>1, <2>2, <2>3, <2>4 DEF Thread
<1> QED BY <1>1, <1>2, SMTT(30) DEF Becomes

LEMMA ThreadKeepsLocks ==
  ASSUME StoreTypeOK, LocksHaveThreads, OneImport, NEW j \in Slots, Thread(j)
  PROVE  LocksHaveThreads' /\ OneImport'
<1>1. /\ DOMAIN jobs' = DOMAIN jobs /\ busy' = busy /\ importing' = importing
      /\ \A i \in DOMAIN jobs : jobs'[i].kind = jobs[i].kind /\ jobs'[i].id = jobs[i].id
  BY ThreadKeeps
<1>2. \A id : {i \in DOMAIN jobs' : jobs'[i].id = id} = {i \in DOMAIN jobs : jobs[i].id = id}
  BY <1>1
<1> QED BY <1>1, <1>2 DEF LocksHaveThreads, OneImport

\* One thread less, and at least one mark of its profile less.
LEMMA HearKeepsLocks ==
  ASSUME StoreTypeOK, LocksHaveThreads, OneImport, NEW j \in Slots, Hear(j)
  PROVE  LocksHaveThreads' /\ OneImport'
<1>1. j \in DOMAIN jobs /\ Over(j)
  BY DEF Hear, HearSaved, HearDeleted, HearImported, At
<1>2. ASSUME NEW id
      PROVE  Cardinality(Marked(jobs', id)) =
               Cardinality(Marked(jobs, id)) - IF jobs[j].id = id THEN 1 ELSE 0
  <2>0. IsFiniteSet(Marked(jobs, id)) /\ Cardinality(Marked(jobs, id)) \in Nat
    BY MarkedFinite
  <2>1. CASE jobs[j].id = id
    <3>1. Marked(jobs', id) = Marked(jobs, id) \ {j} /\ j \in Marked(jobs, id)
      BY <1>1, <2>1 DEF Marked, Over
    <3>2. Cardinality(Marked(jobs, id) \ {j}) = Cardinality(Marked(jobs, id)) - 1
      BY <2>0, <3>1, FS_RemoveElement
    <3> QED BY <2>1, <3>1, <3>2
  <2>2. CASE jobs[j].id # id
    <3>1. Marked(jobs', id) = Marked(jobs, id)
      BY <1>1, <2>2 DEF Marked, Over
    <3> QED BY <2>0, <2>2, <3>1
  <2> QED BY <2>1, <2>2
<1>3. IF jobs[j].kind = "Import" THEN jobs[j].id = None ELSE jobs[j].id \in Ids
  BY <1>1 DEF StoreTypeOK, JobTypeOK
<1>4. ASSUME NEW id \in Ids
      PROVE  busy'[id] <= Cardinality({i \in DOMAIN jobs' : jobs'[i].id = id})
  <2>1. Cardinality(Marked(jobs', id)) =
          Cardinality(Marked(jobs, id)) - IF jobs[j].id = id THEN 1 ELSE 0
    BY <1>2
  <2>2. busy[id] \in Nat /\ Cardinality(Marked(jobs, id)) \in Nat
    BY MarkedFinite DEF StoreTypeOK
  <2>3. busy[id] <= Cardinality(Marked(jobs, id))
    BY DEF LocksHaveThreads, Marked
  <2>4. \/ jobs[j].id # id /\ busy'[id] = busy[id]
        \/ jobs[j].id = id /\ busy'[id] = 0
        \/ jobs[j].id = id /\ busy'[id] = busy[id] - 1
    BY <1>3, <2>2, NoneAssumption DEF Hear, HearSaved, HearDeleted, HearImported, At, StoreTypeOK
  <2>5. Cardinality(Marked(jobs', id)) \in Nat
    <3>1. IsFiniteSet(Marked(jobs, id)) /\ Marked(jobs', id) \subseteq Marked(jobs, id)
      BY <1>1, MarkedFinite DEF Over, Marked
    <3> QED BY <3>1, FS_Subset, FS_CardinalityType
  <2> QED BY <2>1, <2>2, <2>3, <2>4, <2>5 DEF Marked
<1>5. importing' <=> \E i \in DOMAIN jobs' : jobs'[i].kind = "Import"
  <2>1. CASE jobs[j].kind = "Import"
    BY <1>1, <2>1 DEF Hear, HearSaved, HearDeleted, HearImported, At, Over, OneImport
  <2>2. CASE jobs[j].kind # "Import"
    <3>1. importing' = importing
      BY <2>2 DEF Hear, HearSaved, HearDeleted, HearImported, At
    <3>2. (\E i \in DOMAIN jobs' : jobs'[i].kind = "Import")
            <=> (\E i \in DOMAIN jobs : jobs[i].kind = "Import")
      BY <1>1, <2>2 DEF Over
    <3> QED BY <3>1, <3>2 DEF LocksHaveThreads
  <2> QED BY <2>1, <2>2
<1>6. OneImport'
  BY <1>1 DEF Over, OneImport
<1> QED BY <1>4, <1>5, <1>6 DEF LocksHaveThreads

LEMMA InitLocks == Init => LocksHaveThreads /\ OneImport
<1> SUFFICES ASSUME Init PROVE LocksHaveThreads /\ OneImport
  OBVIOUS
<1>1. DOMAIN jobs = {} /\ ~importing /\ \A id \in Ids : busy[id] = 0
  BY DEF Init
<1>2. \A id : {j \in DOMAIN jobs : jobs[j].id = id} = {}
  BY <1>1
<1>3. Cardinality({}) = 0
  BY FS_EmptySet
<1> QED BY <1>1, <1>2, <1>3 DEF LocksHaveThreads, OneImport

\* Behind every mark of a profile and behind the lock of the import page there is a
\* thread the window will hear of, whatever fails and however marks are shared
\* (credential_mutations_in_progress, openssh_import_loading).
THEOREM LocksAlwaysHaveThreads == Spec => []LocksHaveThreads
<1> DEFINE LInv == StoreTypeOK /\ LocksHaveThreads /\ OneImport
<1>1. Init => LInv
  BY InitTyped, InitLocks
<1>2. LInv /\ [Next]_vars => LInv'
  <2> SUFFICES ASSUME LInv, [Next]_vars PROVE LInv'
    OBVIOUS
  <2>1. StoreTypeOK'
    BY NextTyped
  <2>2. CASE UserActs
    BY <2>1, <2>2, ActsKeepLocks
  <2>3. ASSUME NEW j \in Slots, Thread(j) \/ Hear(j) PROVE LocksHaveThreads' /\ OneImport'
    BY <2>3, ThreadKeepsLocks, HearKeepsLocks
  <2>4. CASE UNCHANGED vars
    BY <2>1, <2>4 DEF vars, LocksHaveThreads, OneImport
  <2> QED BY <2>1, <2>2, <2>3, <2>4 DEF Next
<1> QED BY <1>1, <1>2, PTL DEF Spec
-----------------------------------------------------------------------------
\* The stores, as long as writers do not meet.  At most one thread is at work then,
\* and what it has done to the file and the keychain can be read off its stage:
\* the following say so of a thread, a list of the window, a file and a keychain.
Kinds == DOMAIN NoSecrets

LoginFits(list, keys, id) ==
    \/ keys[id].login = None
    \/ id \in DOMAIN list /\ list[id].source # None
    \/ keys[id].login = SecretsOf(list, id).login

Fits(list, keys) ==
    \A id \in Ids : /\ keys[id].command = SecretsOf(list, id).command
                    /\ LoginFits(list, keys, id)

\* Nothing differs but secrets of these kinds of this profile.
Touched(keys, before, id, kinds) ==
    \A i \in Ids : \A kind \in Kinds :
      keys[i][kind] # before[i][kind] => i = id /\ kind \in kinds

\* The list to write changes one profile, whose import is not forgotten.
EditOK(job) ==
    /\ \A i \in Ids : i # job.id => (i \in DOMAIN job.next <=> i \in DOMAIN job.found)
    /\ \A i \in DOMAIN job.found : i # job.id => job.next[i] = job.found[i]
    /\ IF job.id \in DOMAIN job.found
       THEN /\ job.id \in DOMAIN job.next
            /\ job.next[job.id].source = job.found[job.id].source
            /\ job.newLogin \/ job.next[job.id].content.login = job.found[job.id].content.login
       ELSE ~job.newLogin

CommandReady(job, keys) == keys[job.id].command = SecretsOf(job.next, job.id).command

Routing == {"Load", "ApplyPassword", "ApplyCommand"}

SaveProgress(job, file, keys) ==
    \/ /\ job.stage \in {"Load", "ApplyPassword"} \/ (job.stage = "Done" /\ job.failed)
       /\ file = job.found /\ keys = job.before
    \/ /\ job.stage \in {"ApplyCommand", "RestorePassword"}
       /\ file = job.found /\ Touched(keys, job.before, job.id, {"password"})
    \/ /\ job.stage = "Write"
       /\ file = job.found /\ CommandReady(job, keys)
       /\ IF job.routed THEN Touched(keys, job.before, job.id, {"password", "command"})
                        ELSE keys = job.before
    \/ /\ job.stage = "RestoreCommand"
       /\ file = job.found /\ Touched(keys, job.before, job.id, {"password", "command"})
    \/ /\ job.stage = "Cleanup"
       /\ file = job.next
       /\ \A i \in Ids : /\ keys[i].command = SecretsOf(job.next, i).command
                         /\ i # job.id => LoginFits(job.next, keys, i)
    \/ /\ job.stage = "Done" /\ ~job.failed
       /\ file = job.next /\ Fits(job.next, keys)

SaveOK(job, list, file, keys) ==
    /\ list = job.found
    /\ Fits(job.found, job.before)
    /\ EditOK(job)
    /\ job.stage \in Routing => job.routed
    /\ SaveProgress(job, file, keys)

\* Those of an import that are not moved yet are as they were, those that are say
\* what the list to write says.
ImportProgress(job, file, keys) ==
    \/ /\ job.stage \in {"Change", "Rollback"}
       /\ file = job.found
       /\ \A id \in Ids : /\ id \notin job.secrets => keys[id].command = job.before[id].command
                          /\ keys[id].password = job.before[id].password
                          /\ keys[id].login = job.before[id].login
       /\ job.stage = "Change" =>
            \A id \in Ids : /\ id \in job.secrets => keys[id].command = SecretsOf(job.next, id).command
                            /\ id \in job.left => id \notin job.secrets
                            /\ id \notin job.left \cup job.secrets =>
                                 job.before[id].command = SecretsOf(job.next, id).command
                            /\ LoginFits(job.next, job.before, id)
    \/ /\ job.stage = "Done" /\ job.failed
       /\ file = job.found /\ keys = job.before
    \/ /\ job.stage = "Done" /\ ~job.failed
       /\ file = job.next /\ Fits(job.next, keys)

ImportOK(job, list, file, keys) ==
    /\ list = job.found
    /\ Fits(job.found, job.before)
    /\ ImportProgress(job, file, keys)

DeleteOK(job, list, file, keys) ==
    /\ file = list
    /\ \/ /\ job.stage = "Delete"
          /\ \A i \in Ids : i # job.id => /\ keys[i].command = SecretsOf(file, i).command
                                          /\ LoginFits(file, keys, i)
          /\ IF job.kind = "Delete" THEN job.id \notin DOMAIN file
             ELSE keys[job.id].command = SecretsOf(file, job.id).command
       \/ job.stage = "Done" /\ Fits(file, keys)

JobOK(job, list, file, keys) ==
    /\ job.kind = "Save" => SaveOK(job, list, file, keys)
    /\ job.kind = "Import" => ImportOK(job, list, file, keys)
    /\ job.kind \in {"Delete", "Forget"} => DeleteOK(job, list, file, keys)

Alone == \A i, j \in DOMAIN jobs : i = j

CalmInv ==
    calm => /\ Alone
            /\ Quiet => disk = profiles /\ Fits(disk, keychain)
            /\ \A j \in DOMAIN jobs : JobOK(jobs[j], profiles, disk, keychain)

\* The invariant says what is wanted of the stores.
LEMMA FailedAsBefore ==
  ASSUME NEW job, NEW list, NEW file, NEW keys, JobOK(job, list, file, keys),
         job.kind \in {"Save", "Import"}, job.stage = "Done", job.failed
  PROVE  file = job.found /\ keys = job.before
BY DEF JobOK, SaveOK, ImportOK, SaveProgress, ImportProgress, Routing

LEMMA CalmAgrees == StoreTypeOK /\ CalmInv => StoresAgree
<1> SUFFICES ASSUME StoreTypeOK, CalmInv, calm PROVE FailuresUndone /\ (Quiet => disk = profiles /\ SecretsMatchProfiles)
  BY DEF StoresAgree
<1>1. FailuresUndone
  <2> SUFFICES ASSUME NEW j \in DOMAIN jobs, jobs[j].kind \in {"Save", "Import"},
                      jobs[j].stage = "Done", jobs[j].failed
               PROVE  disk = jobs[j].found /\ keychain = jobs[j].before
    BY DEF FailuresUndone
  <2>1. JobOK(jobs[j], profiles, disk, keychain)
    BY DEF CalmInv
  <2> QED BY <2>1, FailedAsBefore
<1>2. Quiet => disk = profiles /\ SecretsMatchProfiles
  BY DEF CalmInv, Fits, LoginFits, SecretsMatchProfiles
<1> QED BY <1>1, <1>2
-----------------------------------------------------------------------------
\* A profile the edit does not touch needs the secrets it needed.
LEMMA EditSecrets ==
  ASSUME NEW job, EditOK(job), NEW i \in Ids, i # job.id
  PROVE  /\ SecretsOf(job.next, i) = SecretsOf(job.found, i)
         /\ \A keys : LoginFits(job.next, keys, i) <=> LoginFits(job.found, keys, i)
<1>1. i \in DOMAIN job.next <=> i \in DOMAIN job.found
  BY DEF EditOK
<1>2. i \in DOMAIN job.found => job.next[i] = job.found[i]
  BY DEF EditOK
<1>3. SecretsOf(job.next, i) = SecretsOf(job.found, i)
  BY <1>1, <1>2, ZenonT(30) DEF SecretsOf, UsesCommand
<1> QED BY <1>1, <1>2, <1>3 DEF LoginFits

\* Unless the edit says otherwise, the edited profile may keep its secret to log in.
LEMMA EditLogin ==
  ASSUME NEW job, EditOK(job), job.id \in Ids, ~job.newLogin, NEW keys,
         LoginFits(job.found, keys, job.id)
  PROVE  LoginFits(job.next, keys, job.id)
<1>1. CASE job.id \in DOMAIN job.found
  <2>1. /\ job.id \in DOMAIN job.next
        /\ job.next[job.id].source = job.found[job.id].source
        /\ job.next[job.id].content.login = job.found[job.id].content.login
    BY <1>1 DEF EditOK
  <2>2. SecretsOf(job.next, job.id).login = SecretsOf(job.found, job.id).login
    BY <1>1, <2>1 DEF SecretsOf
  <2> QED BY <1>1, <2>1, <2>2 DEF LoginFits
<1>2. CASE job.id \notin DOMAIN job.found
  <2>1. SecretsOf(job.found, job.id).login = None
    BY <1>2 DEF SecretsOf
  <2> QED BY <1>2, <2>1 DEF LoginFits
<1> QED BY <1>1, <1>2

\* What replacing one secret does.
LEMMA SecretChanges ==
  ASSUME StoreTypeOK, NEW id \in Ids, NEW kind \in Kinds, NEW value, Secret(id, kind, value)
  PROVE  \A i \in Ids, k \in Kinds :
           keychain'[i][k] = IF i = id /\ k = kind THEN value ELSE keychain[i][k]
BY DEF Secret, StoreTypeOK, Keychains, Kinds, NoSecrets

LEMMA SameKeys ==
  ASSUME NEW keys \in Keychains, NEW before \in Keychains,
         \A i \in Ids : keys[i].command = before[i].command
                        /\ keys[i].password = before[i].password
                        /\ keys[i].login = before[i].login
  PROVE  keys = before
BY SMTT(30) DEF Keychains

LEMMA KindsAre == Kinds = {"command", "password", "login"}
BY DEF Kinds, NoSecrets

\* A thread goes to a stage, or ends, with all it carries.
SameWork(new, old) ==
    /\ new.kind = old.kind /\ new.id = old.id /\ new.next = old.next
    /\ new.found = old.found /\ new.before = old.before
    /\ new.newLogin = old.newLogin /\ new.routed = old.routed
    /\ new.secrets = old.secrets /\ new.left = old.left

LEMMA GoesToMoves ==
  ASSUME StoreTypeOK, NEW j \in DOMAIN jobs, NEW stage, GoesTo(j, stage)
  PROVE  SameWork(jobs'[j], jobs[j]) /\ jobs'[j].stage = stage
<1>1. /\ SameWork([jobs[j] EXCEPT !.stage = stage], jobs[j])
      /\ [jobs[j] EXCEPT !.stage = stage].stage = stage
  BY DEF StoreTypeOK, JobTypeOK, SameWork
<1>2. jobs'[j] = [jobs[j] EXCEPT !.stage = stage]
  BY DEF GoesTo, Becomes
<1> QED BY <1>1, <1>2

LEMMA EndsMoves ==
  ASSUME StoreTypeOK, NEW j \in DOMAIN jobs, NEW failed, Ends(j, failed)
  PROVE  SameWork(jobs'[j], jobs[j]) /\ jobs'[j].stage = "Done" /\ jobs'[j].failed = failed
<1> DEFINE new == [jobs[j] EXCEPT !.stage = "Done", !.failed = failed]
<1>1. JobTypeOK(jobs[j])
  BY DEF StoreTypeOK
<1>2. SameWork(new, jobs[j])
  BY <1>1 DEF JobTypeOK, SameWork
<1>3. new.stage = "Done" /\ new.failed = failed
  BY <1>1 DEF JobTypeOK
<1>4. jobs'[j] = new
  BY DEF Ends, Becomes
<1> QED BY <1>2, <1>3, <1>4
-----------------------------------------------------------------------------
\* The thread of a save, stage by stage.
LEMMA SaveMoves ==
  ASSUME StoreTypeOK, StoreTypeOK', NEW j \in DOMAIN jobs, jobs[j].kind = "Save",
         SaveOK(jobs[j], profiles, disk, keychain), calm',
         \/ LoadBefore(j) \/ ApplyPassword(j) \/ ApplyCommand(j) \/ WriteEdited(j)
         \/ RestoreCommand(j) \/ RestorePassword(j) \/ CleanupLogin(j)
  PROVE  SaveOK(jobs'[j], profiles, disk', keychain')
<1> DEFINE old == jobs[j]
           new == jobs'[j]
<1>a. /\ old.id \in Ids /\ IsList(old.next) /\ old.before \in Keychains
      /\ keychain \in Keychains /\ keychain' \in Keychains
      /\ j \in DOMAIN jobs' => JobTypeOK(new)
  BY ThreadFacts DEF StoreTypeOK
<1>b. \A stage : GoesTo(j, stage) => SameWork(new, old) /\ new.stage = stage
  BY GoesToMoves
<1>c. \A failed : Ends(j, failed) => SameWork(new, old) /\ new.stage = "Done" /\ new.failed = failed
  BY EndsMoves
<1>d. profiles = old.found /\ Fits(old.found, old.before) /\ EditOK(old)
      /\ (old.stage \in Routing => old.routed)
      /\ SaveProgress(old, disk, keychain)
  BY DEF SaveOK
<1>e. ASSUME SameWork(new, old), new.stage \in Routing => old.routed,
             SaveProgress(new, disk', keychain')
      PROVE  SaveOK(new, profiles, disk', keychain')
  <2>1. EditOK(new) /\ Fits(new.found, new.before) /\ profiles = new.found
    BY <1>d, <1>e DEF SameWork, EditOK
  <2> QED BY <1>e, <2>1 DEF SaveOK, SameWork
<1>k. ASSUME NEW kind \in Kinds, NEW value, Secret(old.id, kind, value)
      PROVE  \A i \in Ids, k \in Kinds :
               keychain'[i][k] = IF i = old.id /\ k = kind THEN value ELSE keychain[i][k]
  BY <1>a, <1>k, SecretChanges
<1> SUFFICES SaveOK(new, profiles, disk', keychain')
  OBVIOUS
<1> HIDE DEF old, new
<1>1. CASE LoadBefore(j)
  <2>1. old.stage = "Load" /\ disk' = disk /\ keychain' = keychain
    BY <1>1 DEF LoadBefore, At, stores, old
  <2>2. disk = old.found /\ keychain = old.before /\ old.routed
    BY <1>d, <2>1 DEF SaveProgress, Routing
  <2>3. CASE Becomes(j, [jobs[j] EXCEPT !.stage = "ApplyPassword", !.before = keychain])
    <3>1. JobTypeOK(jobs[j])
      BY DEF StoreTypeOK
    <3>2. /\ [jobs[j] EXCEPT !.stage = "ApplyPassword", !.before = keychain].stage = "ApplyPassword"
          /\ SameWork([jobs[j] EXCEPT !.stage = "ApplyPassword", !.before = keychain], jobs[j])
      BY <2>2, <3>1 DEF JobTypeOK, SameWork, old
    <3>3. new.stage = "ApplyPassword" /\ SameWork(new, old)
      BY <2>3, <3>2 DEF Becomes, new, old
    <3>4. SaveProgress(new, disk', keychain')
      BY <2>1, <2>2, <3>3 DEF SaveProgress, SameWork
    <3> QED BY <1>e, <2>2, <3>3, <3>4
  <2>4. CASE Ends(j, TRUE)
    <3>1. SaveProgress(new, disk', keychain')
      BY <1>c, <2>1, <2>2, <2>4 DEF SaveProgress, SameWork
    <3> QED BY <1>c, <1>e, <2>2, <2>4, <3>1
  <2> QED BY <1>1, <2>3, <2>4 DEF LoadBefore
<1>2. CASE ApplyPassword(j)
  <2>1. old.stage = "ApplyPassword" /\ disk' = disk
    BY <1>2 DEF ApplyPassword, At, old
  <2>2. disk = old.found /\ keychain = old.before /\ old.routed
    BY <1>d, <2>1 DEF SaveProgress, Routing
  <2>3. CASE Secret(old.id, "password", old.password) /\ GoesTo(j, "ApplyCommand")
    <3>1. Touched(keychain', old.before, old.id, {"password"})
      BY <1>k, <2>2, <2>3, KindsAre DEF Touched
    <3>2. SaveProgress(new, disk', keychain')
      BY <1>b, <2>1, <2>2, <2>3, <3>1 DEF SaveProgress, SameWork
    <3> QED BY <1>b, <1>e, <2>2, <2>3, <3>2
  <2>4. CASE Ends(j, TRUE) /\ keychain' = keychain
    <3>1. SaveProgress(new, disk', keychain')
      BY <1>c, <2>1, <2>2, <2>4 DEF SaveProgress, SameWork
    <3> QED BY <1>c, <1>e, <2>2, <2>4, <3>1
  <2> QED BY <1>2, <2>3, <2>4 DEF ApplyPassword, old
<1>3. CASE ApplyCommand(j)
  <2>1. old.stage = "ApplyCommand" /\ disk' = disk
    BY <1>3 DEF ApplyCommand, At, old
  <2>2. disk = old.found /\ Touched(keychain, old.before, old.id, {"password"}) /\ old.routed
    BY <1>d, <2>1 DEF SaveProgress, Routing
  <2>3. CASE /\ Secret(old.id, "command", SecretsOf(old.next, old.id).command)
             /\ GoesTo(j, "Write")
    <3>1. Touched(keychain', old.before, old.id, {"password", "command"})
      BY <1>k, <2>2, <2>3, KindsAre DEF Touched
    <3>2. CommandReady(old, keychain')
      BY <1>a, <1>k, <2>3, KindsAre DEF CommandReady
    <3>3. SaveProgress(new, disk', keychain')
      BY <1>b, <2>1, <2>2, <2>3, <3>1, <3>2 DEF SaveProgress, SameWork, CommandReady
    <3> QED BY <1>b, <1>e, <2>2, <2>3, <3>3
  <2>4. CASE GoesTo(j, "RestorePassword") /\ keychain' = keychain
    <3>1. SaveProgress(new, disk', keychain')
      BY <1>b, <2>1, <2>2, <2>4 DEF SaveProgress, SameWork
    <3> QED BY <1>b, <1>e, <2>2, <2>4, <3>1
  <2> QED BY <1>3, <2>3, <2>4 DEF ApplyCommand, old
<1>4. CASE WriteEdited(j)
  <2>1. old.stage = "Write" /\ keychain' = keychain
    BY <1>4 DEF WriteEdited, At, old
  <2>2. /\ disk = old.found /\ CommandReady(old, keychain)
        /\ IF old.routed THEN Touched(keychain, old.before, old.id, {"password", "command"})
                         ELSE keychain = old.before
    BY <1>d, <2>1 DEF SaveProgress, Routing
  <2>3. \A i \in Ids : /\ keychain[i].login = old.before[i].login
                       /\ i # old.id => keychain[i].command = old.before[i].command
    BY <2>2, KindsAre DEF Touched
  <2>4. \A i \in Ids : keychain[i].command = SecretsOf(old.next, i).command
    <3> SUFFICES ASSUME NEW i \in Ids PROVE keychain[i].command = SecretsOf(old.next, i).command
      OBVIOUS
    <3>1. CASE i = old.id
      BY <2>2, <3>1 DEF CommandReady
    <3>2. CASE i # old.id
      BY <1>d, <2>3, <3>2, EditSecrets DEF Fits
    <3> QED BY <3>1, <3>2
  <2>5. \A i \in Ids : LoginFits(old.found, keychain, i)
    BY <1>d, <2>3 DEF Fits, LoginFits
  <2>6. \A i \in Ids : i # old.id => LoginFits(old.next, keychain, i)
    BY <1>d, <2>5, EditSecrets
  <2>7. CASE disk' = old.next /\ old.newLogin /\ GoesTo(j, "Cleanup")
    <3>1. SaveProgress(new, disk', keychain')
      BY <1>b, <2>1, <2>4, <2>6, <2>7 DEF SaveProgress, SameWork
    <3>2. new.stage \notin Routing
      BY <1>b, <2>7 DEF Routing
    <3> QED BY <1>b, <1>e, <2>7, <3>1, <3>2
  <2>8. CASE disk' = old.next /\ ~old.newLogin /\ Ends(j, FALSE)
    <3>1. Fits(old.next, keychain)
      BY <1>a, <1>d, <2>4, <2>5, <2>6, <2>8, EditLogin DEF Fits
    <3>2. SaveProgress(new, disk', keychain')
      BY <1>c, <2>1, <2>8, <3>1 DEF SaveProgress, SameWork
    <3>3. new.stage \notin Routing
      BY <1>c, <2>8 DEF Routing
    <3> QED BY <1>c, <1>e, <2>8, <3>2, <3>3
  <2>9. CASE disk' = disk /\ old.routed /\ GoesTo(j, "RestoreCommand")
    <3>1. SaveProgress(new, disk', keychain')
      BY <1>b, <2>1, <2>2, <2>9 DEF SaveProgress, SameWork
    <3> QED BY <1>b, <1>e, <2>9, <3>1
  <2>10. CASE disk' = disk /\ ~old.routed /\ Ends(j, TRUE)
    <3>1. SaveProgress(new, disk', keychain')
      BY <1>c, <2>1, <2>2, <2>10 DEF SaveProgress, SameWork
    <3>3. new.stage \notin Routing
      BY <1>c, <2>10 DEF Routing
    <3> QED BY <1>c, <1>e, <2>10, <3>1, <3>3
  <2>11. \/ disk' = old.next /\ old.newLogin /\ GoesTo(j, "Cleanup")
         \/ disk' = old.next /\ ~old.newLogin /\ Ends(j, FALSE)
         \/ disk' = disk /\ old.routed /\ GoesTo(j, "RestoreCommand")
         \/ disk' = disk /\ ~old.routed /\ Ends(j, TRUE)
    BY <1>4 DEF WriteEdited, old
  <2> QED BY <2>7, <2>8, <2>9, <2>10, <2>11
<1>5. CASE RestoreCommand(j)
  <2>1. old.stage = "RestoreCommand" /\ disk' = disk /\ GoesTo(j, "RestorePassword")
    BY <1>5 DEF RestoreCommand, At, old
  <2>2. disk = old.found /\ Touched(keychain, old.before, old.id, {"password", "command"})
    BY <1>d, <2>1 DEF SaveProgress, Routing
  <2>3. Secret(old.id, "command", old.before[old.id]["command"])
    BY <1>5 DEF RestoreCommand, RestoreSecret, old
  <2>4. Touched(keychain', old.before, old.id, {"password"})
    BY <1>a, <1>k, <2>2, <2>3, KindsAre DEF Touched
  <2>5. SaveProgress(new, disk', keychain')
    BY <1>b, <2>1, <2>2, <2>4 DEF SaveProgress, SameWork
  <2>6. new.stage \notin Routing
    BY <1>b, <2>1 DEF Routing
  <2> QED BY <1>b, <1>e, <2>1, <2>5, <2>6
<1>6. CASE RestorePassword(j)
  <2>1. old.stage = "RestorePassword" /\ disk' = disk /\ Ends(j, TRUE)
    BY <1>6 DEF RestorePassword, At, old
  <2>2. disk = old.found /\ Touched(keychain, old.before, old.id, {"password"})
    BY <1>d, <2>1 DEF SaveProgress, Routing
  <2>3. Secret(old.id, "password", old.before[old.id]["password"])
    BY <1>6 DEF RestorePassword, RestoreSecret, old
  <2>4. \A i \in Ids, k \in Kinds : keychain'[i][k] = old.before[i][k]
    BY <1>a, <1>k, <2>2, <2>3, KindsAre DEF Touched
  <2>5. keychain' = old.before
    BY <1>a, <2>4, KindsAre, SameKeys
  <2>6. SaveProgress(new, disk', keychain')
    BY <1>c, <2>1, <2>2, <2>5 DEF SaveProgress, SameWork
  <2>7. new.stage \notin Routing
    BY <1>c, <2>1 DEF Routing
  <2> QED BY <1>c, <1>e, <2>1, <2>6, <2>7
<1>7. CASE CleanupLogin(j)
  <2>1. old.stage = "Cleanup" /\ disk' = disk /\ Ends(j, FALSE)
    BY <1>7 DEF CleanupLogin, At, old
  <2>2. /\ disk = old.next
        /\ \A i \in Ids : /\ keychain[i].command = SecretsOf(old.next, i).command
                          /\ i # old.id => LoginFits(old.next, keychain, i)
    BY <1>d, <2>1 DEF SaveProgress, Routing
  <2>3. Secret(old.id, "login", None)
    BY <1>7 DEF CleanupLogin, old
  <2>4. \A i \in Ids : /\ keychain'[i].command = keychain[i].command
                       /\ keychain'[i].login = IF i = old.id THEN None ELSE keychain[i].login
    BY <1>k, <2>3, KindsAre
  <2>5. Fits(old.next, keychain')
    BY <2>2, <2>4 DEF Fits, LoginFits
  <2>6. SaveProgress(new, disk', keychain')
    BY <1>c, <2>1, <2>2, <2>5 DEF SaveProgress, SameWork
  <2>7. new.stage \notin Routing
    BY <1>c, <2>1 DEF Routing
  <2> QED BY <1>c, <1>e, <2>1, <2>6, <2>7
<1> QED BY <1>1, <1>2, <1>3, <1>4, <1>5, <1>6, <1>7

\* The thread of an import.
LEMMA ImportMoves ==
  ASSUME StoreTypeOK, StoreTypeOK', NEW j \in DOMAIN jobs, jobs[j].kind = "Import",
         ImportOK(jobs[j], profiles, disk, keychain), calm',
         ChangeSecret(j) \/ WriteImported(j) \/ Rollback(j)
  PROVE  ImportOK(jobs'[j], profiles, disk', keychain')
<1> DEFINE old == jobs[j]
           new == jobs'[j]
<1>a. /\ IsList(old.next) /\ old.before \in Keychains
      /\ keychain \in Keychains /\ keychain' \in Keychains
      /\ old.left \subseteq Ids /\ old.secrets \subseteq Ids
  BY ThreadFacts DEF StoreTypeOK
<1>b. \A stage : GoesTo(j, stage) => SameWork(new, old) /\ new.stage = stage
  BY GoesToMoves
<1>c. \A failed : Ends(j, failed) => SameWork(new, old) /\ new.stage = "Done" /\ new.failed = failed
  BY EndsMoves
<1>d. profiles = old.found /\ Fits(old.found, old.before) /\ ImportProgress(old, disk, keychain)
  BY DEF ImportOK
<1>e. ASSUME new.found = old.found, new.before = old.before, ImportProgress(new, disk', keychain')
      PROVE  ImportOK(new, profiles, disk', keychain')
  BY <1>d, <1>e DEF ImportOK
<1>k. ASSUME NEW id \in Ids, NEW value, Secret(id, "command", value)
      PROVE  \A i \in Ids :
               /\ keychain'[i].command = IF i = id THEN value ELSE keychain[i].command
               /\ keychain'[i].password = keychain[i].password
               /\ keychain'[i].login = keychain[i].login
  BY <1>k, KindsAre, SecretChanges
<1>s. old.stage \in {"Change", "Rollback"}
  BY DEF ChangeSecret, WriteImported, Rollback, At
<1>f. /\ disk = old.found
      /\ \A id \in Ids : /\ id \notin old.secrets => keychain[id].command = old.before[id].command
                         /\ keychain[id].password = old.before[id].password
                         /\ keychain[id].login = old.before[id].login
  BY <1>d, <1>s DEF ImportProgress
<1>g. ASSUME old.stage = "Change", NEW id \in Ids
      PROVE  /\ id \in old.secrets => keychain[id].command = SecretsOf(old.next, id).command
             /\ id \in old.left => id \notin old.secrets
             /\ id \notin old.left \cup old.secrets =>
                  old.before[id].command = SecretsOf(old.next, id).command
             /\ LoginFits(old.next, old.before, id)
  BY <1>d, <1>g DEF ImportProgress
<1>h. old.secrets = {} => keychain = old.before
  BY <1>a, <1>f, SameKeys
<1> SUFFICES ImportOK(new, profiles, disk', keychain')
  OBVIOUS
<1>1. CASE ChangeSecret(j)
  <2>1. old.stage = "Change" /\ disk' = disk
    BY <1>1 DEF ChangeSecret, At
  <2>2. PICK id \in old.left :
          \/ /\ Secret(id, "command", SecretsOf(old.next, id).command)
             /\ Becomes(j, [old EXCEPT !.left = @ \ {id}, !.secrets = @ \cup {id},
                                       !.before[id] = keychain[id]])
          \/ keychain' = keychain /\ GoesTo(j, "Rollback")
          \/ keychain' = keychain /\ Ends(j, TRUE) /\ old.secrets = {}
    BY <1>1 DEF ChangeSecret
  <2>3. CASE /\ Secret(id, "command", SecretsOf(old.next, id).command)
             /\ Becomes(j, [old EXCEPT !.left = @ \ {id}, !.secrets = @ \cup {id},
                                       !.before[id] = keychain[id]])
    <3>1. id \in Ids /\ id \notin old.secrets
      BY <1>a, <1>g, <2>1
    <3>2. keychain[id] = old.before[id]
      BY <1>a, <1>f, <3>1, SMTT(30) DEF Keychains
    <3>3. [old.before EXCEPT ![id] = keychain[id]] = old.before
      BY <1>a, <3>1, <3>2 DEF Keychains
    <3>4. /\ new.stage = "Change" /\ new.next = old.next /\ new.found = old.found
          /\ new.before = [old.before EXCEPT ![id] = keychain[id]]
          /\ new.left = old.left \ {id} /\ new.secrets = old.secrets \cup {id}
      <4>1. JobTypeOK(old)
        BY DEF StoreTypeOK
      <4>2. new = [old EXCEPT !.left = @ \ {id}, !.secrets = @ \cup {id},
                              !.before[id] = keychain[id]]
        BY <2>3 DEF Becomes
      <4> HIDE DEF old, new
      <4> QED BY <2>1, <4>1, <4>2 DEF JobTypeOK
    <3>5. \A i \in Ids :
            /\ keychain'[i].command = IF i = id THEN SecretsOf(old.next, id).command
                                                ELSE keychain[i].command
            /\ keychain'[i].password = keychain[i].password
            /\ keychain'[i].login = keychain[i].login
      BY <1>k, <2>3, <3>1
    <3> HIDE DEF old, new
    <3>6. ASSUME NEW i \in Ids
          PROVE  /\ i \notin new.secrets => keychain'[i].command = new.before[i].command
                 /\ keychain'[i].password = new.before[i].password
                 /\ keychain'[i].login = new.before[i].login
                 /\ i \in new.secrets => keychain'[i].command = SecretsOf(new.next, i).command
                 /\ i \in new.left => i \notin new.secrets
                 /\ i \notin new.left \cup new.secrets =>
                      new.before[i].command = SecretsOf(new.next, i).command
                 /\ LoginFits(new.next, new.before, i)
      BY <1>f, <1>g, <2>1, <3>3, <3>4, <3>5
    <3>7. ImportProgress(new, disk', keychain')
      BY <1>f, <2>1, <3>4, <3>6 DEF ImportProgress
    <3> QED BY <1>e, <3>3, <3>4, <3>7
  <2> HIDE DEF old, new
  <2>4. CASE keychain' = keychain /\ GoesTo(j, "Rollback")
    <3>1. ImportProgress(new, disk', keychain')
      BY <1>b, <1>f, <2>1, <2>4 DEF ImportProgress, SameWork
    <3> QED BY <1>b, <1>e, <2>4, <3>1 DEF SameWork
  <2>5. CASE keychain' = keychain /\ Ends(j, TRUE) /\ old.secrets = {}
    <3>1. ImportProgress(new, disk', keychain')
      BY <1>c, <1>f, <1>h, <2>1, <2>5 DEF ImportProgress, SameWork
    <3> QED BY <1>c, <1>e, <2>5, <3>1 DEF SameWork
  <2> QED BY <2>2, <2>3, <2>4, <2>5
<1>2. CASE WriteImported(j)
  <2>1. /\ old.stage = "Change" /\ keychain' = keychain /\ old.left = {}
        /\ \/ disk' = old.next /\ Ends(j, FALSE)
           \/ disk' = disk /\ GoesTo(j, "Rollback")
    BY <1>2 DEF WriteImported, At
  <2> HIDE DEF old, new
  <2>2. CASE disk' = old.next /\ Ends(j, FALSE)
    <3>1. \A id \in Ids : keychain[id].command = SecretsOf(old.next, id).command
      BY <1>f, <1>g, <2>1
    <3>2. \A id \in Ids : LoginFits(old.next, keychain, id)
      BY <1>f, <1>g, <2>1 DEF LoginFits
    <3>3. Fits(old.next, keychain)
      BY <3>1, <3>2 DEF Fits
    <3>4. ImportProgress(new, disk', keychain')
      BY <1>c, <2>1, <2>2, <3>3 DEF ImportProgress, SameWork
    <3> QED BY <1>c, <1>e, <2>2, <3>4 DEF SameWork
  <2>3. CASE disk' = disk /\ GoesTo(j, "Rollback")
    <3>1. ImportProgress(new, disk', keychain')
      BY <1>b, <1>f, <2>1, <2>3 DEF ImportProgress, SameWork
    <3> QED BY <1>b, <1>e, <2>3, <3>1 DEF SameWork
  <2> QED BY <2>1, <2>2, <2>3
<1>3. CASE Rollback(j)
  <2>1. /\ old.stage = "Rollback" /\ disk' = disk
        /\ \/ old.secrets = {} /\ Ends(j, TRUE) /\ keychain' = keychain
           \/ \E id \in old.secrets :
                /\ Becomes(j, [old EXCEPT !.secrets = @ \ {id}])
                /\ Secret(id, "command", old.before[id].command)
    BY <1>3 DEF Rollback, At
  <2>2. CASE old.secrets = {} /\ Ends(j, TRUE) /\ keychain' = keychain
    <3> HIDE DEF old, new
    <3>1. ImportProgress(new, disk', keychain')
      BY <1>c, <1>f, <1>h, <2>1, <2>2 DEF ImportProgress, SameWork
    <3> QED BY <1>c, <1>e, <2>2, <3>1 DEF SameWork
  <2>3. ASSUME NEW id \in old.secrets, Becomes(j, [old EXCEPT !.secrets = @ \ {id}]),
               Secret(id, "command", old.before[id].command)
        PROVE  ImportOK(new, profiles, disk', keychain')
    <3>1. /\ new.stage = "Rollback" /\ new.found = old.found /\ new.before = old.before
          /\ new.secrets = old.secrets \ {id}
      <4>1. JobTypeOK(old)
        BY DEF StoreTypeOK
      <4>2. new = [old EXCEPT !.secrets = @ \ {id}]
        BY <2>3 DEF Becomes
      <4> HIDE DEF old, new
      <4> QED BY <2>1, <4>1, <4>2 DEF JobTypeOK
    <3>2. \A i \in Ids :
            /\ keychain'[i].command = IF i = id THEN old.before[id].command
                                                ELSE keychain[i].command
            /\ keychain'[i].password = keychain[i].password
            /\ keychain'[i].login = keychain[i].login
      BY <1>a, <1>k, <2>3
    <3> HIDE DEF old, new
    <3>3. ImportProgress(new, disk', keychain')
      BY <1>f, <2>1, <3>1, <3>2 DEF ImportProgress
    <3> QED BY <1>e, <3>1, <3>3
  <2> QED BY <2>1, <2>2, <2>3
<1> QED BY <1>1, <1>2, <1>3

\* The thread of a deletion: what it was to delete is gone, or it is no longer calm.
LEMMA DeleteMoves ==
  ASSUME StoreTypeOK, NEW j \in DOMAIN jobs, jobs[j].kind \in {"Delete", "Forget"},
         DeleteOK(jobs[j], profiles, disk, keychain), calm', DeleteSecrets(j)
  PROVE  DeleteOK(jobs'[j], profiles, disk', keychain')
<1> DEFINE old == jobs[j]
           new == jobs'[j]
           kinds == IF old.kind = "Delete" THEN Kinds ELSE {"login"}
<1>1. /\ disk' = disk /\ old.id \in Ids /\ Ends(j, FALSE)
      /\ keychain' = [keychain EXCEPT ![old.id] =
                        [kind \in Kinds |-> IF kind \in kinds THEN NoSecrets[kind] ELSE @[kind]]]
  <2>1. PICK refused \in SUBSET kinds :
          /\ keychain' = [keychain EXCEPT ![old.id] =
                            [kind \in Kinds |->
                               IF kind \in kinds \ refused THEN NoSecrets[kind] ELSE @[kind]]]
          /\ refused = {}
          /\ Ends(j, refused # {})
    BY DEF DeleteSecrets, Kinds
  <2>2. kinds \ refused = kinds /\ (refused # {}) = FALSE
    BY <2>1
  <2>3. disk' = disk /\ old.id \in Ids
    BY ThreadFacts DEF DeleteSecrets
  <2> QED BY <2>1, <2>2, <2>3
<1>2. SameWork(new, old) /\ new.stage = "Done"
  BY <1>1, EndsMoves
<1>3. /\ \A i \in Ids : i # old.id => keychain'[i] = keychain[i]
      /\ keychain'[old.id].login = None
      /\ keychain'[old.id].command = IF old.kind = "Delete" THEN None ELSE keychain[old.id].command
  BY <1>1 DEF StoreTypeOK, Keychains, Kinds, NoSecrets
<1>4. old.stage = "Delete"
  BY DEF DeleteSecrets
<1> HIDE DEF old, new, kinds
<1>5. /\ disk = profiles
      /\ \A i \in Ids : i # old.id => /\ keychain[i].command = SecretsOf(disk, i).command
                                      /\ LoginFits(disk, keychain, i)
      /\ IF old.kind = "Delete" THEN old.id \notin DOMAIN disk
         ELSE keychain[old.id].command = SecretsOf(disk, old.id).command
  BY <1>4 DEF DeleteOK, old
<1>6. old.kind = "Delete" => SecretsOf(disk, old.id).command = None
  BY <1>5 DEF SecretsOf, UsesCommand
<1>7. Fits(disk, keychain')
  BY <1>3, <1>5, <1>6 DEF Fits, LoginFits
<1> QED BY <1>1, <1>2, <1>5, <1>7 DEF DeleteOK, new
-----------------------------------------------------------------------------
LEMMA ThreadKeepsCalm ==
  ASSUME StoreTypeOK, StoreTypeOK', CalmInv, NEW j \in Slots, Thread(j)
  PROVE  CalmInv'
<1> SUFFICES ASSUME calm' PROVE CalmInv'
  BY SMTT(30) DEF CalmInv
<1>1. calm
  BY DEF Thread, LoadBefore, ApplyPassword, ApplyCommand, WriteEdited, RestoreCommand,
         RestorePassword, CleanupLogin, ChangeSecret, WriteImported, Rollback,
         DeleteSecrets, RestoreSecret
<1>2. /\ j \in DOMAIN jobs /\ DOMAIN jobs' = DOMAIN jobs /\ jobs'[j].kind = jobs[j].kind
      /\ profiles' = profiles
  BY ThreadKeeps
<1>3. JobOK(jobs[j], profiles, disk, keychain) /\ Alone
  BY <1>1, <1>2 DEF CalmInv
<1>4. jobs[j].kind \in {"Save", "Delete", "Forget", "Import"}
  BY <1>2 DEF StoreTypeOK, JobTypeOK
<1>5. CASE jobs[j].kind = "Save"
  <2>1. SaveOK(jobs[j], profiles, disk, keychain)
    BY <1>3, <1>5 DEF JobOK
  <2>2. jobs[j].stage # "Delete"
    BY <2>1 DEF SaveOK, SaveProgress
  <2>3. \/ LoadBefore(j) \/ ApplyPassword(j) \/ ApplyCommand(j) \/ WriteEdited(j)
        \/ RestoreCommand(j) \/ RestorePassword(j) \/ CleanupLogin(j)
    BY <1>5, <2>2 DEF Thread, ChangeSecret, WriteImported, Rollback, DeleteSecrets, At
  <2>4. SaveOK(jobs'[j], profiles, disk', keychain')
    BY <1>2, <1>5, <2>1, <2>3, SaveMoves
  <2>5. JobOK(jobs'[j], profiles, disk', keychain')
    BY <1>2, <1>5, <2>4 DEF JobOK
  <2> QED BY <1>2, <1>3, <2>5 DEF CalmInv, Alone, Quiet
<1>6. CASE jobs[j].kind = "Import"
  <2>1. ImportOK(jobs[j], profiles, disk, keychain)
    BY <1>3, <1>6 DEF JobOK
  <2>2. jobs[j].stage # "Delete"
    BY <2>1 DEF ImportOK, ImportProgress
  <2>3. ChangeSecret(j) \/ WriteImported(j) \/ Rollback(j)
    BY <1>6, <2>2 DEF Thread, LoadBefore, ApplyPassword, ApplyCommand, WriteEdited,
         RestoreCommand, RestorePassword, CleanupLogin, DeleteSecrets, At
  <2>4. ImportOK(jobs'[j], profiles, disk', keychain')
    BY <1>2, <1>6, <2>1, <2>3, ImportMoves
  <2>5. JobOK(jobs'[j], profiles, disk', keychain')
    BY <1>2, <1>6, <2>4 DEF JobOK
  <2> QED BY <1>2, <1>3, <2>5 DEF CalmInv, Alone, Quiet
<1>7. CASE jobs[j].kind \in {"Delete", "Forget"}
  <2>1. DeleteOK(jobs[j], profiles, disk, keychain)
    BY <1>3, <1>7 DEF JobOK
  <2>2. DeleteSecrets(j)
    BY <1>7 DEF Thread, LoadBefore, ApplyPassword, ApplyCommand, WriteEdited,
         RestoreCommand, RestorePassword, CleanupLogin, ChangeSecret, WriteImported,
         Rollback, At
  <2>3. DeleteOK(jobs'[j], profiles, disk', keychain')
    BY <1>2, <1>7, <2>1, <2>2, DeleteMoves
  <2>4. JobOK(jobs'[j], profiles, disk', keychain')
    BY <1>2, <1>7, <2>3 DEF JobOK
  <2> QED BY <1>2, <1>3, <2>4 DEF CalmInv, Alone, Quiet
<1> QED BY <1>4, <1>5, <1>6, <1>7

\* The window shows what the thread has left in the file.
LEMMA HearKeepsCalm ==
  ASSUME StoreTypeOK, CalmInv, NEW j \in Slots, Hear(j)
  PROVE  CalmInv'
<1> SUFFICES ASSUME calm' PROVE CalmInv'
  BY DEF CalmInv
<1>1. /\ calm /\ j \in DOMAIN jobs /\ jobs[j].stage = "Done" /\ Over(j)
      /\ disk' = disk /\ keychain' = keychain
  BY DEF Hear, HearSaved, HearDeleted, HearImported, At, stores
<1>2. JobOK(jobs[j], profiles, disk, keychain) /\ Alone
  BY <1>1 DEF CalmInv
<1>3. DOMAIN jobs' = {}
  BY <1>1, <1>2 DEF Over, Alone
<1>4. disk' = profiles' /\ Fits(disk', keychain')
  <2>1. CASE HearSaved(j)
    <3>1. SaveOK(jobs[j], profiles, disk, keychain)
      BY <1>2, <2>1 DEF JobOK, HearSaved, At
    <3>2. /\ profiles = jobs[j].found /\ Fits(jobs[j].found, jobs[j].before)
          /\ IF jobs[j].failed THEN disk = jobs[j].found /\ keychain = jobs[j].before
             ELSE disk = jobs[j].next /\ Fits(jobs[j].next, keychain)
      BY <1>1, <3>1 DEF SaveOK, SaveProgress
    <3>3. profiles' = IF jobs[j].failed THEN profiles ELSE jobs[j].next
      BY <2>1 DEF HearSaved
    <3> QED BY <1>1, <3>2, <3>3
  <2>2. CASE HearImported(j)
    <3>1. ImportOK(jobs[j], profiles, disk, keychain)
      BY <1>2, <2>2 DEF JobOK, HearImported, At
    <3>2. /\ profiles = jobs[j].found /\ Fits(jobs[j].found, jobs[j].before)
          /\ IF jobs[j].failed THEN disk = jobs[j].found /\ keychain = jobs[j].before
             ELSE disk = jobs[j].next /\ Fits(jobs[j].next, keychain)
      BY <1>1, <3>1 DEF ImportOK, ImportProgress
    <3>3. profiles' = IF jobs[j].failed THEN profiles ELSE jobs[j].next
      BY <2>2 DEF HearImported
    <3> QED BY <1>1, <3>2, <3>3
  <2>3. CASE HearDeleted(j)
    <3>1. DeleteOK(jobs[j], profiles, disk, keychain)
      BY <1>2, <2>3 DEF JobOK, HearDeleted, At
    <3>2. disk = profiles /\ Fits(disk, keychain)
      BY <1>1, <3>1 DEF DeleteOK
    <3>3. profiles' = profiles
      BY <2>3 DEF HearDeleted
    <3> QED BY <1>1, <3>2, <3>3
  <2> QED BY <2>1, <2>2, <2>3 DEF Hear
<1> QED BY <1>3, <1>4 DEF CalmInv, Alone, Quiet
-----------------------------------------------------------------------------
\* A thread that starts alone finds both stores as they belong together.
LEMMA StartsAlone ==
  ASSUME StoreTypeOK, Quiet, NEW job, Start(job),
         NEW list, NEW file, NEW keys, JobOK(job, list, file, keys),
         list = profiles', file = disk', keys = keychain'
  PROVE  CalmInv'
<1>1. PICK j \in DOMAIN jobs' \ DOMAIN jobs : DOMAIN jobs' = DOMAIN jobs \cup {j} /\ jobs'[j] = job
  BY StartMarks
<1>2. DOMAIN jobs' = {j}
  BY <1>1 DEF Quiet
<1>3. JobOK(jobs'[j], profiles', disk', keychain')
  BY <1>1
<1> QED BY <1>2, <1>3 DEF CalmInv, Alone, Quiet

LEMMA ImportedSecrets ==
  ASSUME StoreTypeOK, NEW selected, NEW overwrite, NEW id \in Ids
  PROVE  LET next == Imported(preview, selected, profiles, overwrite) IN
         /\ id \notin SecretsMoved(preview, selected, profiles, overwrite) =>
              SecretsOf(next, id).command = SecretsOf(profiles, id).command
         /\ \A keys : LoginFits(profiles, keys, id) => LoginFits(next, keys, id)
<1> DEFINE next == Imported(preview, selected, profiles, overwrite)
           replaced == Replaced(preview, selected, profiles, overwrite)
           said == preview[id].content
<1>1. replaced \subseteq Available(preview)
  BY DEF Replaced, WithDependencies
<1>2. id \in replaced => said \in Contents
  BY <1>1 DEF Available, CandidateTypeOK, StoreTypeOK
<1>3. /\ DOMAIN next = DOMAIN profiles \cup replaced
      /\ id \in replaced => next[id] = [content |-> said, source |-> said]
      /\ id \in DOMAIN profiles \ replaced => next[id] = profiles[id]
  BY DEF Imported
<1>4. id \in SecretsMoved(preview, selected, profiles, overwrite) <=>
        id \in replaced /\ (UsesCommand(profiles, id) \/ said.upstream \in Commands)
  BY DEF SecretsMoved
<1> HIDE DEF next, replaced, said
<1>5. CASE id \in replaced
  <2>1. id \in DOMAIN next /\ next[id].source # None /\ next[id].content = said
    BY <1>2, <1>3, <1>5, NoneAssumption
  <2>2. id \notin SecretsMoved(preview, selected, profiles, overwrite) =>
          SecretsOf(next, id).command = None /\ SecretsOf(profiles, id).command = None
    BY <1>4, <1>5, <2>1 DEF SecretsOf, UsesCommand
  <2> QED BY <2>1, <2>2 DEF LoginFits, next
<1>6. CASE id \notin replaced
  <2>1. id \in DOMAIN next <=> id \in DOMAIN profiles
    BY <1>3, <1>6
  <2>2. id \in DOMAIN profiles => next[id] = profiles[id]
    BY <1>3, <1>6
  <2>3. SecretsOf(next, id) = SecretsOf(profiles, id)
    BY <2>1, <2>2, ZenonT(30) DEF SecretsOf, UsesCommand
  <2> QED BY <2>1, <2>2, <2>3 DEF LoginFits, next
<1> QED BY <1>5, <1>6

LEMMA ActsKeepCalm ==
  ASSUME StoreTypeOK, CalmInv, UserActs
  PROVE  CalmInv'
<1> SUFFICES ASSUME calm' PROVE CalmInv'
  BY DEF CalmInv
<1>a. ASSUME calm, Quiet PROVE disk = profiles /\ Fits(disk, keychain)
  BY <1>a DEF CalmInv
<1>1. ASSUME NEW id \in Ids, NEW content \in Forms, NEW password \in BOOLEAN,
             SaveEditor(id, content, password)
      PROVE  CalmInv'
  <2> DEFINE known == id \in DOMAIN profiles
             list == With(profiles, id, Edited(id, content))
  <2>1. PICK routed \in BOOLEAN, new \in BOOLEAN :
          /\ Start([Job("Save", id, list, IF routed THEN "Load" ELSE "Write") EXCEPT
                      !.password = password, !.routed = routed, !.newLogin = new])
          /\ routed <=> \/ password
                        \/ content.upstream \in Commands
                        \/ known /\ profiles[id].content.upstream # Direct
                                 /\ profiles[id].content.upstream # content.upstream
          /\ new <=> known /\ profiles[id].content.login # content.login
    <3> DEFINE old == IF known THEN profiles[id].content ELSE content
               routed == \/ password
                         \/ content.upstream \in Commands
                         \/ known /\ old.upstream # Direct /\ old.upstream # content.upstream
               new == known /\ old.login # content.login
    <3>1. Start([Job("Save", id, list, IF routed THEN "Load" ELSE "Write") EXCEPT
                      !.password = password, !.routed = routed, !.newLogin = new])
      BY <1>1 DEF SaveEditor
    <3>2. routed \in BOOLEAN /\ new \in BOOLEAN
      OBVIOUS
    <3>3. known => old = profiles[id].content
      OBVIOUS
    <3> QED BY <3>1, <3>2, <3>3
  <2> DEFINE job == [Job("Save", id, list, IF routed THEN "Load" ELSE "Write") EXCEPT
                       !.password = password, !.routed = routed, !.newLogin = new]
  <2>2. /\ job.kind = "Save" /\ job.id = id /\ job.next = list /\ job.found = disk
        /\ job.before = keychain /\ job.routed = routed /\ job.newLogin = new
        /\ job.stage = IF routed THEN "Load" ELSE "Write"
    BY DEF Job
  <2>3. calm /\ Quiet /\ UNCHANGED <<profiles, disk, keychain>>
    BY <1>1 DEF SaveEditor
  <2>4. disk = profiles /\ Fits(disk, keychain)
    BY <1>a, <2>3
  <2>5. /\ DOMAIN list = DOMAIN profiles \cup {id}
        /\ \A i \in DOMAIN profiles : i # id => list[i] = profiles[i]
        /\ list[id].content = content
        /\ known => list[id].source = profiles[id].source
    BY DEF With, Edited
  <2>6. EditOK(job)
    <3> HIDE DEF job, list
    <3> QED BY <2>1, <2>2, <2>4, <2>5 DEF EditOK
  <2>7. ~routed => CommandReady(job, keychain)
    <3> HIDE DEF job, list
    <3>1. keychain[id].command = SecretsOf(profiles, id).command
      BY <2>4 DEF Fits
    <3>2. ~routed => SecretsOf(list, id).command = None
      BY <2>1, <2>5 DEF SecretsOf, UsesCommand
    <3>3. ~routed => SecretsOf(profiles, id).command = None
      BY <2>1, CommandsAssumption DEF SecretsOf, UsesCommand
    <3> QED BY <2>2, <3>1, <3>2, <3>3 DEF CommandReady
  <2>8. JobOK(job, profiles, disk, keychain)
    <3> HIDE DEF job, list
    <3>1. SaveProgress(job, disk, keychain)
      BY <2>2, <2>7 DEF SaveProgress
    <3>2. job.stage \in Routing => job.routed
      BY <2>2 DEF Routing
    <3>3. SaveOK(job, profiles, disk, keychain)
      BY <2>2, <2>4, <2>6, <3>1, <3>2 DEF SaveOK
    <3> QED BY <2>2, <3>3 DEF JobOK
  <2>9. Start(job)
    BY <2>1
  <2> HIDE DEF job
  <2> QED BY <2>3, <2>8, <2>9, StartsAlone
<1>2. ASSUME NEW id \in Ids, DeleteProfile(id) PROVE CalmInv'
  <2> DEFINE job == Job("Delete", id, profiles', "Delete")
  <2>1. /\ calm /\ Quiet /\ disk' = profiles' /\ keychain' = keychain
        /\ profiles' = Without(profiles, id) /\ Start(job)
    BY <1>2 DEF DeleteProfile, Persist
  <2>2. disk = profiles /\ Fits(disk, keychain)
    BY <1>a, <2>1
  <2>3. job.kind = "Delete" /\ job.id = id /\ job.stage = "Delete"
    BY DEF Job
  <2> HIDE DEF job
  <2>4. /\ DOMAIN disk' = DOMAIN disk \ {id}
        /\ \A i \in DOMAIN disk' : disk'[i] = disk[i]
    BY <2>1, <2>2 DEF Without
  <2>5. ASSUME NEW i \in Ids, i # id
        PROVE  /\ keychain'[i].command = SecretsOf(disk', i).command
               /\ LoginFits(disk', keychain', i)
    <3>1. i \in DOMAIN disk' <=> i \in DOMAIN disk
      BY <2>4, <2>5
    <3>2. SecretsOf(disk', i) = SecretsOf(disk, i)
      BY <2>4, <3>1, ZenonT(30) DEF SecretsOf, UsesCommand
    <3> QED BY <2>1, <2>2, <2>4, <3>1, <3>2 DEF Fits, LoginFits
  <2>6. DeleteOK(job, profiles', disk', keychain')
    BY <2>1, <2>3, <2>4, <2>5 DEF DeleteOK
  <2>7. JobOK(job, profiles', disk', keychain')
    BY <2>3, <2>6 DEF JobOK
  <2> QED BY <2>1, <2>7, StartsAlone
<1>3. ASSUME NEW id \in Ids, ForgetCredential(id) PROVE CalmInv'
  <2> DEFINE job == Job("Forget", id, profiles, "Delete")
  <2>1. calm /\ Quiet /\ UNCHANGED <<profiles, disk, keychain>> /\ Start(job)
    BY <1>3 DEF ForgetCredential
  <2>2. disk = profiles /\ Fits(disk, keychain)
    BY <1>a, <2>1
  <2>3. job.kind = "Forget" /\ job.id = id /\ job.stage = "Delete"
    BY DEF Job
  <2> HIDE DEF job
  <2>4. DeleteOK(job, profiles, disk, keychain)
    BY <2>2, <2>3 DEF DeleteOK, Fits
  <2>5. JobOK(job, profiles, disk, keychain)
    BY <2>3, <2>4 DEF JobOK
  <2> QED BY <2>1, <2>5, StartsAlone
<1>4. ASSUME NEW id \in Ids, ApproveCommand(id) PROVE CalmInv'
  <2>1. /\ calm /\ Quiet /\ disk' = profiles
        /\ UNCHANGED <<profiles, keychain, jobs>>
    BY <1>4 DEF ApproveCommand
  <2> QED BY <1>a, <2>1 DEF CalmInv, Alone, Quiet
<1>5. ASSUME NEW id \in Ids, RememberLogin(id) PROVE CalmInv'
  <2>1. /\ calm /\ Quiet /\ id \in DOMAIN profiles
        /\ Secret(id, "login", profiles[id].content.login)
        /\ UNCHANGED <<profiles, disk, jobs>>
    BY <1>5 DEF RememberLogin
  <2>2. disk = profiles /\ Fits(disk, keychain)
    BY <1>a, <2>1
  <2>3. \A i \in Ids : /\ keychain'[i].command = keychain[i].command
                       /\ keychain'[i].login = IF i = id THEN profiles[id].content.login
                                                         ELSE keychain[i].login
    BY <2>1, KindsAre, SecretChanges
  <2>4. SecretsOf(disk, id).login = profiles[id].content.login
    BY <2>1, <2>2 DEF SecretsOf
  <2>5. Fits(disk, keychain')
    BY <2>2, <2>3, <2>4 DEF Fits, LoginFits
  <2> QED BY <2>1, <2>2, <2>5 DEF CalmInv, Alone, Quiet
<1>6. ASSUME NEW config \in Configs, Preview(config) PROVE CalmInv'
  <2>1. UNCHANGED <<profiles, disk, keychain, jobs, calm>>
    BY <1>6 DEF Preview
  <2> QED BY <2>1 DEF CalmInv, Alone, Quiet
<1>7. ASSUME NEW selected \in SUBSET DOMAIN preview, NEW overwrite \in SUBSET DOMAIN preview,
             ApplyImport(selected, overwrite)
      PROVE  CalmInv'
  <2> DEFINE list == Imported(preview, selected, profiles, overwrite)
             moved == SecretsMoved(preview, selected, profiles, overwrite)
             good == [Job("Import", None, list, "Change") EXCEPT !.left = moved]
             bad == [Job("Import", None, profiles, "Done") EXCEPT !.failed = TRUE]
  <2>1. calm /\ Quiet /\ UNCHANGED <<profiles, disk, keychain>> /\ (Start(good) \/ Start(bad))
    BY <1>7 DEF ApplyImport
  <2>2. disk = profiles /\ Fits(disk, keychain)
    BY <1>a, <2>1
  <2>3. /\ good.kind = "Import" /\ good.next = list /\ good.found = disk /\ good.before = keychain
        /\ good.stage = "Change" /\ good.left = moved /\ good.secrets = {}
    BY DEF Job
  <2>4. /\ bad.kind = "Import" /\ bad.found = disk /\ bad.before = keychain
        /\ bad.stage = "Done" /\ bad.failed
    BY DEF Job
  <2>5. ASSUME NEW id \in Ids
        PROVE  /\ id \notin moved => keychain[id].command = SecretsOf(list, id).command
               /\ LoginFits(list, keychain, id)
    <3>1. /\ id \notin moved => SecretsOf(list, id).command = SecretsOf(profiles, id).command
          /\ LoginFits(profiles, keychain, id) => LoginFits(list, keychain, id)
      BY ImportedSecrets
    <3> HIDE DEF list, moved
    <3> QED BY <2>2, <3>1 DEF Fits
  <2> HIDE DEF list, moved, good, bad
  <2>6. JobOK(good, profiles, disk, keychain)
    <3>1. ImportProgress(good, disk, keychain)
      BY <2>3, <2>5 DEF ImportProgress
    <3>2. ImportOK(good, profiles, disk, keychain)
      BY <2>2, <2>3, <3>1 DEF ImportOK
    <3> QED BY <2>3, <3>2 DEF JobOK
  <2>7. JobOK(bad, profiles, disk, keychain)
    <3>1. ImportProgress(bad, disk, keychain)
      BY <2>4 DEF ImportProgress
    <3>2. ImportOK(bad, profiles, disk, keychain)
      BY <2>2, <2>4, <3>1 DEF ImportOK
    <3> QED BY <2>4, <3>2 DEF JobOK
  <2>8. ASSUME NEW job, Start(job), JobOK(job, profiles, disk, keychain) PROVE CalmInv'
    BY <2>1, <2>8, StartsAlone
  <2> QED BY <2>1, <2>6, <2>7, <2>8
<1>8. CASE Restart
  <2>1. calm /\ Quiet /\ profiles' = disk /\ disk' = disk /\ keychain' = keychain /\ DOMAIN jobs' = {}
    BY <1>8 DEF Restart, stores
  <2> QED BY <1>a, <2>1 DEF CalmInv, Alone, Quiet
<1> QED BY <1>1, <1>2, <1>3, <1>4, <1>5, <1>6, <1>7, <1>8 DEF UserActs

LEMMA InitCalm == Init => CalmInv
<1> SUFFICES ASSUME Init PROVE CalmInv
  OBVIOUS
<1>1. Fits(disk, keychain)
  BY DEF Init, Fits, LoginFits
<1>2. disk = profiles /\ DOMAIN jobs = {}
  BY DEF Init
<1> QED BY <1>1, <1>2 DEF CalmInv, Alone, Quiet

\* As long as writers do not meet and no failure hits a step the code does not go
\* back on, what fails has changed nothing, and between two acts the window, the file
\* and the keychain agree, for any profiles, forms, configurations and imports
\* (save_editor, delete_profile, apply_openssh_preview, remcmd-storage).
THEOREM StoresAlwaysAgree == Spec => []StoresAgree
<1> DEFINE CInv == StoreTypeOK /\ CalmInv
<1>1. Init => CInv
  BY InitTyped, InitCalm
<1>2. CInv /\ [Next]_vars => CInv'
  <2> SUFFICES ASSUME CInv, [Next]_vars PROVE CInv'
    OBVIOUS
  <2>1. StoreTypeOK'
    BY NextTyped
  <2>2. CASE UserActs
    BY <2>1, <2>2, ActsKeepCalm
  <2>3. ASSUME NEW j \in Slots, Thread(j) \/ Hear(j) PROVE CalmInv'
    BY <2>1, <2>3, ThreadKeepsCalm, HearKeepsCalm
  <2>4. CASE UNCHANGED vars
    BY <2>1, <2>4 DEF vars, CalmInv, Alone, Quiet
  <2> QED BY <2>1, <2>2, <2>3, <2>4 DEF Next
<1>3. CInv => StoresAgree
  BY CalmAgrees
<1> QED BY <1>1, <1>2, <1>3, PTL DEF Spec
=============================================================================
