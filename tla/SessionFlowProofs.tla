------------------------- MODULE SessionFlowProofs -------------------------
(***************************************************************************)
(* Proofs about the way from "connect" to a running connection, for any    *)
(* sessions, profiles with their proxies and jump hosts, secrets and       *)
(* contents of the keychain.                                               *)
(*                                                                         *)
(* FlowInv, the invariant, has one part for each way in which what is      *)
(* under way may go wrong: Opened and Own (for a session that is there,    *)
(* and for its profile), Apart (a session is prepared, or approved, or     *)
(* connected), Made (the secrets are those of the first steps, and the     *)
(* typed ones are among them), Ended, Consented, and Asks and Waits (a     *)
(* prompt is for what the preparation waits for).                          *)
(*                                                                         *)
(* An operator of the model is proved about once: what it keeps, and what  *)
(* becomes of the workers (Fewer, FewerBut, Onward).  Most only take       *)
(* things away, which keeps everything but Asks and Waits (WeakerKeeps).   *)
(* Those two fail inside a handler, between a preparation that has gone on *)
(* and the prompt or the lookup it then waits for: Fine is FlowInv without *)
(* them, and Good has them again.                                          *)
(***************************************************************************)
EXTENDS SessionFlow, SequenceTheorems, WellFoundedInduction, TLAPS

---------------------------------------------------------------------------
\* The types of the window's record.

AskedItems == Profiles \X {"Password", "PrivateKeyPassphrase", "ProxyPassword"}
AskedCredentials ==
  [item : AskedItems, source : {"Keychain", "Prompt"}, save : BOOLEAN, value : Values]
Texts == Values \cup {"none"}
Prepared ==
  [session : Sessions, target : Profiles, digest : Texts, secrets : Seq(Secrets),
   credentials : SUBSET AskedCredentials, forced : SUBSET AskedItems]
Workers == [target : Profiles, secrets : Seq(Secrets), digest : Texts, at : Nat \ {0}]
SessionRecords ==
  [profile : Profiles, state : States, handle : BOOLEAN, closing : BOOLEAN,
   credentials : SUBSET AskedCredentials]
Lookups == [session : Sessions, item : Items, purpose : {"Lookup", "Delete"}]
Prompted == [session : Sessions, item : AskedItems]
Edits == [profile : Profiles, command : Values, approved : [Profiles -> Texts]]
Windows ==
  [open : SUBSET Sessions, used : SUBSET Sessions, panes : SUBSET Sessions,
   session : [Sessions -> SessionRecords], worker : [Sessions -> SUBSET Workers],
   pending : SUBSET Prepared, lookup : SUBSET Lookups, prompt : SUBSET Prompted,
   approval : SUBSET Prepared, approving : SUBSET Sessions, approved : [Profiles -> Texts],
   editing : SUBSET Edits, deleting : SUBSET Items, saving : SUBSET (AskedItems \X {Right})]

Typed1(a) ==
  /\ a \in Windows
  /\ AtMostOne(a.pending) /\ AtMostOne(a.approval) /\ AtMostOne(a.lookup)
  /\ AtMostOne(a.prompt) /\ AtMostOne(a.editing)
  /\ \A s \in Sessions : AtMostOne(a.worker[s])
  /\ \A l \in a.lookup : l.purpose = "Delete" => l.item \in AskedItems

Opened(a) ==
  /\ a.panes \cup a.open \subseteq a.used
  /\ \A s \in Sessions : a.worker[s] # {} => s \in a.open
  /\ \A x \in a.pending \cup a.lookup \cup a.prompt \cup a.approval : x.session \in a.open

\* What is under way for a session is for its profile.
Own(a) ==
  /\ \A p \in a.pending \cup a.approval : p.target = a.session[p.session].profile
  /\ \A s \in Sessions : \A w \in a.worker[s] : w.target = a.session[s].profile

\* A session is prepared, or approved, or connected. What is looked up for it is what its
\* preparation waits for, without a prompt, or is on its way to a new one.
Apart(a) ==
  /\ \A p \in a.pending \cup a.approval : a.worker[p.session] = {}
  /\ \A p \in a.pending : \A q \in a.approval : p.session # q.session
  /\ \A q \in a.approval : q.session \in a.approving
  /\ \A l \in a.lookup :
       /\ a.worker[l.session] = {}
       /\ \A q \in a.approval : q.session # l.session
       /\ \A p \in a.pending : p.session = l.session => l.purpose = "Lookup" /\ a.prompt = {}

\* A prompt is for what a preparation waits for, and what it waits for is a secret.
Asks(a) == \A x \in a.prompt : \E p \in a.pending : p.session = x.session /\ NextNeed(p) = x.item
Waits(a) ==
  \A p \in a.pending : Len(p.secrets) < Len(Needs(p.target)) /\ NextNeed(p)[2] # "None"

\* Secrets are those of the first steps, and a credential is one of the secrets.
Fitting(secrets, target, credentials) ==
  /\ Len(secrets) <= Len(Needs(target))
  /\ \A i \in DOMAIN secrets :
       /\ secrets[i].item = Needs(target)[i]
       /\ secrets[i].item[2] = "ProxyCommand" => secrets[i].value # "none"
  /\ \A c \in credentials : \E i \in DOMAIN secrets :
       secrets[i].item = c.item /\ secrets[i].value = c.value

Complete(secrets, target) == Len(secrets) = Len(Needs(target)) /\ ValidPlan(target)

\* A worker is past the step of its proxy only with the right password.
Passed(secrets, at) ==
  \A i \in DOMAIN secrets :
    i < at /\ secrets[i].item[2] = "ProxyPassword" => secrets[i].value = Right

Made(a) ==
  /\ \A p \in a.pending \cup a.approval : Fitting(p.secrets, p.target, p.credentials)
  /\ \A q \in a.approval : Complete(q.secrets, q.target) /\ Proxy[q.target] = "ProxyCommand"
  /\ \A s \in Sessions : \A w \in a.worker[s] :
       /\ Fitting(w.secrets, w.target, a.session[s].credentials)
       /\ Complete(w.secrets, w.target)
       /\ Passed(w.secrets, w.at)

Ended(a) == \A s \in Sessions : a.session[s].credentials # {} => a.worker[s] # {}

Given(p, cs) == {"none"} \cup {c[2] : c \in {d \in cs : d[1] = p}}
Consented(a, cs) ==
  /\ cs \subseteq Profiles \X Texts
  /\ \A p \in Profiles : a.approved[p] \in Given(p, cs)
  /\ \A p \in a.pending \cup a.approval : p.digest \in Given(p.target, cs)
  /\ \A e \in a.editing : \A p \in Profiles : e.approved[p] \in Given(p, cs)
  /\ \A s \in Sessions : \A w \in a.worker[s] :
       Proxy[w.target] = "ProxyCommand" => <<w.target, w.secrets[1].value>> \in cs

Fine(a, cs) ==
  /\ Typed1(a) /\ Opened(a) /\ Own(a) /\ Apart(a) /\ Made(a) /\ Ended(a)
  /\ Consented(a, cs)
Good(a, cs) == Fine(a, cs) /\ Asks(a) /\ Waits(a)

FlowInv ==
  /\ Good(app, consent)
  /\ keychain \in [Items -> Texts]
  /\ disk \in [Profiles -> Texts]
  /\ \A p \in Profiles : disk[p] \in Given(p, consent)

---------------------------------------------------------------------------
\* What a connection needs.

StepItems == Profiles \X (Kinds \cup {"None"})
Ahead(p) == IF Proxy[p] = "None" THEN 0 ELSE 1
Hop(p, k) == Append(Jumps[p], p)[k]

LEMMA NeedsAre ==
  ASSUME NEW p \in Profiles
  PROVE  /\ Needs(p) \in Seq(StepItems)
         /\ DOMAIN Needs(p) = 1..Len(Needs(p)) /\ Len(Needs(p)) \in Nat
         /\ Ahead(p) \in {0, 1}
         /\ Len(Needs(p)) = Ahead(p) + Len(Jumps[p]) + 1
         /\ Jumps[p] \in Seq(Profiles)
         /\ Proxy[p] # "None" => Needs(p)[1] = <<p, Proxy[p]>>
         /\ \A i \in DOMAIN Needs(p) : i > Ahead(p) =>
              /\ Hop(p, i - Ahead(p)) \in Profiles
              /\ Needs(p)[i] = <<Hop(p, i - Ahead(p)), Auth[Hop(p, i - Ahead(p))]>>
<1> DEFINE hops == Append(Jumps[p], p)
           front == IF Proxy[p] = "None" THEN <<>> ELSE <<<<p, Proxy[p]>>>>
           back == [i \in DOMAIN hops |-> <<hops[i], Auth[hops[i]]>>]
<1>1. /\ Jumps[p] \in Seq(Profiles) /\ hops \in Seq(Profiles)
      /\ Len(hops) = Len(Jumps[p]) + 1
  BY JumpsAssumption
<1>2. front \in Seq(StepItems) /\ Len(front) = Ahead(p)
  BY ProxyAssumption DEF StepItems, Ahead, Kinds
<1>3. back \in Seq(StepItems) /\ Len(back) = Len(hops)
  BY <1>1, AuthAssumption DEF StepItems, Kinds
<1>4. Needs(p) = front \o back
  BY DEF Needs
<1>5. /\ Needs(p) \in Seq(StepItems)
      /\ Len(Needs(p)) = Len(front) + Len(back)
      /\ \A i \in DOMAIN Needs(p) : Needs(p)[i] = IF i <= Len(front) THEN front[i] ELSE back[i - Len(front)]
  <2> HIDE DEF front, back, hops
  <2>1. /\ front \o back \in Seq(StepItems)
        /\ Len(front \o back) = Len(front) + Len(back)
        /\ \A i \in 1..(Len(front) + Len(back)) :
             (front \o back)[i] = IF i <= Len(front) THEN front[i] ELSE back[i - Len(front)]
    BY <1>2, <1>3, ConcatProperties
  <2> QED BY <2>1, <1>4
<1>6. Proxy[p] # "None" => Needs(p)[1] = <<p, Proxy[p]>>
  <2> SUFFICES ASSUME Proxy[p] # "None" PROVE Needs(p)[1] = front[1]
    OBVIOUS
  <2>1. Len(front) = 1 BY <1>2 DEF Ahead
  <2> HIDE DEF front, back, hops
  <2> QED BY <2>1, <1>3, <1>5
<1>8. DOMAIN Needs(p) = 1..Len(Needs(p)) /\ Len(Needs(p)) \in Nat /\ Ahead(p) \in {0, 1}
  BY <1>5 DEF Ahead
<1>7. ASSUME NEW i \in DOMAIN Needs(p), i > Ahead(p)
      PROVE  /\ Hop(p, i - Ahead(p)) \in Profiles
             /\ Needs(p)[i] = <<Hop(p, i - Ahead(p)), Auth[Hop(p, i - Ahead(p))]>>
  <2>1. i - Ahead(p) \in DOMAIN hops
    <3> HIDE DEF front, back, hops
    <3>1. DOMAIN hops = 1..Len(hops) /\ Len(hops) \in Nat
      BY <1>1
    <3>2. i \in 1..(Ahead(p) + Len(hops))
      BY <1>8, <1>2, <1>3, <1>5
    <3> QED BY <1>7, <1>8, <3>1, <3>2
  <2>2. Needs(p)[i] = back[i - Ahead(p)]
    <3> HIDE DEF front, back, hops
    <3> QED BY <1>7, <1>8, <1>2, <1>5
  <2> QED BY <2>1, <2>2, <1>1 DEF Hop
<1> QED
  <2> HIDE DEF front, back, hops
  <2> QED BY <1>1, <1>2, <1>3, <1>5, <1>6, <1>7, <1>8

\* In a valid plan a proxy is first and no host is twice.
LEMMA NeedsApart ==
  ASSUME NEW p \in Profiles
  PROVE  /\ \A i \in DOMAIN Needs(p) : Needs(p)[i][2] \in {"ProxyPassword", "ProxyCommand"} => i = 1
         /\ \A i \in DOMAIN Needs(p) :
              i = 1 /\ Proxy[p] # "None" => Needs(p)[i][2] \in {"ProxyPassword", "ProxyCommand"}
         /\ ValidPlan(p) => \A i, j \in DOMAIN Needs(p) :
              /\ Needs(p)[i][2] \notin {"ProxyPassword", "ProxyCommand"}
              /\ Needs(p)[j][2] \notin {"ProxyPassword", "ProxyCommand"}
              /\ Needs(p)[i][1] = Needs(p)[j][1]
              => i = j
<1>0. /\ DOMAIN Needs(p) = 1..Len(Needs(p)) /\ Len(Needs(p)) \in Nat
      /\ Ahead(p) \in {0, 1}
      /\ Len(Needs(p)) = Ahead(p) + Len(Jumps[p]) + 1
      /\ Jumps[p] \in Seq(Profiles) /\ Len(Jumps[p]) \in Nat
      /\ DOMAIN Jumps[p] = 1..Len(Jumps[p])
  BY NeedsAre
<1>1. ASSUME NEW i \in DOMAIN Needs(p), i > Ahead(p)
      PROVE  Needs(p)[i][2] \notin {"ProxyPassword", "ProxyCommand"}
  BY <1>1, NeedsAre, AuthAssumption
<1>2. \A i \in DOMAIN Needs(p) : i <= Ahead(p) => i = 1 /\ Proxy[p] # "None"
  BY NeedsAre DEF Ahead
<1>3. \A i \in DOMAIN Needs(p) : i = 1 /\ Proxy[p] # "None" => Needs(p)[i][2] \in {"ProxyPassword", "ProxyCommand"}
  BY NeedsAre, ProxyAssumption
<1>4. ASSUME ValidPlan(p), NEW i \in DOMAIN Needs(p), NEW j \in DOMAIN Needs(p),
             Needs(p)[i][2] \notin {"ProxyPassword", "ProxyCommand"},
             Needs(p)[j][2] \notin {"ProxyPassword", "ProxyCommand"},
             Needs(p)[i][1] = Needs(p)[j][1]
      PROVE  i = j
  <2>1. i > Ahead(p) /\ j > Ahead(p)
    BY <1>2, <1>3, <1>4, NeedsAre
  <2>2. Hop(p, i - Ahead(p)) = Hop(p, j - Ahead(p))
    BY <1>4, <2>1, NeedsAre
  <2>3. /\ i \in Int /\ j \in Int /\ Ahead(p) \in Int
        /\ i - Ahead(p) \in 1..(Len(Jumps[p]) + 1) /\ j - Ahead(p) \in 1..(Len(Jumps[p]) + 1)
    BY <2>1, <1>0
  <2>4. \A k \in 1..(Len(Jumps[p]) + 1) :
          Hop(p, k) = IF k = Len(Jumps[p]) + 1 THEN p ELSE Jumps[p][k]
    BY <1>0 DEF Hop
  <2>5. i - Ahead(p) = j - Ahead(p)
    <3>1. \A k \in 1..Len(Jumps[p]) : Hop(p, k) = Jumps[p][k] /\ Jumps[p][k] # p
      BY <2>4, <1>4, <1>0 DEF ValidPlan
    <3>2. Hop(p, Len(Jumps[p]) + 1) = p
      BY <2>4, <1>0
    <3>3. \A k, l \in 1..Len(Jumps[p]) : Hop(p, k) = Hop(p, l) => k = l
      <4>1. \A k, l \in DOMAIN Jumps[p] : Jumps[p][k] = Jumps[p][l] => k = l
        BY <1>4 DEF ValidPlan
      <4>2. DOMAIN Jumps[p] = 1..Len(Jumps[p])
        BY <1>0
      <4> QED BY <3>1, <4>1, <4>2
    <3>4. \A k, l \in 1..(Len(Jumps[p]) + 1) : Hop(p, k) = Hop(p, l) => k = l
      BY <3>1, <3>2, <3>3, <1>0
    <3> QED BY <2>2, <2>3, <3>4
  <2> QED BY <2>3, <2>5
<1>5. \A i \in DOMAIN Needs(p) : Needs(p)[i][2] \in {"ProxyPassword", "ProxyCommand"} => i = 1
  BY <1>1, <1>2, NeedsAre
<1> QED BY <1>3, <1>4, <1>5

LEMMA LeastOfNaturals ==
  ASSUME NEW T \in SUBSET Nat, T # {}
  PROVE  \E x \in T : \A y \in T : x <= y
<1> DEFINE R == OpToRel(<, Nat)
<1>1. IsWellFoundedOn(R, Nat)
  BY NatLessThanWellFounded
<1>2. PICK x \in T : \A y \in T : <<y, x>> \notin R
  <2> HIDE DEF R
  <2> QED BY <1>1, WFMin
<1>3. \A y \in T : ~(y < x)
  BY <1>2 DEF OpToRel
<1> QED BY <1>3

LEMMA NextStopIs ==
  ASSUME NEW p \in Prepared, Len(p.secrets) <= Len(Needs(p.target))
  PROVE  /\ NextStop(p) \in (Len(p.secrets) + 1)..(Len(Needs(p.target)) + 1)
         /\ Stops(p, NextStop(p))
         /\ \A j \in (Len(p.secrets) + 1)..(NextStop(p) - 1) : ~Stops(p, j)
<1> DEFINE from == Len(p.secrets) + 1
           end == Len(Needs(p.target)) + 1
           T == {i \in from..end : Stops(p, i)}
<1>1. from \in Nat /\ end \in Nat /\ from <= end
  BY NeedsAre DEF Prepared
<1>2. end \in T
  BY <1>1 DEF Stops
<1>3. PICK x \in T : \A y \in T : x <= y
  <2>1. T \subseteq Nat /\ T # {}
    BY <1>1, <1>2
  <2> HIDE DEF T
  <2> QED BY <2>1, LeastOfNaturals
<1>4. x \in from..end /\ Stops(p, x) /\ \A j \in from..(x - 1) : ~Stops(p, j)
  <2> HIDE DEF from, end
  <2> QED BY <1>1, <1>3
<1> QED BY <1>4 DEF NextStop

\* Going past the steps that need nothing.
LEMMA PassesOver ==
  ASSUME NEW p \in Prepared, Fitting(p.secrets, p.target, p.credentials)
  PROVE  /\ PassOver(p) \in Prepared
         /\ PassOver(p).session = p.session /\ PassOver(p).target = p.target
         /\ PassOver(p).digest = p.digest /\ PassOver(p).forced = p.forced
         /\ PassOver(p).credentials = p.credentials
         /\ Fitting(PassOver(p).secrets, p.target, p.credentials)
         /\ \/ Len(PassOver(p).secrets) = Len(Needs(p.target))
            \/ /\ Len(PassOver(p).secrets) < Len(Needs(p.target))
               /\ NextNeed(PassOver(p)) \in Items
         /\ \A i \in DOMAIN Needs(p.target) :
              i > Len(p.secrets) /\ Needs(p.target)[i][2] # "None"
              => Len(PassOver(p).secrets) < Len(Needs(p.target))
<1> DEFINE needs == Needs(p.target)
           n == NextStop(p) - 1
           old == p.secrets
           f == [i \in 1..n |-> IF i \in DOMAIN old THEN old[i] ELSE [item |-> needs[i], value |-> "none"]]
<1>1. /\ p.target \in Profiles /\ old \in Seq(Secrets)
      /\ Len(old) \in Nat /\ DOMAIN old = 1..Len(old) /\ Len(old) <= Len(needs)
  BY DEF Prepared, Fitting
<1>2. needs \in Seq(StepItems) /\ DOMAIN needs = 1..Len(needs) /\ Len(needs) \in Nat
  BY <1>1, NeedsAre
<1>3. /\ n \in Len(old)..Len(needs) /\ n \in Nat
      /\ Stops(p, n + 1) /\ \A j \in (Len(old) + 1)..n : ~Stops(p, j)
  BY <1>1, <1>2, NextStopIs
<1>4. \A j \in (Len(old) + 1)..n : needs[j][2] = "None"
  BY <1>3, <1>1, <1>2 DEF Stops
<1>5. \A i \in 1..n : i \in DOMAIN needs /\ needs[i] \in StepItems /\ (i \in DOMAIN old => old[i] \in Secrets)
  BY <1>1, <1>2, <1>3
<1>6. f \in [1..n -> Secrets]
  <2> HIDE DEF needs, old, n
  <2> QED BY <1>5 DEF Secrets, StepItems
<1>7. f \in Seq(Secrets) /\ Len(f) = n /\ DOMAIN f = 1..n
  <2> HIDE DEF f, n
  <2> QED BY <1>3, <1>6
<1>8. PassOver(p) = [p EXCEPT !.secrets = f]
  BY DEF PassOver
<1>9. /\ PassOver(p) \in Prepared
      /\ PassOver(p).session = p.session /\ PassOver(p).target = p.target
      /\ PassOver(p).digest = p.digest /\ PassOver(p).forced = p.forced
      /\ PassOver(p).credentials = p.credentials
      /\ PassOver(p).secrets = f
  <2> HIDE DEF f
  <2> QED BY <1>7, <1>8 DEF Prepared
<1>10. Fitting(f, p.target, p.credentials)
  <2>1. ASSUME NEW i \in 1..n
        PROVE  f[i].item = needs[i] /\ (f[i].item[2] = "ProxyCommand" => f[i].value # "none")
    <3>1. CASE i \in DOMAIN old
      BY <3>1 DEF Fitting
    <3>2. CASE i \notin DOMAIN old
      <4>1. f[i] = [item |-> needs[i], value |-> "none"]
        BY <3>2
      <4>2. needs[i][2] = "None"
        BY <3>2, <1>1, <1>3, <1>4
      <4> QED BY <4>1, <4>2
    <3> QED BY <3>1, <3>2
  <2>2. ASSUME NEW c \in p.credentials
        PROVE  \E i \in 1..n : f[i].item = c.item /\ f[i].value = c.value
    <3>1. PICK i \in DOMAIN old : old[i].item = c.item /\ old[i].value = c.value
      BY DEF Fitting
    <3>2. i \in 1..n
      BY <1>1, <1>3
    <3> QED BY <3>1, <3>2
  <2> HIDE DEF f, n
  <2> QED BY <2>1, <2>2, <1>3, <1>7 DEF Fitting
<1>11. n < Len(needs) => needs[n + 1] \in Items
  <2>1. ASSUME n < Len(needs)
        PROVE  needs[n + 1] \in StepItems /\ needs[n + 1][2] # "None"
    <3>1. n + 1 # Len(needs) + 1 /\ n + 1 \in DOMAIN needs
      BY <2>1, <1>2, <1>3
    <3> QED BY <3>1, <1>2, <1>3 DEF Stops
  <2> QED BY <2>1 DEF StepItems, Items, Kinds
<1>12. ASSUME NEW i \in DOMAIN needs, i > Len(old), needs[i][2] # "None"
       PROVE  n < Len(needs)
  BY <1>12, <1>1, <1>2, <1>3, <1>4
<1> QED
  <2> HIDE DEF f, n
  <2> QED BY <1>3, <1>7, <1>9, <1>10, <1>11, <1>12, <1>2 DEF NextNeed

---------------------------------------------------------------------------
\* Windows with less under way.

Weaker(a, b) ==
  /\ b \in Windows
  /\ b.open \subseteq a.open /\ b.panes \cup b.open \subseteq b.used
  /\ b.pending \subseteq a.pending /\ b.approval \subseteq a.approval
  /\ b.lookup \subseteq a.lookup /\ b.prompt \subseteq a.prompt
  /\ b.approved = a.approved /\ b.editing = a.editing
  /\ \A s \in Sessions :
       /\ b.worker[s] \subseteq a.worker[s]
       /\ b.worker[s] # {} => s \in b.open
       /\ s \in b.open => b.session[s].profile = a.session[s].profile
       /\ b.session[s].credentials \subseteq a.session[s].credentials
       /\ b.session[s].credentials # {} => b.worker[s] # {}
  /\ \A x \in b.pending \cup b.lookup \cup b.prompt \cup b.approval : x.session \in b.open
  /\ \A q \in b.approval : q.session \in b.approving

LEMMA WindowTypes ==
  ASSUME NEW a \in Windows
  PROVE  /\ a.open \subseteq Sessions /\ a.used \subseteq Sessions /\ a.panes \subseteq Sessions
         /\ a.session \in [Sessions -> SessionRecords] /\ a.worker \in [Sessions -> SUBSET Workers]
         /\ a.pending \subseteq Prepared /\ a.approval \subseteq Prepared
         /\ a.lookup \subseteq Lookups /\ a.prompt \subseteq Prompted
         /\ \A p \in a.pending \cup a.approval : p.session \in Sessions /\ p.target \in Profiles
         /\ \A x \in a.lookup \cup a.prompt : x.session \in Sessions
BY DEF Windows, Prepared, Lookups, Prompted

LEMMA FewerFit ==
  ASSUME NEW secrets, NEW target, NEW C, NEW D \in SUBSET C, Fitting(secrets, target, C)
  PROVE  Fitting(secrets, target, D)
BY Zenon DEF Fitting

LEMMA WeakerKeeps ==
  ASSUME NEW cs, NEW a \in Windows, NEW b \in Windows, Fine(a, cs), Weaker(a, b)
  PROVE  Fine(b, cs) /\ (Waits(a) => Waits(b))
<1>1. Typed1(b)
  BY DEF Fine, Typed1, Weaker, AtMostOne
<1>2. Opened(b)
  BY DEF Opened, Weaker
<1>3. Own(b)
  BY WindowTypes DEF Fine, Opened, Own, Weaker
<1>4. Apart(b)
  BY WindowTypes DEF Fine, Apart, Weaker
<1>5. Made(b)
  <2>1. ASSUME NEW s \in Sessions, NEW w \in b.worker[s]
        PROVE  /\ Fitting(w.secrets, w.target, b.session[s].credentials)
               /\ Complete(w.secrets, w.target)
               /\ Passed(w.secrets, w.at)
    <3>1. /\ Fitting(w.secrets, w.target, a.session[s].credentials)
          /\ Complete(w.secrets, w.target)
          /\ Passed(w.secrets, w.at)
          /\ b.session[s].credentials \subseteq a.session[s].credentials
      BY DEF Fine, Made, Weaker
    <3>2. b.session[s].credentials \in SUBSET a.session[s].credentials
      BY <3>1
    <3>3. Fitting(w.secrets, w.target, b.session[s].credentials)
      BY <3>1, <3>2, FewerFit
    <3> QED BY <3>1, <3>3
  <2> QED BY <2>1 DEF Fine, Made, Weaker
<1>6. Ended(b)
  BY DEF Ended, Weaker
<1>7. Consented(b, cs)
  BY DEF Fine, Consented, Weaker
<1>8. Waits(a) => Waits(b)
  BY DEF Waits, Weaker
<1> QED BY <1>1, <1>2, <1>3, <1>4, <1>5, <1>6, <1>7, <1>8 DEF Fine

LEMMA GoneIs == Gone \in SessionRecords /\ Gone.credentials = {}
BY ProfilesAssumption DEF Gone, NewSession, SessionRecords, States

LEMMA RemoveSessionIs ==
  ASSUME NEW a \in Windows, NEW s \in a.open
  PROVE  /\ RemoveSession(a, s) \in Windows
         /\ RemoveSession(a, s).open = a.open \ {s}
         /\ RemoveSession(a, s).used = a.used
         /\ RemoveSession(a, s).panes = a.panes \ {s}
         /\ RemoveSession(a, s).worker = [a.worker EXCEPT ![s] = {}]
         /\ RemoveSession(a, s).session = [a.session EXCEPT ![s] = Gone]
         /\ RemoveSession(a, s).pending = OfOthers(a.pending, s)
         /\ RemoveSession(a, s).lookup = OfOthers(a.lookup, s)
         /\ RemoveSession(a, s).prompt = OfOthers(a.prompt, s)
         /\ RemoveSession(a, s).approval = OfOthers(a.approval, s)
         /\ RemoveSession(a, s).approved = a.approved
         /\ RemoveSession(a, s).editing = a.editing
         /\ RemoveSession(a, s).deleting = a.deleting
         /\ RemoveSession(a, s).saving = a.saving
         /\ a.approving \ {s} \subseteq RemoveSession(a, s).approving
<1> DEFINE b == RemovePane(a, s)
           approving == IF OfOthers(b.approval, s) # b.approval THEN b.approving \ {s} ELSE b.approving
           c == [b EXCEPT !.open = @ \ {s}, !.worker[s] = {}, !.lookup = OfOthers(@, s),
                          !.pending = OfOthers(@, s), !.approval = OfOthers(@, s),
                          !.approving = approving,
                          !.prompt = OfOthers(@, s), !.session[s] = Gone]
<1>1. RemoveSession(a, s) = c
  BY DEF RemoveSession
<1>2. /\ b \in Windows /\ b.open = a.open /\ b.used = a.used /\ b.panes = a.panes \ {s}
      /\ b.worker = a.worker /\ b.session = a.session /\ b.pending = a.pending
      /\ b.lookup = a.lookup /\ b.prompt = a.prompt /\ b.approval = a.approval
      /\ b.approving = a.approving /\ b.approved = a.approved /\ b.editing = a.editing
      /\ b.deleting = a.deleting /\ b.saving = a.saving
  BY DEF RemovePane, Windows
<1>3. /\ s \in Sessions /\ approving \subseteq Sessions /\ a.approving \ {s} \subseteq approving
      /\ [a.worker EXCEPT ![s] = {}] \in [Sessions -> SUBSET Workers]
      /\ [a.session EXCEPT ![s] = Gone] \in [Sessions -> SessionRecords]
  BY <1>2, WindowTypes, GoneIs DEF Windows
<1>4. \A x : OfOthers(x, s) \subseteq x
  BY DEF OfOthers
<1>5. /\ c.open = b.open \ {s} /\ c.used = b.used /\ c.panes = b.panes
      /\ c.worker = [b.worker EXCEPT ![s] = {}] /\ c.session = [b.session EXCEPT ![s] = Gone]
      /\ c.pending = OfOthers(b.pending, s) /\ c.lookup = OfOthers(b.lookup, s)
      /\ c.prompt = OfOthers(b.prompt, s) /\ c.approval = OfOthers(b.approval, s)
      /\ c.approving = approving /\ c.approved = b.approved /\ c.editing = b.editing
      /\ c.deleting = b.deleting /\ c.saving = b.saving
  <2> HIDE DEF b, approving
  <2> QED BY <1>2 DEF Windows
<1>6. c \in Windows
  <2>1. /\ OfOthers(b.lookup, s) \in SUBSET Lookups /\ OfOthers(b.pending, s) \in SUBSET Prepared
        /\ OfOthers(b.approval, s) \in SUBSET Prepared /\ OfOthers(b.prompt, s) \in SUBSET Prompted
        /\ b.open \ {s} \in SUBSET Sessions /\ approving \in SUBSET Sessions
        /\ [b.worker EXCEPT ![s] = {}] \in [Sessions -> SUBSET Workers]
        /\ [b.session EXCEPT ![s] = Gone] \in [Sessions -> SessionRecords]
    BY <1>2, <1>3, <1>4 DEF Windows
  <2> HIDE DEF b, approving
  <2> QED BY <1>2, <2>1 DEF Windows
<1> HIDE DEF b, approving, c
<1> QED BY <1>1, <1>2, <1>3, <1>5, <1>6

\* A session that is removed takes with it all that is under way for it.
LEMMA SessionIsRemoved ==
  ASSUME NEW cs, NEW a \in Windows, NEW s \in Sessions, Fine(a, cs)
  PROVE  /\ RemoveSession(a, s) \in Windows
         /\ Weaker(a, RemoveSession(a, s))
         /\ Fine(RemoveSession(a, s), cs)
         /\ Waits(a) => Waits(RemoveSession(a, s))
         /\ Asks(a) => Asks(RemoveSession(a, s))
         /\ a.open \ {s} \subseteq RemoveSession(a, s).open
         /\ \A r \in a.open \ {s} : RemoveSession(a, s).session[r] = a.session[r]
         /\ \A r \in Sessions \ {s} : RemoveSession(a, s).worker[r] = a.worker[r]
<1> DEFINE b == RemoveSession(a, s)
<1>1. CASE s \notin a.open
  <2>1. b = a
    BY <1>1 DEF RemoveSession
  <2>2. Weaker(a, a)
    BY DEF Fine, Opened, Apart, Ended, Weaker
  <2> QED BY <2>1, <2>2
<1>2. CASE s \in a.open
  <2>1. /\ b \in Windows /\ b.open = a.open \ {s} /\ b.used = a.used /\ b.panes = a.panes \ {s}
        /\ b.worker = [a.worker EXCEPT ![s] = {}] /\ b.session = [a.session EXCEPT ![s] = Gone]
        /\ b.pending = OfOthers(a.pending, s) /\ b.lookup = OfOthers(a.lookup, s)
        /\ b.prompt = OfOthers(a.prompt, s) /\ b.approval = OfOthers(a.approval, s)
        /\ b.approved = a.approved /\ b.editing = a.editing
        /\ a.approving \ {s} \subseteq b.approving
    BY <1>2, RemoveSessionIs
  <2> HIDE DEF b
  <2>2. \A r \in Sessions :
          /\ b.worker[r] = IF r = s THEN {} ELSE a.worker[r]
          /\ b.session[r] = IF r = s THEN Gone ELSE a.session[r]
    BY <2>1, WindowTypes
  <2>3. Weaker(a, b)
    BY <2>1, <2>2, GoneIs, WindowTypes DEF Fine, Opened, Apart, Ended, Weaker, OfOthers
  <2>4. Fine(b, cs) /\ (Waits(a) => Waits(b))
    BY <2>1, <2>3, WeakerKeeps
  <2>5. Asks(a) => Asks(b)
    BY <2>1 DEF Asks, OfOthers
  <2>6. /\ \A r \in a.open \ {s} : b.session[r] = a.session[r]
        /\ \A r \in Sessions \ {s} : b.worker[r] = a.worker[r]
    BY <2>2, WindowTypes
  <2> QED BY <2>1, <2>3, <2>4, <2>5, <2>6 DEF b
<1> QED BY <1>1, <1>2

LEMMA WithoutPrompt ==
  ASSUME NEW a \in Windows
  PROVE  /\ [a EXCEPT !.prompt = {}] \in Windows
         /\ [a EXCEPT !.prompt = {}].open = a.open
         /\ [a EXCEPT !.prompt = {}].used = a.used
         /\ [a EXCEPT !.prompt = {}].panes = a.panes
         /\ [a EXCEPT !.prompt = {}].worker = a.worker
         /\ [a EXCEPT !.prompt = {}].session = a.session
         /\ [a EXCEPT !.prompt = {}].pending = a.pending
         /\ [a EXCEPT !.prompt = {}].lookup = a.lookup
         /\ [a EXCEPT !.prompt = {}].prompt = {}
         /\ [a EXCEPT !.prompt = {}].approval = a.approval
         /\ [a EXCEPT !.prompt = {}].approving = a.approving
         /\ [a EXCEPT !.prompt = {}].approved = a.approved
         /\ [a EXCEPT !.prompt = {}].editing = a.editing
         /\ [a EXCEPT !.prompt = {}].deleting = a.deleting
         /\ [a EXCEPT !.prompt = {}].saving = a.saving
BY DEF Windows

\* Only the session of the prompt can go with it.
LEMMA PromptIsDismissed ==
  ASSUME NEW cs, NEW a \in Windows, Fine(a, cs)
  PROVE  /\ DismissPrompt(a) \in Windows
         /\ Weaker(a, DismissPrompt(a))
         /\ Fine(DismissPrompt(a), cs)
         /\ Waits(a) => Waits(DismissPrompt(a))
         /\ DismissPrompt(a).prompt = {}
         /\ a.prompt = {} => DismissPrompt(a) = [a EXCEPT !.prompt = {}]
         /\ \A r \in a.open : (\A x \in a.prompt : x.session # r) =>
              r \in DismissPrompt(a).open /\ DismissPrompt(a).session[r] = a.session[r]
         /\ \A r \in Sessions : (\A x \in a.prompt : x.session # r) =>
              DismissPrompt(a).worker[r] = a.worker[r]
<1> DEFINE b == [a EXCEPT !.prompt = {}]
           paneless == {x.session : x \in a.prompt} \ a.panes
           s == CHOOSE r \in paneless : TRUE
<1>1. /\ b \in Windows /\ b.open = a.open /\ b.used = a.used /\ b.panes = a.panes
      /\ b.worker = a.worker /\ b.session = a.session /\ b.pending = a.pending
      /\ b.lookup = a.lookup /\ b.prompt = {} /\ b.approval = a.approval
      /\ b.approving = a.approving /\ b.approved = a.approved /\ b.editing = a.editing
  BY WithoutPrompt
<1>2. DismissPrompt(a) = IF paneless = {} THEN b ELSE RemoveSession(b, s)
  BY DEF DismissPrompt
<1> HIDE DEF b
<1>3. Weaker(a, b)
  BY <1>1 DEF Fine, Opened, Apart, Ended, Weaker
<1>4. Fine(b, cs) /\ (Waits(a) => Waits(b))
  BY <1>1, <1>3, WeakerKeeps
<1>5. CASE paneless = {}
  BY <1>1, <1>2, <1>3, <1>4, <1>5 DEF b
<1>6. CASE paneless # {}
  <2>1. s \in Sessions /\ a.prompt # {} /\ \E x \in a.prompt : x.session = s
    BY <1>6, WindowTypes
  <2> DEFINE c == RemoveSession(b, s)
  <2> HIDE DEF s, paneless
  <2>2. /\ c \in Windows /\ Weaker(b, c) /\ Fine(c, cs) /\ (Waits(b) => Waits(c))
        /\ b.open \ {s} \subseteq c.open
        /\ \A r \in b.open \ {s} : c.session[r] = b.session[r]
        /\ \A r \in Sessions \ {s} : c.worker[r] = b.worker[r]
    BY <2>1, <1>1, <1>4, SessionIsRemoved
  <2> HIDE DEF c
  <2>3. Weaker(a, c) /\ c.prompt = {}
    BY <2>2, <1>1 DEF Weaker
  <2>4. DismissPrompt(a) = c
    BY <1>2, <1>6 DEF c
  <2> QED BY <2>1, <2>2, <2>3, <2>4, <1>1, <1>4
<1> QED BY <1>5, <1>6

\* Activating a session shows it, in the pane it has or gets.
LEMMA SessionIsActivated ==
  ASSUME NEW cs, NEW a \in Windows, NEW s \in Sessions, Fine(a, cs)
  PROVE  /\ ActivateSession(a, s) \in Windows
         /\ Weaker(a, ActivateSession(a, s))
         /\ Fine(ActivateSession(a, s), cs)
         /\ Waits(a) => Waits(ActivateSession(a, s))
         /\ Asks(a) => Asks(ActivateSession(a, s))
         /\ \A r \in Sessions : (\A x \in a.prompt : x.session # r) =>
              ActivateSession(a, s).worker[r] = a.worker[r]
<1>1. Weaker(a, a)
  BY DEF Fine, Opened, Apart, Ended, Weaker
<1>2. Asks(DismissPrompt(a))
  BY PromptIsDismissed DEF Asks
<1>3. CASE s \in a.panes
  <2>1. ActivateSession(a, s) = DismissPrompt(a)
    BY <1>3 DEF ActivateSession
  <2>2. /\ DismissPrompt(a) \in Windows /\ Weaker(a, DismissPrompt(a)) /\ Fine(DismissPrompt(a), cs)
        /\ Waits(a) => Waits(DismissPrompt(a))
        /\ \A r \in Sessions : (\A x \in a.prompt : x.session # r) =>
             DismissPrompt(a).worker[r] = a.worker[r]
    BY PromptIsDismissed
  <2> QED BY <1>2, <2>1, <2>2, Zenon
<1>4. CASE s \notin a.panes
  <2>1. ActivateSession(a, s) = a
    BY <1>4 DEF ActivateSession
  <2> QED BY <1>1, <2>1
<1> QED BY <1>3, <1>4

LEMMA SessionIsShown ==
  ASSUME NEW cs, NEW a \in Windows, NEW s \in Sessions, Fine(a, cs)
  PROVE  /\ ActivateInWindow(a, s) \in Windows
         /\ Weaker(a, ActivateInWindow(a, s))
         /\ Fine(ActivateInWindow(a, s), cs)
         /\ Waits(a) => Waits(ActivateInWindow(a, s))
         /\ Asks(a) => Asks(ActivateInWindow(a, s))
         /\ \A r \in Sessions : (\A x \in a.prompt : x.session # r) =>
              ActivateInWindow(a, s).worker[r] = a.worker[r]
<1>1. CASE s \notin a.open
  <2>1. Weaker(a, a)
    BY DEF Fine, Opened, Apart, Ended, Weaker
  <2> QED BY <1>1, <2>1 DEF ActivateInWindow
<1>2. CASE s \in a.open
  <2> DEFINE b == [a EXCEPT !.panes = @ \cup {s}]
             c == ActivateSession(b, s)
  <2>1. /\ b \in Windows /\ b.open = a.open /\ b.used = a.used /\ b.panes = a.panes \cup {s}
        /\ b.worker = a.worker /\ b.session = a.session /\ b.pending = a.pending
        /\ b.lookup = a.lookup /\ b.prompt = a.prompt /\ b.approval = a.approval
        /\ b.approving = a.approving /\ b.approved = a.approved /\ b.editing = a.editing
    BY DEF Windows
  <2>2. ActivateInWindow(a, s) = c
    BY <1>2 DEF ActivateInWindow
  <2> HIDE DEF b
  <2>3. Weaker(a, b)
    BY <2>1, <1>2 DEF Fine, Opened, Apart, Ended, Weaker
  <2>4. Fine(b, cs) /\ (Waits(a) => Waits(b)) /\ (Asks(a) => Asks(b))
    BY <2>1, <2>3, WeakerKeeps DEF Asks
  <2>5. /\ c \in Windows /\ Weaker(b, c) /\ Fine(c, cs)
        /\ (Waits(b) => Waits(c)) /\ (Asks(b) => Asks(c))
        /\ \A r \in Sessions : (\A x \in b.prompt : x.session # r) => c.worker[r] = b.worker[r]
    BY <2>1, <2>4, SessionIsActivated
  <2> HIDE DEF c
  <2>6. Weaker(a, c)
    BY <2>1, <2>5 DEF Weaker
  <2> QED BY <2>1, <2>2, <2>4, <2>5, <2>6
<1> QED BY <1>1, <1>2

---------------------------------------------------------------------------
\* The preparation of a connection.

Preparable(a, p, cs) ==
  /\ p \in Prepared /\ Fitting(p.secrets, p.target, p.credentials)
  /\ p.digest \in Given(p.target, cs)
  /\ p.session \in a.open => p.target = a.session[p.session].profile
  /\ a.worker[p.session] = {}
  /\ \A q \in a.approval : q.session # p.session

\* No connection has begun, or none but in a session.
Fewer(a, b) == \A s \in Sessions : b.worker[s] \subseteq a.worker[s]
FewerBut(a, b, s) == \A r \in Sessions \ {s} : b.worker[r] \subseteq a.worker[r]

LEMMA WeakerPrepares ==
  ASSUME NEW cs, NEW a \in Windows, NEW b \in Windows, NEW p,
         Fine(a, cs), Weaker(a, b), Preparable(a, p, cs)
  PROVE  Preparable(b, p, cs) /\ Fewer(a, b) /\ FewerBut(a, b, p.session)
BY DEF Weaker, Preparable, Fewer, FewerBut, Prepared

\* A connection starts in a session that has none, with all it needs.
LEMMA ConnectionStarts ==
  ASSUME NEW cs, NEW a \in Windows, NEW p \in Prepared, Fine(a, cs), Waits(a),
         Preparable(a, p, cs), Complete(p.secrets, p.target),
         \A q \in a.pending : q.session # p.session,
         Proxy[p.target] = "ProxyCommand" => <<p.target, p.secrets[1].value>> \in cs
  PROVE  Start(a, p) \in Windows /\ Good(Start(a, p), cs)
         /\ FewerBut(a, Start(a, p), p.session)
<1> DEFINE b == DismissPrompt(a)
           s == p.session
           worker == [target |-> p.target, secrets |-> p.secrets, digest |-> p.digest, at |-> 1]
           record == [b.session[s] EXCEPT !.state = "Connecting", !.handle = TRUE,
                        !.closing = FALSE, !.credentials = p.credentials]
           c == [b EXCEPT !.lookup = {}, !.worker[s] = {worker}, !.session[s] = record]
<1>1. /\ b \in Windows /\ Weaker(a, b) /\ Fine(b, cs) /\ Waits(b) /\ b.prompt = {}
  BY PromptIsDismissed
<1>2. Start(a, p) = IF s \notin b.open THEN b ELSE c
  BY DEF Start
<1>3. Preparable(b, p, cs) /\ FewerBut(a, b, p.session)
  BY <1>1, WeakerPrepares
<1>4. s \in Sessions /\ p.target \in Profiles /\ p.secrets \in Seq(Secrets)
      /\ p.credentials \in SUBSET AskedCredentials /\ p.digest \in Texts
  BY DEF Prepared
<1> HIDE DEF b, s
<1>5. worker \in Workers
  BY <1>4 DEF Workers
<1>6. record \in SessionRecords /\ record.credentials = p.credentials
      /\ record.profile = b.session[s].profile
  <2>1. b.session[s] \in SessionRecords
    BY <1>1, <1>4, WindowTypes
  <2> QED BY <2>1, <1>4 DEF SessionRecords, States
<1>7. /\ worker.target = p.target /\ worker.secrets = p.secrets /\ worker.at = 1
  OBVIOUS
<1> HIDE DEF worker, record
<1>8. /\ c \in Windows /\ c.open = b.open /\ c.used = b.used /\ c.panes = b.panes
      /\ c.worker = [b.worker EXCEPT ![s] = {worker}]
      /\ c.session = [b.session EXCEPT ![s] = record]
      /\ c.pending = b.pending /\ c.lookup = {} /\ c.prompt = {} /\ c.approval = b.approval
      /\ c.approving = b.approving /\ c.approved = b.approved /\ c.editing = b.editing
  <2>1. [b.worker EXCEPT ![s] = {worker}] \in [Sessions -> SUBSET Workers]
        /\ [b.session EXCEPT ![s] = record] \in [Sessions -> SessionRecords]
    BY <1>1, <1>4, <1>5, <1>6, WindowTypes
  <2> QED BY <1>1, <2>1 DEF Windows
<1> HIDE DEF c
<1>9. \A r \in Sessions :
        /\ c.worker[r] = IF r = s THEN {worker} ELSE b.worker[r]
        /\ c.session[r] = IF r = s THEN record ELSE b.session[r]
  BY <1>1, <1>8, WindowTypes
<1>10. CASE s \notin b.open
  BY <1>1, <1>2, <1>3, <1>10 DEF Good, Asks, b
<1>11. CASE s \in b.open
  <2>1. Typed1(c)
    BY <1>1, <1>8, <1>9 DEF Fine, Typed1, AtMostOne
  <2>2. Opened(c)
    BY <1>1, <1>8, <1>9, <1>11 DEF Fine, Opened
  <2>3. Own(c)
    <3>1. \A r \in Sessions : c.session[r].profile = b.session[r].profile
      BY <1>6, <1>9
    <3>2. p.target = b.session[s].profile
      BY <1>3, <1>11 DEF Preparable, s
    <3>3. \A q \in b.pending \cup b.approval :
            q.session \in Sessions /\ q.target = b.session[q.session].profile
      BY <1>1, WindowTypes DEF Fine, Own
    <3>4. \A r \in Sessions : \A w \in b.worker[r] : w.target = b.session[r].profile
      BY <1>1 DEF Fine, Own
    <3> QED BY <1>7, <1>8, <1>9, <3>1, <3>2, <3>3, <3>4 DEF Own
  <2>0. \A q \in b.pending : q.session # s
    BY <1>1 DEF Weaker, s
  <2>4. Apart(c)
    BY <1>1, <1>3, <1>8, <1>9, <2>0, WindowTypes DEF Fine, Apart, Preparable, s
  <2>5. Made(c)
    <3>1. Passed(worker.secrets, worker.at)
      BY <1>4, <1>7 DEF Passed
    <3>2. Fitting(p.secrets, p.target, p.credentials)
      BY DEF Preparable
    <3> QED BY <1>1, <1>6, <1>7, <1>8, <1>9, <3>1, <3>2 DEF Fine, Made
  <2>6. Ended(c)
    BY <1>1, <1>8, <1>9 DEF Fine, Ended
  <2>7. Consented(c, cs)
    BY <1>1, <1>7, <1>8, <1>9 DEF Fine, Consented
  <2>8. Waits(c) /\ Asks(c)
    BY <1>1, <1>8 DEF Waits, Asks
  <2>9. FewerBut(a, c, p.session)
    BY <1>3, <1>9 DEF FewerBut, s
  <2> QED BY <1>2, <1>8, <1>11, <2>1, <2>2, <2>3, <2>4, <2>5, <2>6, <2>7, <2>8, <2>9 DEF Fine, Good
<1> QED BY <1>10, <1>11

\* A preparation waits for an answer, of the user or of the keychain.
LEMMA PreparationWaits ==
  ASSUME NEW cs, NEW a \in Windows, NEW c \in Windows, NEW p \in Prepared,
         Fine(a, cs), Preparable(a, p, cs), p.session \in a.open,
         Len(p.secrets) < Len(Needs(p.target)), NextNeed(p)[2] # "None",
         c.open = a.open, c.used = a.used, c.panes = a.panes, c.session = a.session,
         c.worker = a.worker, c.approval = a.approval, c.approving = a.approving,
         c.approved = a.approved, c.editing = a.editing, c.pending = {p},
         \/ /\ c.lookup = a.lookup /\ \A l \in a.lookup : l.session # p.session
            /\ c.prompt = {[session |-> p.session, item |-> NextNeed(p)]}
         \/ /\ c.lookup = {[session |-> p.session, item |-> NextNeed(p), purpose |-> "Lookup"]}
            /\ c.prompt = {}
  PROVE  Good(c, cs)
<1>1. Typed1(c)
  BY DEF Fine, Typed1, AtMostOne
<1>2. Opened(c)
  BY DEF Fine, Opened
<1>3. Own(c)
  BY DEF Fine, Own, Preparable
<1>4. Apart(c)
  BY DEF Fine, Apart, Preparable
<1>5. Made(c)
  BY DEF Fine, Made, Preparable
<1>6. Ended(c)
  BY DEF Fine, Ended
<1>7. Consented(c, cs)
  BY DEF Fine, Consented, Preparable
<1>8. Waits(c) /\ Asks(c)
  BY DEF Waits, Asks
<1> QED BY <1>1, <1>2, <1>3, <1>4, <1>5, <1>6, <1>7, <1>8 DEF Fine, Good

LEMMA WithPending ==
  ASSUME NEW a \in Windows, NEW P \in SUBSET Prepared
  PROVE  /\ [a EXCEPT !.pending = P] \in Windows
         /\ [a EXCEPT !.pending = P].open = a.open
         /\ [a EXCEPT !.pending = P].used = a.used
         /\ [a EXCEPT !.pending = P].panes = a.panes
         /\ [a EXCEPT !.pending = P].worker = a.worker
         /\ [a EXCEPT !.pending = P].session = a.session
         /\ [a EXCEPT !.pending = P].pending = P
         /\ [a EXCEPT !.pending = P].lookup = a.lookup
         /\ [a EXCEPT !.pending = P].prompt = a.prompt
         /\ [a EXCEPT !.pending = P].approval = a.approval
         /\ [a EXCEPT !.pending = P].approving = a.approving
         /\ [a EXCEPT !.pending = P].approved = a.approved
         /\ [a EXCEPT !.pending = P].editing = a.editing
         /\ [a EXCEPT !.pending = P].deleting = a.deleting
         /\ [a EXCEPT !.pending = P].saving = a.saving
BY DEF Windows

LEMMA NothingPending ==
  ASSUME NEW cs, NEW a \in Windows, Fine(a, cs)
  PROVE  /\ Weaker(a, [a EXCEPT !.pending = {}])
         /\ Fine([a EXCEPT !.pending = {}], cs)
         /\ Waits([a EXCEPT !.pending = {}])
<1> DEFINE b == [a EXCEPT !.pending = {}]
<1>1. /\ b \in Windows /\ b.open = a.open /\ b.used = a.used /\ b.panes = a.panes
      /\ b.worker = a.worker /\ b.session = a.session /\ b.pending = {}
      /\ b.lookup = a.lookup /\ b.prompt = a.prompt /\ b.approval = a.approval
      /\ b.approving = a.approving /\ b.approved = a.approved /\ b.editing = a.editing
  BY WithPending
<1> HIDE DEF b
<1>2. Weaker(a, b)
  BY <1>1 DEF Fine, Opened, Apart, Ended, Weaker
<1>3. Fine(b, cs) /\ Waits(b)
  BY <1>1, <1>2, WeakerKeeps DEF Waits
<1> QED BY <1>2, <1>3 DEF b

\* What is prepared is started, put before the user or given up.
LEMMA PreparationFinishes ==
  ASSUME NEW cs, NEW a \in Windows, NEW p \in Prepared, Fine(a, cs),
         Preparable(a, p, cs), p.session \in a.open, Len(p.secrets) = Len(Needs(p.target)),
         a.pending = {}, a.prompt = {}, \A l \in a.lookup : l.session # p.session
  PROVE  /\ FinishPreparation(a, p) \in Windows /\ Good(FinishPreparation(a, p), cs)
         /\ FewerBut(a, FinishPreparation(a, p), p.session)
<1> DEFINE c == [a EXCEPT !.approving = @ \cup {p.session}, !.approval = {p}]
<1>0. Waits(a) /\ Asks(a) /\ FewerBut(a, a, p.session)
  BY DEF Waits, Asks, FewerBut
<1>1. CASE ~ValidPlan(p.target)
  BY <1>0, <1>1 DEF FinishPreparation, Good
<1>2. CASE ValidPlan(p.target) /\ Proxy[p.target] = "ProxyCommand" /\ ~Approved(p)
  <2>1. FinishPreparation(a, p) = c
    BY <1>2 DEF FinishPreparation
  <2>2. /\ c \in Windows /\ c.open = a.open /\ c.used = a.used /\ c.panes = a.panes
        /\ c.worker = a.worker /\ c.session = a.session /\ c.pending = a.pending
        /\ c.lookup = a.lookup /\ c.prompt = a.prompt /\ c.approval = {p}
        /\ c.approving = a.approving \cup {p.session}
        /\ c.approved = a.approved /\ c.editing = a.editing
    BY DEF Windows, Prepared
  <2> HIDE DEF c
  <2>3. Typed1(c) /\ Opened(c) /\ Own(c)
    BY <2>2 DEF Fine, Typed1, Opened, Own, AtMostOne, Preparable
  <2>4. Apart(c)
    BY <2>2 DEF Fine, Apart, Preparable
  <2>5. Made(c)
    BY <2>2, <1>2 DEF Fine, Made, Preparable, Complete
  <2>6. Ended(c) /\ Consented(c, cs)
    BY <2>2 DEF Fine, Ended, Consented, Preparable
  <2>7. Waits(c) /\ Asks(c) /\ FewerBut(a, c, p.session)
    BY <2>2 DEF Waits, Asks, FewerBut
  <2> QED BY <2>1, <2>2, <2>3, <2>4, <2>5, <2>6, <2>7 DEF Fine, Good
<1>3. CASE ValidPlan(p.target) /\ ~(Proxy[p.target] = "ProxyCommand" /\ ~Approved(p))
  <2>1. Complete(p.secrets, p.target)
    BY <1>3 DEF Complete
  <2>2. ASSUME Proxy[p.target] = "ProxyCommand"
        PROVE  <<p.target, p.secrets[1].value>> \in cs
    <3>1. p.target \in Profiles /\ p.secrets \in Seq(Secrets)
      BY DEF Prepared
    <3>2. Needs(p.target)[1] = <<p.target, "ProxyCommand">> /\ 1 \in DOMAIN p.secrets
      BY <3>1, <2>2, NeedsAre
    <3>3. p.secrets[1].value # "none"
      BY <3>2 DEF Preparable, Fitting
    <3>4. p.secrets[1].value \in Given(p.target, cs)
      BY <1>3, <2>2 DEF Approved, Preparable
    <3>5. PICK d \in cs : d[1] = p.target /\ d[2] = p.secrets[1].value
      BY <3>3, <3>4 DEF Given
    <3> QED BY <3>5 DEF Fine, Consented
  <2>3. FinishPreparation(a, p) = Start(a, p)
    BY <1>3 DEF FinishPreparation
  <2> QED BY <1>0, <2>1, <2>2, <2>3, ConnectionStarts
<1> QED BY <1>1, <1>2, <1>3

LEMMA PromptIsOpened ==
  ASSUME NEW a \in Windows, a.prompt = {}, NEW s \in Sessions, NEW item \in AskedItems
  PROVE  /\ OpenPrompt(a, s, item) \in Windows
         /\ OpenPrompt(a, s, item).open = a.open
         /\ OpenPrompt(a, s, item).used = a.used
         /\ OpenPrompt(a, s, item).panes = a.panes
         /\ OpenPrompt(a, s, item).worker = a.worker
         /\ OpenPrompt(a, s, item).session = a.session
         /\ OpenPrompt(a, s, item).pending = a.pending
         /\ OpenPrompt(a, s, item).lookup = a.lookup
         /\ OpenPrompt(a, s, item).prompt = {[session |-> s, item |-> item]}
         /\ OpenPrompt(a, s, item).approval = a.approval
         /\ OpenPrompt(a, s, item).approving = a.approving
         /\ OpenPrompt(a, s, item).approved = a.approved
         /\ OpenPrompt(a, s, item).editing = a.editing
         /\ OpenPrompt(a, s, item).deleting = a.deleting
         /\ OpenPrompt(a, s, item).saving = a.saving
<1> DEFINE b == [a EXCEPT !.prompt = {}]
           c == [b EXCEPT !.prompt = {[session |-> s, item |-> item]}]
<1>1. {x.session : x \in a.prompt} \ a.panes = {}
  OBVIOUS
<1>2. DismissPrompt(a) = b
  BY <1>1 DEF DismissPrompt
<1>3. OpenPrompt(a, s, item) = c
  BY <1>2 DEF OpenPrompt
<1>4. /\ b \in Windows /\ b.open = a.open /\ b.used = a.used /\ b.panes = a.panes
      /\ b.worker = a.worker /\ b.session = a.session /\ b.pending = a.pending
      /\ b.lookup = a.lookup /\ b.approval = a.approval
      /\ b.approving = a.approving /\ b.approved = a.approved /\ b.editing = a.editing
      /\ b.deleting = a.deleting /\ b.saving = a.saving
  BY WithoutPrompt
<1> HIDE DEF b
<1>5. {[session |-> s, item |-> item]} \in SUBSET Prompted
  BY DEF Prompted
<1>6. /\ c \in Windows /\ c.open = b.open /\ c.used = b.used /\ c.panes = b.panes
      /\ c.worker = b.worker /\ c.session = b.session /\ c.pending = b.pending
      /\ c.lookup = b.lookup /\ c.approval = b.approval
      /\ c.approving = b.approving /\ c.approved = b.approved /\ c.editing = b.editing
      /\ c.deleting = b.deleting /\ c.saving = b.saving
      /\ c.prompt = {[session |-> s, item |-> item]}
  BY <1>4, <1>5 DEF Windows
<1> HIDE DEF c
<1> QED BY <1>3, <1>4, <1>6

\* A step that is still to come and needs a secret.
StillNeeds(p) ==
  \E i \in DOMAIN Needs(p.target) : i > Len(p.secrets) /\ Needs(p.target)[i][2] # "None"

\* A preparation goes on until it waits, or is done, or its session is gone.
LEMMA PreparationContinues ==
  ASSUME NEW cs, NEW a \in Windows, NEW p \in Prepared, Fine(a, cs), a.prompt = {},
         Preparable(a, p, cs), \A l \in a.lookup : l.session # p.session
  PROVE  /\ ContinuePreparation([a EXCEPT !.pending = {p}]) \in Windows
         /\ Good(ContinuePreparation([a EXCEPT !.pending = {p}]), cs)
         /\ FewerBut(a, ContinuePreparation([a EXCEPT !.pending = {p}]), p.session)
         /\ StillNeeds(p) => ContinuePreparation([a EXCEPT !.pending = {p}]).worker = a.worker
<1> DEFINE b == [a EXCEPT !.pending = {p}]
           q == PassOver(p)
           s == q.session
           r == [q EXCEPT !.forced = {}]
           none == [b EXCEPT !.pending = {}]
           asked == [b EXCEPT !.pending = {r}]
           sought == [b EXCEPT !.pending = {q}]
           c == ContinuePreparation(b)
<1>1. /\ b \in Windows /\ b.open = a.open /\ b.used = a.used /\ b.panes = a.panes
      /\ b.worker = a.worker /\ b.session = a.session /\ b.pending = {p}
      /\ b.lookup = a.lookup /\ b.prompt = {} /\ b.approval = a.approval
      /\ b.approving = a.approving /\ b.approved = a.approved /\ b.editing = a.editing
  <2>1. {p} \in SUBSET Prepared
    OBVIOUS
  <2> QED BY <2>1, WithPending
<1>2. /\ q \in Prepared /\ q.session = p.session /\ q.target = p.target
      /\ q.digest = p.digest /\ q.forced = p.forced /\ q.credentials = p.credentials
      /\ Fitting(q.secrets, q.target, q.credentials)
      /\ \/ Len(q.secrets) = Len(Needs(q.target))
         \/ Len(q.secrets) < Len(Needs(q.target)) /\ NextNeed(q) \in Items
      /\ StillNeeds(p) => Len(q.secrets) < Len(Needs(q.target))
  BY PassesOver DEF Preparable, StillNeeds
<1>3. /\ s \in Sessions /\ q.target \in Profiles /\ Len(q.secrets) \in Nat
      /\ Len(Needs(q.target)) \in Nat
  BY <1>2, NeedsAre DEF Prepared
<1>4. Preparable(a, q, cs)
  <2> HIDE DEF q
  <2> QED BY <1>2 DEF Preparable
<1>5. (CHOOSE x \in b.pending : TRUE) = p
  <2> HIDE DEF b
  <2> QED BY <1>1
<1>6. c = IF s \notin b.open THEN none
          ELSE IF Len(q.secrets) = Len(Needs(q.target)) THEN FinishPreparation(none, q)
          ELSE IF NextNeed(q) \in q.forced THEN OpenPrompt(asked, s, NextNeed(q))
          ELSE Lookup(sought, s, NextNeed(q))
  <2> HIDE DEF b
  <2> QED BY <1>1, <1>5 DEF ContinuePreparation
<1>7. /\ none \in Windows /\ none.open = a.open /\ none.used = a.used /\ none.panes = a.panes
      /\ none.worker = a.worker /\ none.session = a.session /\ none.pending = {}
      /\ none.lookup = a.lookup /\ none.prompt = {} /\ none.approval = a.approval
      /\ none.approving = a.approving /\ none.approved = a.approved /\ none.editing = a.editing
  <2> HIDE DEF b
  <2> QED BY <1>1, WithPending
<1> HIDE DEF b, c, q, none
<1>8. Weaker(a, none)
  BY <1>7 DEF Fine, Opened, Apart, Ended, Weaker
<1>9. Fine(none, cs) /\ Preparable(none, q, cs) /\ Waits(none) /\ Asks(none)
      /\ FewerBut(a, none, p.session)
  BY <1>2, <1>4, <1>7, <1>8, WeakerKeeps, WeakerPrepares DEF Waits, Asks
<1>10. CASE s \notin b.open
  BY <1>6, <1>7, <1>9, <1>10 DEF Good, b, c
<1>11. CASE s \in b.open /\ Len(q.secrets) = Len(Needs(q.target))
  <2>1. c = FinishPreparation(none, q)
    BY <1>6, <1>11
  <2>2. c \in Windows /\ Good(c, cs) /\ FewerBut(none, c, p.session)
    BY <2>1, <1>1, <1>2, <1>7, <1>9, <1>11, PreparationFinishes
  <2>3. ~StillNeeds(p)
    BY <1>2, <1>3, <1>11
  <2> QED BY <2>2, <2>3, <1>7 DEF FewerBut, b, c
<1>12. CASE /\ s \in b.open /\ Len(q.secrets) < Len(Needs(q.target)) /\ NextNeed(q) \in q.forced
  <2>1. c = OpenPrompt(asked, s, NextNeed(q))
    BY <1>3, <1>6, <1>12
  <2>2. /\ r \in Prepared /\ r.session = s /\ r.target = q.target /\ r.secrets = q.secrets
        /\ r.digest = q.digest /\ r.credentials = q.credentials
        /\ NextNeed(q) \in AskedItems /\ NextNeed(r) = NextNeed(q)
    BY <1>2, <1>12 DEF Prepared, NextNeed
  <2> HIDE DEF r
  <2>3. /\ asked \in Windows /\ asked.open = a.open /\ asked.used = a.used /\ asked.panes = a.panes
        /\ asked.worker = a.worker /\ asked.session = a.session /\ asked.pending = {r}
        /\ asked.lookup = a.lookup /\ asked.prompt = {} /\ asked.approval = a.approval
        /\ asked.approving = a.approving /\ asked.approved = a.approved
        /\ asked.editing = a.editing
    <3>1. {r} \in SUBSET Prepared
      BY <2>2
    <3> QED BY <3>1, <1>1, WithPending
  <2> HIDE DEF asked
  <2>4. /\ c \in Windows /\ c.open = a.open /\ c.used = a.used /\ c.panes = a.panes
        /\ c.worker = a.worker /\ c.session = a.session /\ c.pending = {r}
        /\ c.lookup = a.lookup /\ c.prompt = {[session |-> s, item |-> NextNeed(q)]}
        /\ c.approval = a.approval
        /\ c.approving = a.approving /\ c.approved = a.approved /\ c.editing = a.editing
    BY <2>1, <2>2, <2>3, <1>3, PromptIsOpened
  <2>5. Preparable(a, r, cs)
    BY <2>2, <1>4 DEF Preparable
  <2>6. NextNeed(r)[2] # "None" /\ r.session \in a.open
    BY <2>2, <1>1, <1>12 DEF AskedItems
  <2>7. Good(c, cs)
    BY <2>2, <2>4, <2>5, <2>6, <1>2, <1>12, PreparationWaits
  <2> QED BY <2>4, <2>7 DEF FewerBut, b, c
<1>13. CASE /\ s \in b.open /\ Len(q.secrets) < Len(Needs(q.target)) /\ NextNeed(q) \notin q.forced
  <2>1. c = Lookup(sought, s, NextNeed(q))
    BY <1>3, <1>6, <1>13
  <2>2. NextNeed(q) \in Items
    BY <1>2, <1>3, <1>13
  <2>3. /\ sought \in Windows /\ sought.open = a.open /\ sought.used = a.used
        /\ sought.panes = a.panes /\ sought.worker = a.worker /\ sought.session = a.session
        /\ sought.pending = {q} /\ sought.prompt = {} /\ sought.approval = a.approval
        /\ sought.approving = a.approving /\ sought.approved = a.approved
        /\ sought.editing = a.editing
    <3>1. {q} \in SUBSET Prepared
      BY <1>2
    <3> QED BY <3>1, <1>1, WithPending
  <2> HIDE DEF sought
  <2> DEFINE L == {[session |-> s, item |-> NextNeed(q), purpose |-> "Lookup"]}
  <2>4. L \in SUBSET Lookups
    BY <2>2, <1>3 DEF Lookups
  <2>5. c = [sought EXCEPT !.lookup = L]
    BY <2>1 DEF Lookup
  <2> HIDE DEF L
  <2>6. /\ c \in Windows /\ c.open = a.open /\ c.used = a.used /\ c.panes = a.panes
        /\ c.worker = a.worker /\ c.session = a.session /\ c.pending = {q}
        /\ c.lookup = L /\ c.prompt = {} /\ c.approval = a.approval
        /\ c.approving = a.approving /\ c.approved = a.approved /\ c.editing = a.editing
    BY <2>3, <2>4, <2>5 DEF Windows
  <2>7. NextNeed(q)[2] # "None" /\ q.session \in a.open
    BY <2>2, <1>1, <1>13 DEF Items, Kinds
  <2>8. Good(c, cs)
    BY <2>6, <2>7, <1>2, <1>4, <1>13, PreparationWaits DEF L
  <2> QED BY <2>6, <2>8 DEF FewerBut, b, c
<1> QED BY <1>2, <1>3, <1>10, <1>11, <1>12, <1>13

NeedsSecret(profile) == \E i \in DOMAIN Needs(profile) : Needs(profile)[i][2] # "None"

\* A preparation begins in a session with nothing else under way.
LEMMA PreparationBegins ==
  ASSUME NEW cs, NEW a \in Windows, Fine(a, cs), NEW s \in Sessions, NEW profile \in Profiles,
         NEW forced \in SUBSET AskedItems,
         s \in a.open => profile = a.session[s].profile, a.worker[s] = {},
         \A x \in a.lookup \cup a.approval : x.session # s
  PROVE  /\ BeginPreparation(a, s, profile, forced) \in Windows
         /\ Good(BeginPreparation(a, s, profile, forced), cs)
         /\ FewerBut(a, BeginPreparation(a, s, profile, forced), s)
         /\ NeedsSecret(profile) => Fewer(a, BeginPreparation(a, s, profile, forced))
<1> DEFINE d == DismissPrompt(a)
           p == [session |-> s, target |-> profile, digest |-> a.approved[profile],
                 secrets |-> <<>>, credentials |-> {}, forced |-> forced]
           c == ContinuePreparation([d EXCEPT !.pending = {p}])
<1>1. BeginPreparation(a, s, profile, forced) = c
  BY DEF BeginPreparation
<1>2. d \in Windows /\ Weaker(a, d) /\ Fine(d, cs) /\ d.prompt = {}
  BY PromptIsDismissed
<1>3. p \in Prepared
  BY DEF Prepared, Windows
<1>4. /\ p.session = s /\ p.target = profile /\ p.secrets = <<>> /\ p.credentials = {}
      /\ p.digest = a.approved[profile]
  OBVIOUS
<1> HIDE DEF d, p
<1>5. Fitting(<<>>, profile, {})
  BY NeedsAre DEF Fitting
<1>6. p.digest \in Given(profile, cs)
  BY <1>4 DEF Fine, Consented
<1>7. Preparable(a, p, cs)
  BY <1>3, <1>4, <1>5, <1>6 DEF Preparable
<1>8. Preparable(d, p, cs) /\ Fewer(a, d)
  BY <1>2, <1>7, WeakerPrepares
<1>9. \A l \in d.lookup : l.session # p.session
  BY <1>2, <1>4 DEF Weaker
<1>10. c \in Windows /\ Good(c, cs) /\ FewerBut(d, c, s) /\ (StillNeeds(p) => c.worker = d.worker)
  BY <1>2, <1>3, <1>4, <1>8, <1>9, PreparationContinues
<1> HIDE DEF c
<1>11. FewerBut(a, c, s)
  BY <1>8, <1>10 DEF FewerBut, Fewer
<1>12. NeedsSecret(profile) => StillNeeds(p)
  BY <1>4, NeedsAre DEF NeedsSecret, StillNeeds
<1>13. NeedsSecret(profile) => Fewer(a, c)
  BY <1>2, <1>10, <1>12 DEF Fewer, Weaker
<1> QED BY <1>1, <1>10, <1>11, <1>13

\* What the window checks before it connects leaves nothing under way for the session.
LEMMA SessionConnects ==
  ASSUME NEW cs, NEW a \in Windows, Good(a, cs), NEW s \in Sessions, a.worker[s] = {}
  PROVE  /\ ConnectInSession(a, s) \in Windows
         /\ Good(ConnectInSession(a, s), cs)
         /\ FewerBut(a, ConnectInSession(a, s), s)
<1>1. CASE ~Free(a, s)
  BY <1>1 DEF ConnectInSession, FewerBut
<1>2. CASE Free(a, s)
  <2> DEFINE b == ActivateInWindow(a, s)
             profile == a.session[s].profile
             c == BeginPreparation(b, s, profile, {})
  <2>1. ConnectInSession(a, s) = c
    BY <1>2 DEF ConnectInSession
  <2>2. b \in Windows /\ Weaker(a, b) /\ Fine(b, cs)
    BY SessionIsShown DEF Good
  <2> HIDE DEF b
  <2>3. profile \in Profiles
    BY WindowTypes DEF SessionRecords
  <2>4. s \in b.open => profile = b.session[s].profile
    BY <2>2 DEF Weaker
  <2>5. b.worker[s] = {} /\ FewerBut(a, b, s)
    BY <2>2 DEF Weaker, FewerBut
  <2>6. \A x \in b.lookup \cup b.approval : x.session # s
    BY <2>2, <1>2 DEF Weaker, Free, Good, Fine, Apart
  <2> HIDE DEF profile
  <2>7. {} \in SUBSET AskedItems
    OBVIOUS
  <2>8. c \in Windows /\ Good(c, cs) /\ FewerBut(b, c, s)
    BY <2>2, <2>3, <2>4, <2>5, <2>6, <2>7, PreparationBegins
  <2> HIDE DEF c
  <2> QED BY <2>1, <2>5, <2>8 DEF FewerBut
<1> QED BY <1>1, <1>2

\* A prompt for what was rejected leads a new preparation, which stops there or before.
LEMMA RetryAsks ==
  ASSUME NEW cs, NEW a \in Windows, Good(a, cs), NEW s \in Sessions, NEW item \in AskedItems,
         a.worker[s] = {}, \A x \in a.lookup \cup a.approval : x.session # s
  PROVE  /\ RetryWithPrompt(a, s, item) \in Windows
         /\ Good(RetryWithPrompt(a, s, item), cs)
         /\ FewerBut(a, RetryWithPrompt(a, s, item), s)
         /\ NeedsSecret(a.session[s].profile) => Fewer(a, RetryWithPrompt(a, s, item))
<1> DEFINE profile == a.session[s].profile
<1>1. profile \in Profiles
  BY WindowTypes DEF SessionRecords
<1>2. RetryWithPrompt(a, s, item) \in {a, BeginPreparation(a, s, profile, {item})}
  BY DEF RetryWithPrompt
<1>3. FewerBut(a, a, s) /\ Fewer(a, a)
  BY DEF FewerBut, Fewer
<1>4. {item} \in SUBSET AskedItems
  OBVIOUS
<1>5. LET c == BeginPreparation(a, s, profile, {item})
      IN  c \in Windows /\ Good(c, cs) /\ FewerBut(a, c, s) /\ (NeedsSecret(profile) => Fewer(a, c))
  BY <1>1, <1>4, PreparationBegins DEF Good
<1> QED BY <1>2, <1>3, <1>5

WithSecret(p, value, credentials) ==
  [p EXCEPT !.secrets = Append(@, [item |-> NextNeed(p), value |-> value]),
            !.credentials = @ \cup credentials]

\* One more secret fits, if it is for the step the preparation is at.
LEMMA OneMoreFits ==
  ASSUME NEW p \in Prepared, Fitting(p.secrets, p.target, p.credentials),
         Len(p.secrets) < Len(Needs(p.target)), NEW value \in Texts,
         NEW credentials \in SUBSET AskedCredentials,
         NextNeed(p)[2] = "ProxyCommand" => value # "none",
         \A c \in credentials : c.item = NextNeed(p) /\ c.value = value
  PROVE  /\ WithSecret(p, value, credentials) \in Prepared
         /\ WithSecret(p, value, credentials).session = p.session
         /\ WithSecret(p, value, credentials).target = p.target
         /\ WithSecret(p, value, credentials).digest = p.digest
         /\ Fitting(WithSecret(p, value, credentials).secrets, p.target,
                    WithSecret(p, value, credentials).credentials)
<1> DEFINE n == Len(p.secrets)
           secret == [item |-> NextNeed(p), value |-> value]
           more == Append(p.secrets, secret)
           q == [p EXCEPT !.secrets = Append(@, secret), !.credentials = @ \cup credentials]
<1>1. /\ p.target \in Profiles /\ p.secrets \in Seq(Secrets) /\ n \in Nat
      /\ p.credentials \subseteq AskedCredentials /\ DOMAIN p.secrets = 1..n
  BY DEF Prepared
<1>2. NextNeed(p) \in StepItems /\ n < Len(Needs(p.target)) /\ NextNeed(p) = Needs(p.target)[n + 1]
      /\ Len(Needs(p.target)) \in Nat
  BY <1>1, NeedsAre DEF NextNeed
<1>3. secret \in Secrets
  BY <1>2 DEF Secrets, StepItems, Texts
<1>4. /\ more \in Seq(Secrets) /\ Len(more) = n + 1 /\ DOMAIN more = 1..(n + 1)
      /\ \A i \in 1..n : more[i] = p.secrets[i]
      /\ more[n + 1] = secret
  <2> HIDE DEF secret
  <2>1. Len(p.secrets) = n /\ secret \in Secrets /\ p.secrets \in Seq(Secrets)
    BY <1>1, <1>3
  <2> HIDE DEF n
  <2>2. /\ Append(p.secrets, secret) \in Seq(Secrets)
        /\ Len(Append(p.secrets, secret)) = Len(p.secrets) + 1
        /\ Append(p.secrets, secret)[Len(p.secrets) + 1] = secret
        /\ \A i \in 1..Len(p.secrets) : Append(p.secrets, secret)[i] = p.secrets[i]
    BY <2>1, AppendProperties
  <2>3. n \in Nat
    BY <1>1
  <2> QED BY <2>1, <2>2, <2>3
<1>5. secret.item = NextNeed(p) /\ secret.value = value
  OBVIOUS
<1> HIDE DEF more, secret
<1>6. /\ q \in Prepared /\ q.session = p.session /\ q.target = p.target /\ q.digest = p.digest
      /\ q.secrets = more /\ q.credentials = p.credentials \cup credentials
  BY <1>1, <1>4 DEF Prepared, more
<1>7. Fitting(more, p.target, p.credentials \cup credentials)
  <2>1. Len(more) <= Len(Needs(p.target))
    BY <1>1, <1>2, <1>4
  <2>2. ASSUME NEW i \in 1..(n + 1)
        PROVE  /\ more[i].item = Needs(p.target)[i]
               /\ more[i].item[2] = "ProxyCommand" => more[i].value # "none"
    <3>1. CASE i \in 1..n
      BY <3>1, <1>1, <1>4 DEF Fitting
    <3>2. CASE i = n + 1
      BY <3>2, <1>2, <1>4, <1>5
    <3> QED BY <3>1, <3>2, <1>1
  <2>3. ASSUME NEW c \in p.credentials
        PROVE  \E i \in 1..(n + 1) : more[i].item = c.item /\ more[i].value = c.value
    <3>1. PICK i \in 1..n : p.secrets[i].item = c.item /\ p.secrets[i].value = c.value
      BY <1>1 DEF Fitting
    <3> QED BY <3>1, <1>1, <1>4
  <2>4. ASSUME NEW c \in credentials
        PROVE  \E i \in 1..(n + 1) : more[i].item = c.item /\ more[i].value = c.value
    <3>1. n + 1 \in 1..(n + 1)
      BY <1>1
    <3> QED BY <3>1, <1>4, <1>5
  <2> QED BY <1>4, <2>1, <2>2, <2>3, <2>4 DEF Fitting
<1> QED BY <1>6, <1>7 DEF secret, WithSecret

LEMMA SecretIsAccepted ==
  ASSUME NEW cs, NEW a \in Windows, Fine(a, cs), Waits(a), a.prompt = {}, NEW p \in a.pending,
         \A l \in a.lookup : l.session # p.session,
         NEW value \in Texts, NEW credentials \in SUBSET AskedCredentials,
         NextNeed(p)[2] = "ProxyCommand" => value # "none",
         \A c \in credentials : c.item = NextNeed(p) /\ c.value = value
  PROVE  /\ AcceptSecret(a, NextNeed(p), value, credentials) \in Windows
         /\ Good(AcceptSecret(a, NextNeed(p), value, credentials), cs)
         /\ FewerBut(a, AcceptSecret(a, NextNeed(p), value, credentials), p.session)
<1> DEFINE q == WithSecret(p, value, credentials)
<1>1. p \in Prepared /\ p.session \in Sessions /\ p.session \in a.open /\ a.pending = {p}
  BY WindowTypes DEF Fine, Typed1, AtMostOne, Opened
<1>2. /\ Len(p.secrets) < Len(Needs(p.target)) /\ Fitting(p.secrets, p.target, p.credentials)
      /\ p.digest \in Given(p.target, cs) /\ p.target = a.session[p.session].profile
      /\ a.worker[p.session] = {} /\ \A x \in a.approval : x.session # p.session
  BY DEF Fine, Waits, Made, Consented, Own, Apart
<1>3. /\ q \in Prepared /\ q.session = p.session /\ q.target = p.target /\ q.digest = p.digest
      /\ Fitting(q.secrets, q.target, q.credentials)
  BY <1>1, <1>2, OneMoreFits
<1>4. AcceptSecret(a, NextNeed(p), value, credentials) = ContinuePreparation([a EXCEPT !.pending = {q}])
  <2>1. (CHOOSE x \in a.pending : TRUE) = p
    BY <1>1
  <2> QED BY <1>1, <2>1 DEF AcceptSecret, WithSecret
<1> HIDE DEF q
<1>5. Preparable(a, q, cs)
  BY <1>1, <1>2, <1>3 DEF Preparable
<1> QED BY <1>3, <1>4, <1>5, PreparationContinues

\* A secret that is not found is asked for, left out or missed for good.
LEMMA SecretIsMissing ==
  ASSUME NEW cs, NEW a \in Windows, Fine(a, cs), Waits(a), a.prompt = {}, a.lookup = {},
         NEW p \in a.pending, NextNeed(p) \in Items, NEW error \in BOOLEAN
  PROVE  /\ MissingSecret(a, p.session, NextNeed(p), error) \in Windows
         /\ Good(MissingSecret(a, p.session, NextNeed(p), error), cs)
         /\ FewerBut(a, MissingSecret(a, p.session, NextNeed(p), error), p.session)
<1> DEFINE s == p.session
           item == NextNeed(p)
           c == MissingSecret(a, s, item, error)
<1>1. CASE item[2] = "PrivateKeyPassphrase" /\ ~error
  <2>1. c = AcceptSecret(a, item, "none", {})
    BY <1>1 DEF MissingSecret
  <2>2. "none" \in Texts /\ {} \in SUBSET AskedCredentials /\ item[2] # "ProxyCommand"
    BY <1>1 DEF Texts
  <2> QED BY <2>1, <2>2, SecretIsAccepted
<1>2. CASE item[2] = "ProxyCommand"
  <2>1. c = [a EXCEPT !.pending = {}]
    BY <1>2 DEF MissingSecret
  <2>2. c \in Windows /\ c.worker = a.worker /\ c.prompt = {}
    BY <2>1, WithPending
  <2>3. Fine(c, cs) /\ Waits(c)
    BY <2>1, NothingPending
  <2> HIDE DEF c
  <2> QED BY <2>2, <2>3 DEF Good, Asks, FewerBut, c
<1>3. CASE ~(item[2] = "PrivateKeyPassphrase" /\ ~error) /\ item[2] # "ProxyCommand"
  <2>1. c = OpenPrompt(a, s, item)
    BY <1>3 DEF MissingSecret
  <2>2. item \in AskedItems /\ item[2] # "None"
    BY <1>3 DEF Items, AskedItems, Kinds
  <2>3. s \in Sessions /\ s \in a.open /\ a.pending = {p} /\ p \in Prepared
    BY WindowTypes DEF Fine, Typed1, AtMostOne, Opened
  <2>4. /\ c \in Windows /\ c.open = a.open /\ c.used = a.used /\ c.panes = a.panes
        /\ c.worker = a.worker /\ c.session = a.session /\ c.pending = a.pending
        /\ c.lookup = a.lookup /\ c.prompt = {[session |-> s, item |-> item]}
        /\ c.approval = a.approval /\ c.approving = a.approving
        /\ c.approved = a.approved /\ c.editing = a.editing
    BY <2>1, <2>2, <2>3, PromptIsOpened
  <2> HIDE DEF c
  <2>5. Preparable(a, p, cs) /\ Len(p.secrets) < Len(Needs(p.target))
    BY <2>3 DEF Fine, Waits, Made, Consented, Own, Apart, Preparable
  <2>6. Good(c, cs)
    BY <2>2, <2>3, <2>4, <2>5, PreparationWaits
  <2> QED BY <2>4, <2>6 DEF FewerBut, c
<1> QED BY <1>1, <1>2, <1>3

---------------------------------------------------------------------------
\* What becomes of a connection.

\* A session gives up its connection, or secrets of it, and nothing else changes.
LEMMA SessionChanges ==
  ASSUME NEW cs, NEW a \in Windows, NEW b \in Windows, Good(a, cs), NEW s \in Sessions,
         b.worker[s] \subseteq a.worker[s],
         b.session[s].profile = a.session[s].profile,
         b.session[s].credentials \subseteq a.session[s].credentials,
         b.session[s].credentials # {} => b.worker[s] # {},
         \A r \in Sessions \ {s} : b.worker[r] = a.worker[r] /\ b.session[r] = a.session[r],
         b.open = a.open, b.used = a.used, b.panes \subseteq a.panes,
         b.pending = a.pending, b.lookup = a.lookup, b.prompt = a.prompt,
         b.approval = a.approval, b.approving = a.approving,
         b.approved = a.approved, b.editing = a.editing
  PROVE  Weaker(a, b) /\ Good(b, cs) /\ Fewer(a, b)
<1>2. Weaker(a, b)
  BY DEF Good, Fine, Opened, Apart, Ended, Weaker
<1>3. Fine(b, cs) /\ Waits(b) /\ Fewer(a, b)
  BY <1>2, WeakerKeeps DEF Good, Fewer, Weaker
<1>4. Asks(b)
  BY DEF Good, Asks
<1> QED BY <1>2, <1>3, <1>4 DEF Good

LEMMA ConnectionEnds ==
  ASSUME NEW cs, NEW a \in Windows, Good(a, cs), NEW s \in Sessions, NEW state \in States
  PROVE  /\ End(a, s, state) \in Windows /\ Good(End(a, s, state), cs)
         /\ Weaker(a, End(a, s, state))
         /\ End(a, s, state).worker[s] = {}
         /\ End(a, s, state).open = a.open
         /\ End(a, s, state).session[s].profile = a.session[s].profile
<1> DEFINE R == [a.session[s] EXCEPT !.state = state, !.handle = FALSE, !.credentials = {}]
           b == End(a, s, state)
<1>1. R \in SessionRecords /\ R.profile = a.session[s].profile /\ R.credentials = {}
  <2>1. a.session[s] \in SessionRecords
    BY WindowTypes
  <2> QED BY <2>1 DEF SessionRecords
<1>2. b = [a EXCEPT !.worker[s] = {}, !.session[s] = R]
  BY DEF End
<1> HIDE DEF R
<1>3. /\ [a.worker EXCEPT ![s] = {}] \in [Sessions -> SUBSET Workers]
      /\ [a.session EXCEPT ![s] = R] \in [Sessions -> SessionRecords]
  BY <1>1, WindowTypes
<1>4. /\ b \in Windows /\ b.open = a.open /\ b.used = a.used /\ b.panes = a.panes
      /\ b.worker = [a.worker EXCEPT ![s] = {}] /\ b.session = [a.session EXCEPT ![s] = R]
      /\ b.pending = a.pending /\ b.lookup = a.lookup /\ b.prompt = a.prompt
      /\ b.approval = a.approval /\ b.approving = a.approving
      /\ b.approved = a.approved /\ b.editing = a.editing
  BY <1>2, <1>3 DEF Windows
<1> HIDE DEF b
<1>5. /\ b.worker[s] = {} /\ b.session[s] = R
      /\ \A r \in Sessions \ {s} : b.worker[r] = a.worker[r] /\ b.session[r] = a.session[r]
  <2> HIDE DEF b
  <2> QED BY <1>4, WindowTypes
<1>6. Weaker(a, b) /\ Good(b, cs)
  <2> HIDE DEF b
  <2>1. /\ b.worker[s] \subseteq a.worker[s] /\ b.panes \subseteq a.panes
        /\ b.session[s].profile = a.session[s].profile
        /\ b.session[s].credentials \subseteq a.session[s].credentials
        /\ b.session[s].credentials # {} => b.worker[s] # {}
        /\ \A r \in Sessions \ {s} : b.worker[r] = a.worker[r] /\ b.session[r] = a.session[r]
        /\ b \in Windows /\ b.open = a.open /\ b.used = a.used
        /\ b.pending = a.pending /\ b.lookup = a.lookup /\ b.prompt = a.prompt
        /\ b.approval = a.approval /\ b.approving = a.approving
        /\ b.approved = a.approved /\ b.editing = a.editing
    BY <1>1, <1>4, <1>5
  <2> QED BY <2>1, SessionChanges
<1> QED BY <1>1, <1>4, <1>5, <1>6 DEF b

LEMMA RejectedIsDeleted ==
  ASSUME NEW cs, NEW a \in Windows, Good(a, cs), NEW s \in Sessions, NEW item \in AskedItems,
         s \in a.open, a.worker[s] = {},
         \A x \in a.lookup \cup a.approval \cup a.pending : x.session # s
  PROVE  /\ RemoveRejectedThenPrompt(a, s, item) \in Windows
         /\ Good(RemoveRejectedThenPrompt(a, s, item), cs)
         /\ Fewer(a, RemoveRejectedThenPrompt(a, s, item))
<1> DEFINE l == [session |-> s, item |-> item, purpose |-> "Delete"]
           b == RemoveRejectedThenPrompt(a, s, item)
<1>0. item \in Items
  BY DEF AskedItems, Items, Kinds
<1>1. l \in Lookups /\ l.session = s /\ l.item = item
  BY <1>0 DEF Lookups
<1>2. b = [a EXCEPT !.lookup = {l}, !.deleting = @ \cup {item}]
  BY DEF RemoveRejectedThenPrompt
<1> HIDE DEF l
<1>3. /\ b \in Windows /\ b.open = a.open /\ b.used = a.used /\ b.panes = a.panes
      /\ b.worker = a.worker /\ b.session = a.session
      /\ b.pending = a.pending /\ b.lookup = {l} /\ b.prompt = a.prompt
      /\ b.approval = a.approval /\ b.approving = a.approving
      /\ b.approved = a.approved /\ b.editing = a.editing
  <2>1. {l} \in SUBSET Lookups /\ a.deleting \cup {item} \in SUBSET Items
    BY <1>0, <1>1 DEF Windows
  <2> QED BY <1>2, <2>1 DEF Windows
<1> HIDE DEF b
<1>4. Typed1(b) /\ Opened(b) /\ Own(b)
  BY <1>1, <1>3 DEF Good, Fine, Typed1, Opened, Own, AtMostOne
<1>5. Apart(b)
  BY <1>1, <1>3 DEF Good, Fine, Apart
<1>6. Made(b) /\ Ended(b) /\ Consented(b, cs)
  BY <1>3 DEF Good, Fine, Made, Ended, Consented
<1>7. Asks(b) /\ Waits(b) /\ Fewer(a, b)
  BY <1>3 DEF Good, Asks, Waits, Fewer
<1> QED BY <1>3, <1>4, <1>5, <1>6, <1>7 DEF Good, Fine, b

\* A connection that fails is not followed by another until the user has answered.
LEMMA FailureIsHandled ==
  ASSUME NEW cs, NEW a \in Windows, Good(a, cs), NEW s \in Sessions, a.worker[s] # {},
         NEW items \in SUBSET AskedItems,
         \A i \in items : NeedsSecret(a.session[s].profile),
         \A i, j \in items : i = j
  PROVE  /\ HandleFailed(a, s, items) \in Windows
         /\ Good(HandleFailed(a, s, items), cs)
         /\ Fewer(a, HandleFailed(a, s, items))
<1> DEFINE b == End(a, s, "Failed")
           rejected == {c \in a.session[s].credentials : c.item \in items}
           stored == {c.item : c \in {d \in rejected : d.source = "Keychain"}}
           item == CHOOSE x \in items : TRUE
           c == HandleFailed(a, s, items)
<1>1. /\ b \in Windows /\ Good(b, cs) /\ Weaker(a, b) /\ b.worker[s] = {} /\ b.open = a.open
      /\ b.session[s].profile = a.session[s].profile
  <2>1. "Failed" \in States
    BY DEF States
  <2> QED BY <2>1, ConnectionEnds
<1>2. Fewer(a, b)
  BY <1>1 DEF Weaker, Fewer
<1>3. /\ s \in b.open
      /\ \A x \in b.lookup \cup b.approval \cup b.pending : x.session # s
  BY <1>1 DEF Weaker, Good, Fine, Opened, Apart
<1>4. items # {} => item \in AskedItems /\ NeedsSecret(b.session[s].profile)
  BY <1>1
<1>5. AskedItems \subseteq Items
  BY DEF AskedItems, Items, Kinds
<1>6. /\ c = IF a.session[s].closing THEN RemoveSession(b, s)
             ELSE IF stored # {} THEN RemoveRejectedThenPrompt(b, s, item)
             ELSE IF rejected # {} \/ \E x \in items : x[2] \in {"PrivateKeyPassphrase", "ProxyPassword"}
                  THEN RetryWithPrompt(b, s, item)
             ELSE b
      /\ stored # {} => items # {}
      /\ rejected # {} => items # {}
  BY DEF HandleFailed
<1> HIDE DEF b, rejected, stored, item
<1>7. LET d == RemoveSession(b, s)
      IN  d \in Windows /\ Good(d, cs) /\ Fewer(b, d)
  BY <1>1, SessionIsRemoved DEF Good, Weaker, Fewer
<1>8. items # {} =>
        LET d == RemoveRejectedThenPrompt(b, s, item)
        IN  d \in Windows /\ Good(d, cs) /\ Fewer(b, d)
  BY <1>1, <1>3, <1>4, <1>5, RejectedIsDeleted
<1>9. items # {} =>
        LET d == RetryWithPrompt(b, s, item)
        IN  d \in Windows /\ Good(d, cs) /\ Fewer(b, d)
  BY <1>1, <1>3, <1>4, RetryAsks
<1>10. Fewer(b, b)
  BY DEF Fewer
<1>11. c \in Windows /\ Good(c, cs) /\ Fewer(b, c)
  BY <1>1, <1>6, <1>7, <1>8, <1>9, <1>10
<1> HIDE DEF c
<1>12. Fewer(a, c)
  BY <1>2, <1>11 DEF Fewer
<1> QED BY <1>11, <1>12 DEF c

LEMMA EndIsHandled ==
  ASSUME NEW cs, NEW a \in Windows, Good(a, cs), NEW s \in Sessions
  PROVE  /\ HandleDisconnected(a, s) \in Windows
         /\ Good(HandleDisconnected(a, s), cs)
         /\ Fewer(a, HandleDisconnected(a, s))
<1> DEFINE b == End(a, s, "Disconnected")
           d == RemoveSession(b, s)
<1>1. /\ b \in Windows /\ Good(b, cs) /\ Weaker(a, b)
  BY ConnectionEnds DEF States
<1>2. HandleDisconnected(a, s) \in {b, d}
  BY DEF HandleDisconnected
<1> HIDE DEF b
<1>3. d \in Windows /\ Good(d, cs) /\ Weaker(b, d)
  BY <1>1, SessionIsRemoved DEF Good
<1> HIDE DEF d
<1>4. Fewer(a, b) /\ Fewer(a, d)
  BY <1>1, <1>3 DEF Weaker, Fewer
<1> QED BY <1>1, <1>2, <1>3, <1>4

\* The window asks a connection to end, or finds that it cannot.
LEMMA EndIsAsked ==
  ASSUME NEW cs, NEW a \in Windows, Good(a, cs), NEW s \in Sessions, NEW sent \in BOOLEAN
  PROVE  /\ Disconnecting(a, s, sent) \in Windows
         /\ Good(Disconnecting(a, s, sent), cs)
         /\ Fewer(a, Disconnecting(a, s, sent))
<1> DEFINE R == [a.session[s] EXCEPT !.state = "Disconnecting"]
           Q == [a.session[s] EXCEPT !.state = "Failed", !.handle = FALSE]
           told == [a EXCEPT !.session[s] = R]
           b == [a EXCEPT !.session[s] = Q]
           d == RemoveSession(b, s)
<1>0. a.session[s] \in SessionRecords
  BY WindowTypes
<1>1. /\ R \in SessionRecords /\ R.profile = a.session[s].profile
      /\ R.credentials = a.session[s].credentials
      /\ Q \in SessionRecords /\ Q.profile = a.session[s].profile
      /\ Q.credentials = a.session[s].credentials
  BY <1>0 DEF SessionRecords, States
<1>2. Disconnecting(a, s, sent) \in {told, b, d}
  <2>1. [a EXCEPT !.session[s].state = "Disconnecting"] = told
    BY DEF Windows
  <2>2. [a EXCEPT !.session[s].state = "Failed", !.session[s].handle = FALSE] = b
    BY <1>0, WindowTypes DEF Windows, SessionRecords
  <2> QED BY <2>1, <2>2 DEF Disconnecting
<1> HIDE DEF R, Q
<1>3. /\ [a.session EXCEPT ![s] = R] \in [Sessions -> SessionRecords]
      /\ [a.session EXCEPT ![s] = Q] \in [Sessions -> SessionRecords]
      /\ a.worker = [a.worker EXCEPT ![s] = a.worker[s]]
  BY <1>1, WindowTypes
<1>4. /\ told \in Windows /\ told.open = a.open /\ told.used = a.used /\ told.panes = a.panes
      /\ told.worker = a.worker /\ told.session = [a.session EXCEPT ![s] = R]
      /\ told.pending = a.pending /\ told.lookup = a.lookup /\ told.prompt = a.prompt
      /\ told.approval = a.approval /\ told.approving = a.approving
      /\ told.approved = a.approved /\ told.editing = a.editing
  BY <1>3 DEF Windows
<1>5. /\ b \in Windows /\ b.open = a.open /\ b.used = a.used /\ b.panes = a.panes
      /\ b.worker = a.worker /\ b.session = [a.session EXCEPT ![s] = Q]
      /\ b.pending = a.pending /\ b.lookup = a.lookup /\ b.prompt = a.prompt
      /\ b.approval = a.approval /\ b.approving = a.approving
      /\ b.approved = a.approved /\ b.editing = a.editing
  BY <1>3 DEF Windows
<1>6. /\ a.session[s].credentials # {} => a.worker[s] # {}
      /\ told.session[s] = R /\ b.session[s] = Q
      /\ \A r \in Sessions \ {s} : told.session[r] = a.session[r] /\ b.session[r] = a.session[r]
  BY <1>4, <1>5, WindowTypes DEF Good, Fine, Ended
<1> HIDE DEF told, b
<1>7. Good(told, cs) /\ Fewer(a, told) /\ Weaker(a, told)
  BY <1>1, <1>3, <1>4, <1>6, SessionChanges
<1>8. Good(b, cs) /\ Fewer(a, b) /\ Weaker(a, b)
  BY <1>1, <1>3, <1>5, <1>6, SessionChanges
<1>9. d \in Windows /\ Good(d, cs) /\ Fewer(b, d)
  BY <1>5, <1>8, SessionIsRemoved DEF Good, Weaker, Fewer
<1> HIDE DEF d
<1>10. Fewer(a, d)
  BY <1>8, <1>9 DEF Fewer
<1> QED BY <1>2, <1>4, <1>5, <1>7, <1>8, <1>9, <1>10

\* A connection goes on from one running worker to the same, one step further.
Onward(a, b) ==
  \A s \in Sessions : \A w \in a.worker[s] : b.worker[s] \subseteq {w, [w EXCEPT !.at = @ + 1]}

LEMMA FewerIsOnward ==
  ASSUME NEW cs, NEW a \in Windows, NEW b \in Windows, Good(a, cs)
  PROVE  /\ Fewer(a, b) => Onward(a, b)
         /\ \A s \in Sessions : FewerBut(a, b, s) /\ a.worker[s] = {} => Onward(a, b)
<1>1. \A s \in Sessions : AtMostOne(a.worker[s])
  BY DEF Good, Fine, Typed1
<1>2. ASSUME Fewer(a, b), NEW s \in Sessions, NEW w \in a.worker[s]
      PROVE  b.worker[s] \subseteq {w, [w EXCEPT !.at = @ + 1]}
  BY <1>1, <1>2 DEF Fewer, AtMostOne
<1>3. ASSUME NEW r \in Sessions, FewerBut(a, b, r), a.worker[r] = {},
             NEW s \in Sessions, NEW w \in a.worker[s]
      PROVE  b.worker[s] \subseteq {w, [w EXCEPT !.at = @ + 1]}
  BY <1>1, <1>3 DEF FewerBut, AtMostOne
<1> QED BY <1>2, <1>3 DEF Onward

\* The other side takes a secret: the worker goes on to its next step.
LEMMA StepIsTaken ==
  ASSUME NEW cs, NEW a \in Windows, NEW b \in Windows, Good(a, cs), NEW s \in Sessions,
         NEW w \in a.worker[s], w.at <= Len(w.secrets),
         w.secrets[w.at].item[2] = "ProxyPassword" => w.secrets[w.at].value = Right,
         b.worker[s] = {[w EXCEPT !.at = @ + 1]},
         b.session[s].profile = a.session[s].profile,
         b.session[s].credentials \subseteq a.session[s].credentials,
         \A r \in Sessions \ {s} : b.worker[r] = a.worker[r] /\ b.session[r] = a.session[r],
         b.open = a.open, b.used = a.used, b.panes = a.panes,
         b.pending = a.pending, b.lookup = a.lookup, b.prompt = a.prompt,
         b.approval = a.approval, b.approving = a.approving,
         b.approved = a.approved, b.editing = a.editing
  PROVE  Good(b, cs) /\ Onward(a, b)
<1> DEFINE v == [w EXCEPT !.at = @ + 1]
<1>1. /\ w \in Workers /\ w.secrets \in Seq(Secrets) /\ w.at \in Nat \ {0}
      /\ v.target = w.target /\ v.secrets = w.secrets /\ v.at = w.at + 1
  <2>1. w \in Workers
    BY WindowTypes
  <2> QED BY <2>1 DEF Workers
<1> HIDE DEF v
<1>2. a.worker[s] = {w} /\ b.worker[s] = {v}
  BY DEF Good, Fine, Typed1, AtMostOne, v
<1>3. Typed1(b) /\ Opened(b)
  BY <1>2 DEF Good, Fine, Typed1, Opened, AtMostOne
<1>4. Own(b)
  <2>1. \A r \in Sessions : b.session[r].profile = a.session[r].profile
    OBVIOUS
  <2>2. \A p \in a.pending \cup a.approval : p.session \in Sessions
    BY WindowTypes
  <2> QED BY <1>1, <1>2, <2>1, <2>2 DEF Good, Fine, Own
<1>5. Apart(b)
  <2>1. \A r \in Sessions : a.worker[r] = {} => b.worker[r] = {}
    <3>1. a.worker[s] # {} /\ \A r \in Sessions : r # s => b.worker[r] = a.worker[r]
      OBVIOUS
    <3> QED BY <3>1
  <2>2. \A x \in a.pending \cup a.approval \cup a.lookup : x.session \in Sessions
    BY WindowTypes
  <2>3. Apart(a)
    BY DEF Good, Fine
  <2>4. /\ \A p \in b.pending \cup b.approval : b.worker[p.session] = {}
        /\ \A p \in b.pending : \A q \in b.approval : p.session # q.session
        /\ \A q \in b.approval : q.session \in b.approving
    BY <2>1, <2>2, <2>3 DEF Apart
  <2>5. \A l \in b.lookup : b.worker[l.session] = {}
    BY <2>1, <2>2, <2>3 DEF Apart
  <2>6. \A l \in b.lookup :
          /\ \A q \in b.approval : q.session # l.session
          /\ \A p \in b.pending : p.session = l.session => l.purpose = "Lookup" /\ b.prompt = {}
    BY <2>3 DEF Apart
  <2> QED BY <2>4, <2>5, <2>6 DEF Apart
<1>6. Made(b)
  <2>1. /\ Fitting(w.secrets, w.target, a.session[s].credentials)
        /\ Complete(w.secrets, w.target) /\ Passed(w.secrets, w.at)
    BY DEF Good, Fine, Made
  <2>2. b.session[s].credentials \in SUBSET a.session[s].credentials
    OBVIOUS
  <2>3. Fitting(w.secrets, w.target, b.session[s].credentials)
    BY <2>1, <2>2, FewerFit
  <2>4. Passed(w.secrets, w.at + 1)
    BY <1>1, <2>1 DEF Passed
  <2>5. ASSUME NEW r \in Sessions, NEW x \in b.worker[r]
        PROVE  /\ Fitting(x.secrets, x.target, b.session[r].credentials)
               /\ Complete(x.secrets, x.target) /\ Passed(x.secrets, x.at)
    <3>1. CASE r = s
      BY <1>1, <1>2, <2>1, <2>3, <2>4, <3>1
    <3>2. CASE r # s
      BY <3>2 DEF Good, Fine, Made
    <3> QED BY <3>1, <3>2
  <2> QED BY <2>5 DEF Good, Fine, Made
<1>7. Ended(b)
  BY <1>2 DEF Good, Fine, Ended
<1>8. Consented(b, cs)
  <2>1. Proxy[w.target] = "ProxyCommand" => <<w.target, w.secrets[1].value>> \in cs
    BY DEF Good, Fine, Consented
  <2>2. ASSUME NEW r \in Sessions, NEW x \in b.worker[r]
        PROVE  Proxy[x.target] = "ProxyCommand" => <<x.target, x.secrets[1].value>> \in cs
    <3>1. CASE r = s
      BY <1>1, <1>2, <2>1, <3>1
    <3>2. CASE r # s
      BY <3>2 DEF Good, Fine, Consented
    <3> QED BY <3>1, <3>2
  <2> QED BY <2>2 DEF Good, Fine, Consented
<1>9. Asks(b) /\ Waits(b)
  BY DEF Good, Asks, Waits
<1>10. Onward(a, b)
  BY <1>2 DEF Good, Fine, Typed1, AtMostOne, Onward, v
<1> QED BY <1>3, <1>4, <1>5, <1>6, <1>7, <1>8, <1>9, <1>10 DEF Good, Fine

\* What a host's success vouches for is right: no other step is on the same host, and a
\* proxy has been passed.
LEMMA SuccessfulAreRight ==
  ASSUME NEW cs, NEW a \in Windows, Good(a, cs), NEW s \in Sessions,
         NEW w \in a.worker[s], w.at <= Len(w.secrets),
         w.secrets[w.at].item[2] \notin {"ProxyPassword", "ProxyCommand"},
         w.secrets[w.at].value \in {Right, "none"},
         NEW c \in Successful(a.session[s].credentials, w.secrets[w.at].item[1])
  PROVE  c \in AskedCredentials /\ c.value = Right
<1> DEFINE needs == Needs(w.target)
<1>1. /\ w.target \in Profiles /\ w.secrets \in Seq(Secrets) /\ w.at \in Nat \ {0}
      /\ c \in AskedCredentials /\ c \in a.session[s].credentials
  <2>1. w \in Workers /\ a.session[s] \in SessionRecords
    BY WindowTypes
  <2> QED BY <2>1 DEF Workers, SessionRecords, Successful
<1>2. /\ Fitting(w.secrets, w.target, a.session[s].credentials)
      /\ Complete(w.secrets, w.target) /\ Passed(w.secrets, w.at)
  BY DEF Good, Fine, Made
<1>3. /\ DOMAIN w.secrets = DOMAIN needs /\ w.at \in DOMAIN needs
      /\ DOMAIN needs = 1..Len(needs) /\ Len(needs) \in Nat
      /\ \A i \in DOMAIN needs : w.secrets[i].item = needs[i]
      /\ ValidPlan(w.target)
  <2>1. DOMAIN needs = 1..Len(needs) /\ Len(needs) \in Nat
    BY <1>1, NeedsAre
  <2>2. DOMAIN w.secrets = 1..Len(w.secrets) /\ Len(w.secrets) = Len(needs) /\ ValidPlan(w.target)
    BY <1>1, <1>2 DEF Complete
  <2>3. \A i \in DOMAIN w.secrets : w.secrets[i].item = needs[i]
    BY <1>2 DEF Fitting
  <2> QED BY <1>1, <2>1, <2>2, <2>3
<1>4. PICK i \in DOMAIN needs : w.secrets[i].item = c.item /\ w.secrets[i].value = c.value
  BY <1>1, <1>2, <1>3 DEF Fitting
<1>5. c.value \in Values /\ c.item \in AskedItems
  BY <1>1 DEF AskedCredentials
<1>6. c.item[1] = needs[w.at][1] \/ c.item[2] = "ProxyPassword"
  BY <1>3 DEF Successful
<1>7. CASE c.item[2] = "ProxyPassword"
  <2>1. i = 1 /\ Proxy[w.target] # "None"
    <3>1. needs[i][2] = "ProxyPassword"
      BY <1>3, <1>4, <1>7
    <3>2. i = 1
      BY <3>1, <1>1, <1>4, NeedsApart
    <3>3. ASSUME Proxy[w.target] = "None" PROVE FALSE
      <4>1. i > Ahead(w.target)
        BY <3>2, <3>3 DEF Ahead
      <4>2. needs[i][2] = Auth[Hop(w.target, i - Ahead(w.target))]
        BY <4>1, <1>1, <1>4, NeedsAre
      <4>3. Hop(w.target, i - Ahead(w.target)) \in Profiles
        BY <4>1, <1>1, <1>4, NeedsAre
      <4> QED BY <3>1, <4>2, <4>3, AuthAssumption
    <3> QED BY <3>2, <3>3
  <2>2. w.at # 1
    BY <2>1, <1>1, <1>3, NeedsApart
  <2>3. i < w.at
    BY <2>1, <2>2, <1>1
  <2> QED BY <2>3, <1>1, <1>2, <1>3, <1>4, <1>7 DEF Passed
<1>8. CASE c.item[2] # "ProxyPassword"
  <2>1. /\ needs[i][1] = needs[w.at][1]
        /\ needs[i][2] \notin {"ProxyPassword", "ProxyCommand"}
        /\ needs[w.at][2] \notin {"ProxyPassword", "ProxyCommand"}
    BY <1>3, <1>4, <1>5, <1>6, <1>8 DEF AskedItems
  <2>2. i = w.at
    BY <2>1, <1>1, <1>3, <1>4, NeedsApart
  <2> QED BY <2>2, <1>1, <1>4, <1>5, ValuesAssumption
<1> QED BY <1>7, <1>8

LEMMA SessionIsAdded ==
  ASSUME NEW cs, NEW a \in Windows, Good(a, cs), NEW s \in Sessions \ a.used,
         NEW profile \in Profiles
  PROVE  /\ WithSession(a, s, profile) \in Windows
         /\ Good(WithSession(a, s, profile), cs)
         /\ WithSession(a, s, profile).worker = a.worker
         /\ WithSession(a, s, profile).used = a.used \cup {s}
         /\ WithSession(a, s, profile).open = a.open \cup {s}
<1> DEFINE b == WithSession(a, s, profile)
           R == NewSession(profile)
<1>1. R \in SessionRecords /\ R.profile = profile /\ R.credentials = {}
  BY DEF NewSession, SessionRecords, States
<1>2. [a.session EXCEPT ![s] = R] \in [Sessions -> SessionRecords]
  BY <1>1, WindowTypes
<1> HIDE DEF R
<1>3. b = [a EXCEPT !.open = @ \cup {s}, !.used = @ \cup {s}, !.session[s] = R]
  BY DEF WithSession, R
<1>4. /\ b \in Windows /\ b.open = a.open \cup {s} /\ b.used = a.used \cup {s}
      /\ b.panes = a.panes /\ b.worker = a.worker /\ b.session = [a.session EXCEPT ![s] = R]
      /\ b.pending = a.pending /\ b.lookup = a.lookup /\ b.prompt = a.prompt
      /\ b.approval = a.approval /\ b.approving = a.approving
      /\ b.approved = a.approved /\ b.editing = a.editing
  <2>1. a.open \cup {s} \in SUBSET Sessions /\ a.used \cup {s} \in SUBSET Sessions
    BY WindowTypes
  <2> HIDE DEF b
  <2> QED BY <1>2, <1>3, <2>1 DEF Windows
<1> HIDE DEF b
<1>5. /\ b.session[s] = R /\ \A r \in Sessions : r # s => b.session[r] = a.session[r]
      /\ s \notin a.open /\ a.worker[s] = {}
      /\ \A x \in a.pending \cup a.approval : x.session # s /\ x.session \in Sessions
  BY <1>4, WindowTypes DEF Good, Fine, Opened
<1>6. Typed1(b) /\ Opened(b)
  BY <1>4 DEF Good, Fine, Typed1, Opened
<1>7. Own(b)
  BY <1>4, <1>5 DEF Good, Fine, Own
<1>8. Apart(b) /\ Consented(b, cs)
  BY <1>4 DEF Good, Fine, Apart, Consented
<1>9. Made(b)
  <2>1. ASSUME NEW r \in Sessions, NEW w \in b.worker[r]
        PROVE  /\ Fitting(w.secrets, w.target, b.session[r].credentials)
               /\ Complete(w.secrets, w.target) /\ Passed(w.secrets, w.at)
    BY <1>4, <1>5 DEF Good, Fine, Made
  <2> QED BY <2>1, <1>4 DEF Good, Fine, Made
<1>10. Ended(b)
  BY <1>1, <1>4, <1>5 DEF Good, Fine, Ended
<1>11. Asks(b) /\ Waits(b)
  BY <1>4 DEF Good, Asks, Waits
<1> QED BY <1>4, <1>6, <1>7, <1>8, <1>9, <1>10, <1>11 DEF Good, Fine, b

\* What the user has approved stays approved.
LEMMA ConsentGrows ==
  ASSUME NEW a, NEW cs, NEW ds \in SUBSET (Profiles \X Texts), cs \subseteq ds, Good(a, cs)
  PROVE  Good(a, ds) /\ \A p \in Profiles : Given(p, cs) \subseteq Given(p, ds)
<1>1. \A p : Given(p, cs) \subseteq Given(p, ds)
  BY DEF Given
<1>2. Consented(a, ds)
  BY <1>1 DEF Good, Fine, Consented
<1> QED BY <1>1, <1>2 DEF Good, Fine

---------------------------------------------------------------------------
\* The steps of the user.

\* What every step keeps.
Leads(b, ds) == b \in Windows /\ Good(b, ds) /\ Onward(app, b)

LEMMA AppIsWindow == Good(app, consent) => app \in Windows
BY DEF Good, Fine, Typed1

LEMMA Asked ==
  ASSUME Good(app, consent), NEW a \in Windows, Good(a, consent), Fewer(app, a),
         NEW s \in Sessions, app.worker[s] = {}, Ask(a, s)
  PROVE  Leads(app', consent')
<1>1. app' = ConnectInSession(a, s) /\ consent' = consent /\ a.worker[s] = {}
  BY DEF Ask, InMemory
<1> DEFINE b == ConnectInSession(a, s)
<1>2. b \in Windows /\ Good(b, consent) /\ FewerBut(a, b, s)
  BY <1>1, SessionConnects
<1> HIDE DEF b
<1>3. FewerBut(app, b, s)
  BY <1>2 DEF Fewer, FewerBut
<1>4. Onward(app, b)
  BY <1>2, <1>3, AppIsWindow, FewerIsOnward
<1> QED BY <1>1, <1>2, <1>4 DEF Leads, b

LEMMA NewSessionConnects ==
  ASSUME Good(app, consent), NEW s \in Sessions, NEW profile \in Profiles,
         ConnectInNewSession(s, profile)
  PROVE  Leads(app', consent')
<1> DEFINE a == WithSession(app, s, profile)
<1>1. s \in Sessions \ app.used /\ Ask(a, s)
  BY DEF ConnectInNewSession
<1>2. a \in Windows /\ Good(a, consent) /\ a.worker = app.worker
  BY <1>1, AppIsWindow, SessionIsAdded
<1> HIDE DEF a
<1>3. Fewer(app, a) /\ app.worker[s] = {}
  BY <1>1, <1>2 DEF Fewer, Ask
<1> QED BY <1>1, <1>2, <1>3, Asked

LEMMA PaneSplits ==
  ASSUME Good(app, consent), NEW s \in Sessions, SplitActivePane(s)
  PROVE  Leads(app', consent')
<1> DEFINE b(r) == WithSession(app, s, app.session[r].profile)
           shown(r) == [b(r) EXCEPT !.panes = @ \cup {s}]
           c(r) == ActivateSession(shown(r), s)
<1>1. s \in Sessions \ app.used
  BY DEF SplitActivePane
<1>2. PICK r \in app.panes \cap app.open : Ask(c(r), s)
  BY DEF SplitActivePane
<1>3. r \in Sessions /\ app.session[r].profile \in Profiles
  BY <1>2, AppIsWindow, WindowTypes DEF SessionRecords
<1>4. /\ b(r) \in Windows /\ Good(b(r), consent) /\ b(r).worker = app.worker
      /\ s \in b(r).used
  BY <1>1, <1>3, AppIsWindow, SessionIsAdded
<1> HIDE DEF b
<1>5. /\ shown(r) \in Windows /\ shown(r).open = b(r).open /\ shown(r).used = b(r).used
      /\ shown(r).panes = b(r).panes \cup {s}
      /\ shown(r).worker = b(r).worker /\ shown(r).session = b(r).session
      /\ shown(r).pending = b(r).pending
      /\ shown(r).lookup = b(r).lookup /\ shown(r).prompt = b(r).prompt
      /\ shown(r).approval = b(r).approval /\ shown(r).approving = b(r).approving
      /\ shown(r).approved = b(r).approved /\ shown(r).editing = b(r).editing
  BY <1>4 DEF Windows
<1> HIDE DEF shown
<1>6. Weaker(b(r), shown(r))
  BY <1>4, <1>5 DEF Good, Fine, Opened, Apart, Ended, Weaker
<1>7. Fine(shown(r), consent) /\ Waits(shown(r)) /\ Asks(shown(r))
  BY <1>4, <1>5, <1>6, WeakerKeeps DEF Good, Asks
<1>8. c(r) \in Windows /\ Good(c(r), consent) /\ Weaker(shown(r), c(r))
  BY <1>5, <1>7, SessionIsActivated DEF Good
<1> HIDE DEF c
<1>9. Fewer(app, c(r))
  BY <1>4, <1>5, <1>8 DEF Weaker, Fewer
<1>10. app.worker[s] = {}
  BY <1>1 DEF Good, Fine, Opened
<1> QED BY <1>2, <1>8, <1>9, <1>10, Asked

LEMMA Reconnects ==
  ASSUME Good(app, consent), NEW s \in Sessions, Reconnect(s)
  PROVE  Leads(app', consent')
<1> DEFINE a == ActivateInWindow(app, s)
<1>1. Ask(a, s)
  BY DEF Reconnect
<1>2. a \in Windows /\ Weaker(app, a) /\ Good(a, consent)
  BY AppIsWindow, SessionIsShown DEF Good
<1>3. Fewer(app, a)
  BY <1>2 DEF Fewer, Weaker
<1>4. app.worker[s] = {}
  <2> SUFFICES ASSUME app.worker[s] # {} PROVE FALSE
    OBVIOUS
  <2>1. \A x \in app.prompt : x.session # s
    BY DEF Good, Fine, Asks, Apart
  <2>2. a.worker[s] = app.worker[s]
    BY <2>1, AppIsWindow, SessionIsShown DEF Good
  <2> QED BY <1>1, <2>2 DEF Ask
<1> HIDE DEF a
<1> QED BY <1>1, <1>2, <1>3, <1>4, Asked

LEMMA WeakerLeads ==
  ASSUME NEW cs, NEW a \in Windows, Good(a, cs), NEW b \in Windows, Weaker(a, b), Asks(b)
  PROVE  Good(b, cs) /\ Fewer(a, b) /\ Onward(a, b)
<1>1. Fine(b, cs) /\ Waits(b)
  BY WeakerKeeps DEF Good
<1>2. Fewer(a, b)
  BY DEF Weaker, Fewer
<1> QED BY <1>1, <1>2, FewerIsOnward DEF Good

LEMMA SecretIsSubmitted ==
  ASSUME Good(app, consent), NEW value \in Values, NEW remember \in BOOLEAN,
         SubmitSecret(value, remember)
  PROVE  Leads(app', consent')
<1>0. app \in Windows /\ Fine(app, consent) /\ Waits(app) /\ consent' = consent
  BY AppIsWindow DEF Good, SubmitSecret, Quietly, InMemory
<1>1. PICK x \in app.prompt :
        app' = IF Fits(app, x.session, x.item)
               THEN AcceptSecret([app EXCEPT !.prompt = {}], x.item, value,
                                 {Credential(x.item, "Prompt", remember, value)})
               ELSE DismissPrompt(app)
  BY DEF SubmitSecret, Quietly, InMemory
<1>2. CASE ~Fits(app, x.session, x.item)
  <2>1. app' = DismissPrompt(app)
    BY <1>1, <1>2
  <2> DEFINE b == DismissPrompt(app)
  <2>2. b \in Windows /\ Weaker(app, b) /\ Asks(b)
    BY <1>0, PromptIsDismissed DEF Asks
  <2> QED BY <1>0, <2>1, <2>2, WeakerLeads DEF Leads
<1>3. CASE Fits(app, x.session, x.item)
  <2> DEFINE a == [app EXCEPT !.prompt = {}]
             C == {Credential(x.item, "Prompt", remember, value)}
  <2>1. PICK p \in app.pending : p.session = x.session /\ NextNeed(p) = x.item
    BY <1>3 DEF Fits
  <2> DEFINE b == AcceptSecret(a, NextNeed(p), value, C)
  <2>2. x.item \in AskedItems
    BY <1>0, WindowTypes DEF Prompted
  <2>3. /\ C \in SUBSET AskedCredentials
        /\ \A c \in C : c.item = NextNeed(p) /\ c.value = value
    BY <2>1, <2>2 DEF Credential, AskedCredentials
  <2>4. app' = b
    BY <1>1, <1>3, <2>1
  <2> HIDE DEF C
  <2>5. /\ a \in Windows /\ a.open = app.open /\ a.used = app.used /\ a.panes = app.panes
        /\ a.worker = app.worker /\ a.session = app.session /\ a.pending = app.pending
        /\ a.lookup = app.lookup /\ a.prompt = {} /\ a.approval = app.approval
        /\ a.approving = app.approving /\ a.approved = app.approved /\ a.editing = app.editing
    BY <1>0, WithoutPrompt
  <2> HIDE DEF a
  <2>6. Weaker(app, a)
    BY <1>0, <2>5 DEF Fine, Opened, Apart, Ended, Weaker
  <2>7. Fine(a, consent) /\ Waits(a)
    BY <1>0, <2>5, <2>6, WeakerKeeps
  <2>8. \A l \in a.lookup : l.session # p.session
    BY <1>0, <2>1, <2>5 DEF Fine, Apart
  <2>9. value \in Texts /\ NextNeed(p)[2] # "ProxyCommand"
    BY <2>1, <2>2 DEF Texts, AskedItems
  <2>10. b \in Windows /\ Good(b, consent) /\ FewerBut(a, b, p.session)
    BY <2>3, <2>5, <2>7, <2>8, <2>9, SecretIsAccepted
  <2> HIDE DEF b
  <2>11. FewerBut(app, b, p.session) /\ app.worker[p.session] = {} /\ p.session \in Sessions
    BY <1>0, <2>5, <2>10, WindowTypes DEF FewerBut, Fine, Apart
  <2> QED BY <1>0, <2>4, <2>10, <2>11, FewerIsOnward DEF Leads
<1> QED BY <1>2, <1>3

LEMMA CredentialIsCancelled ==
  ASSUME Good(app, consent), CancelCredential
  PROVE  Leads(app', consent')
<1> DEFINE a == [app EXCEPT !.pending = {}]
           b == DismissPrompt(a)
<1>1. app' = b /\ consent' = consent
  BY DEF CancelCredential, Quietly, InMemory
<1>2. a \in Windows /\ Weaker(app, a) /\ Fine(a, consent)
  BY AppIsWindow, WithPending, NothingPending DEF Good
<1> HIDE DEF a
<1>3. b \in Windows /\ Weaker(a, b) /\ Asks(b)
  BY <1>2, PromptIsDismissed DEF Asks
<1> HIDE DEF b
<1>4. Weaker(app, b)
  BY <1>2, <1>3 DEF Weaker
<1> QED BY <1>1, <1>3, <1>4, AppIsWindow, WeakerLeads DEF Leads

LEMMA PanelIsShown ==
  ASSUME Good(app, consent), ShowPanel
  PROVE  Leads(app', consent')
<1> DEFINE b == DismissPrompt(app)
<1>1. app' = b /\ consent' = consent
  BY DEF ShowPanel, Quietly, InMemory
<1>2. b \in Windows /\ Weaker(app, b) /\ Asks(b)
  BY AppIsWindow, PromptIsDismissed DEF Asks, Good
<1> QED BY <1>1, <1>2, AppIsWindow, WeakerLeads DEF Leads

LEMMA NothingApproved ==
  ASSUME NEW cs, NEW a \in Windows, Good(a, cs), NEW s
  PROVE  LET b == [a EXCEPT !.approval = {}, !.approving = @ \ {s}]
         IN  b \in Windows /\ Weaker(a, b) /\ Asks(b)
<1> DEFINE b == [a EXCEPT !.approval = {}, !.approving = @ \ {s}]
<1>1. /\ b \in Windows /\ b.open = a.open /\ b.used = a.used /\ b.panes = a.panes
      /\ b.worker = a.worker /\ b.session = a.session /\ b.pending = a.pending
      /\ b.lookup = a.lookup /\ b.prompt = a.prompt /\ b.approval = {}
      /\ b.approved = a.approved /\ b.editing = a.editing
  BY DEF Windows
<1> HIDE DEF b
<1> QED BY <1>1 DEF Good, Fine, Opened, Apart, Ended, Weaker, Asks, b

LEMMA ApprovalIsCancelled ==
  ASSUME Good(app, consent), CancelApproval
  PROVE  Leads(app', consent')
<1>1. PICK p \in app.approval : app' = [app EXCEPT !.approval = {}, !.approving = @ \ {p.session}]
  BY DEF CancelApproval, Quietly, InMemory
<1> DEFINE b == [app EXCEPT !.approval = {}, !.approving = @ \ {p.session}]
<1>2. b \in Windows /\ Weaker(app, b) /\ Asks(b)
  BY AppIsWindow, NothingApproved
<1>3. app' = b /\ consent' = consent
  BY <1>1 DEF CancelApproval, Quietly, InMemory
<1> HIDE DEF b
<1> QED BY <1>2, <1>3, AppIsWindow, WeakerLeads DEF Leads

\* A command is run once it is approved, and saved as approved.
LEMMA CommandIsApproved ==
  ASSUME Good(app, consent), NEW saved \in BOOLEAN, ApproveProxyCommand(saved)
  PROVE  /\ Leads(app', consent') /\ consent \subseteq consent'
         /\ \/ disk' = disk
            \/ disk' \in [Profiles -> Texts] /\ \A p \in Profiles : disk'[p] \in Given(p, consent')
<1> DEFINE command(p) == p.secrets[1].value
           b(p) == [app EXCEPT !.approval = {}, !.approving = @ \ {p.session}]
           c(p) == [b(p) EXCEPT !.approved[p.target] = command(p)]
           q(p) == [p EXCEPT !.digest = command(p)]
           ds(p) == consent \cup {<<p.target, command(p)>>}
           d(p) == Start(c(p), q(p))
<1>1. PICK p \in app.approval :
        /\ consent' = ds(p)
        /\ disk' = IF saved THEN c(p).approved ELSE disk
        /\ app' = IF saved THEN d(p) ELSE b(p)
  BY DEF ApproveProxyCommand
<1>2. /\ p \in Prepared /\ p.session \in Sessions /\ p.target \in Profiles
      /\ p.secrets \in Seq(Secrets) /\ p.session \in app.open
      /\ Fitting(p.secrets, p.target, p.credentials) /\ Complete(p.secrets, p.target)
      /\ p.target = app.session[p.session].profile /\ app.worker[p.session] = {}
      /\ \A x \in app.pending : x.session # p.session
      /\ consent \subseteq Profiles \X Texts
  <2>1. p \in Prepared /\ p.session \in Sessions /\ p.target \in Profiles
    BY AppIsWindow, WindowTypes
  <2> QED BY <2>1 DEF Good, Fine, Opened, Made, Own, Apart, Consented, Prepared
<1>3. command(p) \in Texts
  <2>1. 1 \in DOMAIN p.secrets
    BY <1>2, NeedsAre DEF Complete
  <2>2. p.secrets[1] \in Secrets
    BY <2>1, <1>2
  <2> QED BY <2>2 DEF Secrets, Texts
<1> HIDE DEF command
<1>4. ds(p) \in SUBSET (Profiles \X Texts) /\ consent \subseteq ds(p)
  BY <1>2, <1>3
<1>5. Good(app, ds(p)) /\ \A x \in Profiles : Given(x, consent) \subseteq Given(x, ds(p))
  <2> HIDE DEF ds
  <2> QED BY <1>4, ConsentGrows
<1>6. command(p) \in Given(p.target, ds(p))
  <2>1. <<p.target, command(p)>> \in ds(p)
    OBVIOUS
  <2> HIDE DEF ds
  <2>2. LET t == <<p.target, command(p)>> IN t \in ds(p) /\ t[1] = p.target /\ t[2] = command(p)
    BY <2>1
  <2> QED BY <2>2 DEF Given
<1> HIDE DEF ds
<1>7. b(p) \in Windows /\ Weaker(app, b(p)) /\ Asks(b(p)) /\ b(p).approval = {}
  <2>1. b(p).approval = {}
    BY AppIsWindow DEF Windows
  <2> QED BY <2>1, AppIsWindow, NothingApproved
<1> HIDE DEF b
<1>8. Good(b(p), ds(p)) /\ Onward(app, b(p)) /\ Fewer(app, b(p))
  BY <1>5, <1>7, AppIsWindow, WeakerLeads
<1>9. /\ c(p) \in Windows /\ c(p).open = b(p).open /\ c(p).used = b(p).used
      /\ c(p).panes = b(p).panes
      /\ c(p).worker = b(p).worker /\ c(p).session = b(p).session /\ c(p).pending = b(p).pending
      /\ c(p).lookup = b(p).lookup /\ c(p).prompt = b(p).prompt /\ c(p).approval = {}
      /\ c(p).approving = b(p).approving /\ c(p).editing = b(p).editing
      /\ c(p).approved = [b(p).approved EXCEPT ![p.target] = command(p)]
  BY <1>2, <1>3, <1>7 DEF Windows
<1> HIDE DEF c
<1>10. /\ c(p).approved \in [Profiles -> Texts]
       /\ \A x \in Profiles : c(p).approved[x] \in Given(x, ds(p))
  <2>1. b(p).approved \in [Profiles -> Texts] /\ c(p).approved \in [Profiles -> Texts]
    BY <1>7, <1>9 DEF Windows
  <2>2. \A x \in Profiles : b(p).approved[x] \in Given(x, ds(p))
    BY <1>8 DEF Good, Fine, Consented
  <2> QED BY <2>1, <2>2, <1>6, <1>9
<1>11. Good(c(p), ds(p)) /\ Fewer(app, c(p))
  <2>1. Typed1(c(p)) /\ Opened(c(p)) /\ Own(c(p)) /\ Apart(c(p)) /\ Made(c(p)) /\ Ended(c(p))
    BY <1>8, <1>9 DEF Good, Fine, Typed1, Opened, Own, Apart, Made, Ended, AtMostOne
  <2>2. Consented(c(p), ds(p))
    BY <1>8, <1>9, <1>10 DEF Good, Fine, Consented
  <2>3. Asks(c(p)) /\ Waits(c(p)) /\ Fewer(app, c(p))
    BY <1>8, <1>9 DEF Good, Asks, Waits, Fewer
  <2> QED BY <2>1, <2>2, <2>3 DEF Good, Fine
<1>12. /\ q(p) \in Prepared /\ q(p).session = p.session /\ q(p).target = p.target
       /\ q(p).secrets = p.secrets /\ q(p).credentials = p.credentials
       /\ q(p).digest = command(p)
  BY <1>2, <1>3 DEF Prepared
<1> HIDE DEF q
<1>13. Preparable(c(p), q(p), ds(p))
  <2>1. p.session \in c(p).open => p.target = c(p).session[p.session].profile
    BY <1>2, <1>7, <1>9 DEF Weaker
  <2>2. c(p).worker[p.session] = {}
    BY <1>2, <1>11 DEF Fewer
  <2> QED BY <2>1, <2>2, <1>2, <1>6, <1>9, <1>12 DEF Preparable
<1>14. <<q(p).target, q(p).secrets[1].value>> \in ds(p)
  BY <1>12 DEF ds, command
<1>15. \A x \in c(p).pending : x.session # q(p).session
  BY <1>2, <1>7, <1>9, <1>12 DEF Weaker
<1>16. d(p) \in Windows /\ Good(d(p), ds(p)) /\ FewerBut(c(p), d(p), p.session)
  BY <1>2, <1>9, <1>11, <1>12, <1>13, <1>14, <1>15, ConnectionStarts DEF Good
<1> HIDE DEF d
<1>17. FewerBut(app, d(p), p.session)
  BY <1>11, <1>16 DEF Fewer, FewerBut
<1>18. Onward(app, d(p))
  BY <1>2, <1>16, <1>17, AppIsWindow, FewerIsOnward
<1>19. Leads(d(p), ds(p)) /\ Leads(b(p), ds(p))
  BY <1>7, <1>8, <1>16, <1>18 DEF Leads
<1> QED BY <1>1, <1>4, <1>10, <1>19

LEMMA UserDisconnects ==
  ASSUME Good(app, consent), NEW s \in Sessions, NEW sent \in BOOLEAN, Disconnect(s, sent)
  PROVE  Leads(app', consent')
<1> DEFINE b == Disconnecting(app, s, sent)
<1>1. app' = b /\ consent' = consent
  BY DEF Disconnect, Quietly, InMemory
<1>2. b \in Windows /\ Good(b, consent) /\ Fewer(app, b)
  BY AppIsWindow, EndIsAsked
<1> HIDE DEF b
<1> QED BY <1>1, <1>2, AppIsWindow, FewerIsOnward DEF Leads

LEMMA TabCloses ==
  ASSUME Good(app, consent), NEW s \in Sessions, NEW sent \in BOOLEAN, CloseTab(s, sent)
  PROVE  Leads(app', consent')
<1> DEFINE b == RemovePane(app, s)
           R == [app.session[s] EXCEPT !.closing = TRUE]
           closing == [b EXCEPT !.session[s] = R]
           c == Disconnecting(closing, s, sent)
           d == RemoveSession(b, s)
<1>0. app \in Windows /\ app.session[s] \in SessionRecords
  BY AppIsWindow, WindowTypes
<1>1. /\ b \in Windows /\ b.open = app.open /\ b.used = app.used /\ b.panes \subseteq app.panes
      /\ b.worker = app.worker /\ b.session = app.session
      /\ b.pending = app.pending /\ b.lookup = app.lookup /\ b.prompt = app.prompt
      /\ b.approval = app.approval /\ b.approving = app.approving
      /\ b.approved = app.approved /\ b.editing = app.editing
  BY <1>0 DEF RemovePane, Windows
<1>2. /\ R \in SessionRecords /\ R.profile = app.session[s].profile
      /\ R.credentials = app.session[s].credentials
  BY <1>0 DEF SessionRecords
<1>3. app' \in {c, d} /\ consent' = consent
  <2>1. [b EXCEPT !.session[s].closing = TRUE] = closing
    BY <1>0, <1>1 DEF Windows
  <2> HIDE DEF b, closing
  <2> QED BY <2>1 DEF CloseTab, Quietly, InMemory, b
<1> HIDE DEF b, R
<1>4. Weaker(app, b) /\ Asks(b)
  BY <1>1 DEF Good, Fine, Opened, Apart, Ended, Weaker, Asks
<1>5. Good(b, consent) /\ Fewer(app, b)
  BY <1>0, <1>1, <1>4, WeakerLeads
<1>6. d \in Windows /\ Good(d, consent) /\ Fewer(b, d)
  BY <1>1, <1>5, SessionIsRemoved DEF Good, Weaker, Fewer
<1> HIDE DEF d
<1>7. /\ closing \in Windows /\ closing.open = b.open /\ closing.used = b.used
      /\ closing.panes = b.panes /\ closing.worker = b.worker
      /\ closing.session = [b.session EXCEPT ![s] = R]
      /\ closing.pending = b.pending /\ closing.lookup = b.lookup /\ closing.prompt = b.prompt
      /\ closing.approval = b.approval /\ closing.approving = b.approving
      /\ closing.approved = b.approved /\ closing.editing = b.editing
  <2>1. [b.session EXCEPT ![s] = R] \in [Sessions -> SessionRecords]
    BY <1>1, <1>2, WindowTypes
  <2> QED BY <1>1, <2>1 DEF Windows
<1> HIDE DEF closing
<1>8. /\ closing.session[s] = R
      /\ \A r \in Sessions \ {s} : closing.session[r] = b.session[r]
      /\ R.credentials # {} => closing.worker[s] # {}
  BY <1>1, <1>2, <1>5, <1>7, WindowTypes DEF Good, Fine, Ended
<1>9. Good(closing, consent) /\ Fewer(b, closing)
  <2>1. /\ closing.worker[s] \subseteq b.worker[s] /\ closing.panes \subseteq b.panes
        /\ closing.session[s].profile = b.session[s].profile
        /\ closing.session[s].credentials \subseteq b.session[s].credentials
        /\ closing.session[s].credentials # {} => closing.worker[s] # {}
        /\ \A r \in Sessions \ {s} :
             closing.worker[r] = b.worker[r] /\ closing.session[r] = b.session[r]
        /\ closing \in Windows /\ closing.open = b.open /\ closing.used = b.used
        /\ closing.pending = b.pending /\ closing.lookup = b.lookup /\ closing.prompt = b.prompt
        /\ closing.approval = b.approval /\ closing.approving = b.approving
        /\ closing.approved = b.approved /\ closing.editing = b.editing
    BY <1>1, <1>2, <1>7, <1>8
  <2> QED BY <1>1, <1>5, <2>1, SessionChanges
<1>10. c \in Windows /\ Good(c, consent) /\ Fewer(closing, c)
  BY <1>7, <1>9, EndIsAsked
<1> HIDE DEF c
<1>11. Fewer(app, c) /\ Fewer(app, d)
  BY <1>5, <1>6, <1>9, <1>10 DEF Fewer
<1> QED BY <1>0, <1>3, <1>6, <1>10, <1>11, FewerIsOnward DEF Leads

LEMMA WithEdits ==
  ASSUME NEW cs, NEW a \in Windows, Good(a, cs), NEW E \in SUBSET Edits, AtMostOne(E),
         \A e \in E : \A p \in Profiles : e.approved[p] \in Given(p, cs),
         NEW approved \in [Profiles -> Texts], \A p \in Profiles : approved[p] \in Given(p, cs)
  PROVE  LET b == [a EXCEPT !.editing = E, !.approved = approved]
         IN  b \in Windows /\ Good(b, cs) /\ Fewer(a, b)
<1> DEFINE b == [a EXCEPT !.editing = E, !.approved = approved]
<1>1. /\ b \in Windows /\ b.open = a.open /\ b.used = a.used /\ b.panes = a.panes
      /\ b.worker = a.worker /\ b.session = a.session /\ b.pending = a.pending
      /\ b.lookup = a.lookup /\ b.prompt = a.prompt /\ b.approval = a.approval
      /\ b.approving = a.approving /\ b.approved = approved /\ b.editing = E
  BY DEF Windows
<1> HIDE DEF b
<1>2. Typed1(b) /\ Opened(b) /\ Own(b) /\ Apart(b) /\ Made(b) /\ Ended(b)
  BY <1>1 DEF Good, Fine, Typed1, Opened, Own, Apart, Made, Ended, AtMostOne
<1>3. Consented(b, cs) /\ Asks(b) /\ Waits(b) /\ Fewer(a, b)
  BY <1>1 DEF Good, Fine, Consented, Asks, Waits, Fewer
<1> QED BY <1>1, <1>2, <1>3 DEF Good, Fine, b

LEMMA ApprovedAre ==
  ASSUME NEW cs, NEW a \in Windows, Good(a, cs)
  PROVE  /\ a.approved \in [Profiles -> Texts] /\ \A p \in Profiles : a.approved[p] \in Given(p, cs)
         /\ a.editing \in SUBSET Edits /\ AtMostOne(a.editing)
         /\ \A e \in a.editing : \A p \in Profiles : e.approved[p] \in Given(p, cs)
BY DEF Good, Fine, Typed1, Consented, Windows

LEMMA EditBegins ==
  ASSUME Good(app, consent), NEW profile \in Profiles, NEW command \in Values,
         BeginEdit(profile, command)
  PROVE  Leads(app', consent')
<1> DEFINE approved == [app.approved EXCEPT ![profile] = "none"]
           e == [profile |-> profile, command |-> command, approved |-> approved]
           b == [app EXCEPT !.editing = {e}, !.approved = app.approved]
<1>0. app \in Windows /\ consent' = consent
  BY AppIsWindow DEF BeginEdit
<1>1. app' = b
  BY <1>0 DEF BeginEdit, Windows
<1>2. approved \in [Profiles -> Texts] /\ \A p \in Profiles : approved[p] \in Given(p, consent)
  BY <1>0, ApprovedAre DEF Texts, Given
<1> HIDE DEF approved
<1>3. e \in Edits /\ e.approved = approved
  BY <1>2 DEF Edits
<1> HIDE DEF e
<1>4. {e} \in SUBSET Edits /\ AtMostOne({e})
  BY <1>3 DEF AtMostOne
<1>5. b \in Windows /\ Good(b, consent) /\ Fewer(app, b)
  BY <1>0, <1>2, <1>3, <1>4, ApprovedAre, WithEdits
<1> HIDE DEF b
<1> QED BY <1>0, <1>1, <1>5, FewerIsOnward DEF Leads

---------------------------------------------------------------------------
\* The steps of the stores.

LEMMA EditEnds ==
  ASSUME Good(app, consent), keychain \in [Items -> Texts], NEW done \in BOOLEAN, EndEdit(done)
  PROVE  /\ Leads(app', consent') /\ consent' = consent
         /\ keychain' \in [Items -> Texts]
         /\ \/ disk' = disk
            \/ disk' \in [Profiles -> Texts] /\ \A p \in Profiles : disk'[p] \in Given(p, consent)
         /\ \A i \in Items : \/ keychain'[i] = keychain[i]
                             \/ /\ i[2] = "ProxyCommand"
                                /\ \E e \in app.editing : e.command = keychain'[i]
<1>0. app \in Windows /\ consent' = consent
  BY AppIsWindow DEF EndEdit
<1>1. PICK e \in app.editing :
        /\ app' = [app EXCEPT !.editing = {}, !.approved = IF done THEN e.approved ELSE @]
        /\ disk' = IF done THEN e.approved ELSE disk
        /\ keychain' = IF done THEN [keychain EXCEPT ![<<e.profile, "ProxyCommand">>] = e.command]
                       ELSE keychain
  BY DEF EndEdit
<1> DEFINE approved == IF done THEN e.approved ELSE app.approved
           b == [app EXCEPT !.editing = {}, !.approved = approved]
<1>2. /\ e.approved \in [Profiles -> Texts] /\ e.profile \in Profiles /\ e.command \in Values
      /\ \A p \in Profiles : e.approved[p] \in Given(p, consent)
  BY <1>0, ApprovedAre DEF Edits
<1>3. approved \in [Profiles -> Texts] /\ \A p \in Profiles : approved[p] \in Given(p, consent)
  BY <1>0, <1>2, ApprovedAre
<1>4. app' = b
  BY <1>1
<1> HIDE DEF approved
<1>5. {} \in SUBSET Edits /\ AtMostOne({})
  BY DEF AtMostOne
<1>6. b \in Windows /\ Good(b, consent) /\ Fewer(app, b)
  BY <1>0, <1>3, <1>5, WithEdits
<1> HIDE DEF b
<1>7. Leads(app', consent')
  BY <1>0, <1>4, <1>6, FewerIsOnward DEF Leads
<1>8. e.command \in Texts
  BY <1>2 DEF Texts
<1>9. /\ keychain' \in [Items -> Texts]
      /\ \A i \in Items : keychain'[i] # keychain[i] =>
           i = <<e.profile, "ProxyCommand">> /\ keychain'[i] = e.command
  BY <1>1, <1>8
<1>10. ASSUME NEW i \in Items, keychain'[i] # keychain[i]
       PROVE  i[2] = "ProxyCommand" /\ \E x \in app.editing : x.command = keychain'[i]
  BY <1>9, <1>10
<1>11. \/ disk' = disk
       \/ disk' \in [Profiles -> Texts] /\ \A p \in Profiles : disk'[p] \in Given(p, consent)
  BY <1>1, <1>2
<1> QED BY <1>0, <1>7, <1>9, <1>10, <1>11

LEMMA WithoutLookup ==
  ASSUME NEW cs, NEW a \in Windows, Good(a, cs)
  PROVE  LET b == [a EXCEPT !.lookup = {}]
         IN  /\ b \in Windows /\ Good(b, cs) /\ Fewer(a, b) /\ b.lookup = {}
             /\ b.pending = a.pending /\ b.prompt = a.prompt /\ b.worker = a.worker
             /\ b.approval = a.approval
<1> DEFINE b == [a EXCEPT !.lookup = {}]
<1>1. /\ b \in Windows /\ b.open = a.open /\ b.used = a.used /\ b.panes = a.panes
      /\ b.worker = a.worker /\ b.session = a.session /\ b.pending = a.pending
      /\ b.lookup = {} /\ b.prompt = a.prompt /\ b.approval = a.approval
      /\ b.approving = a.approving /\ b.approved = a.approved /\ b.editing = a.editing
  BY DEF Windows
<1> HIDE DEF b
<1>2. Weaker(a, b) /\ Asks(b)
  BY <1>1 DEF Good, Fine, Opened, Apart, Ended, Weaker, Asks
<1>3. Good(b, cs) /\ Fewer(a, b)
  BY <1>1, <1>2, WeakerLeads
<1> QED BY <1>1, <1>3 DEF b

LEMMA LookupIsAnswered ==
  ASSUME Good(app, consent), keychain \in [Items -> Texts], NEW error \in BOOLEAN,
         LookupAnswers(error)
  PROVE  Leads(app', consent')
<1> DEFINE a == [app EXCEPT !.lookup = {}]
           C(l, value) == IF l.item[2] = "ProxyCommand" THEN {}
                          ELSE {Credential(l.item, "Keychain", FALSE, value)}
<1>0. app \in Windows /\ consent' = consent
  BY AppIsWindow DEF LookupAnswers, Quietly, InMemory
<1>1. PICK l \in app.lookup :
        /\ l.purpose = "Lookup"
        /\ app' = IF ~Fits(a, l.session, l.item) THEN a
                  ELSE IF error \/ keychain[l.item] = "none"
                       THEN MissingSecret(a, l.session, l.item, error)
                  ELSE AcceptSecret(a, l.item, keychain[l.item], C(l, keychain[l.item]))
  BY DEF LookupAnswers, Quietly, InMemory
<1>2. l.item \in Items /\ l.session \in Sessions
  BY <1>0, WindowTypes DEF Lookups
<1>3. /\ a \in Windows /\ Good(a, consent) /\ Fewer(app, a) /\ a.lookup = {}
      /\ a.pending = app.pending /\ a.prompt = app.prompt /\ a.worker = app.worker
  BY <1>0, WithoutLookup
<1> HIDE DEF a
<1>4. CASE ~Fits(a, l.session, l.item)
  BY <1>0, <1>1, <1>3, <1>4, FewerIsOnward DEF Leads
<1>5. CASE Fits(a, l.session, l.item)
  <2>1. PICK p \in a.pending : p.session = l.session /\ NextNeed(p) = l.item
    BY <1>5 DEF Fits
  <2>2. a.prompt = {} /\ app.worker[p.session] = {} /\ p.session \in Sessions
    BY <1>2, <1>3, <2>1 DEF Good, Fine, Apart
  <2>3. Fine(a, consent) /\ Waits(a) /\ NextNeed(p) \in Items
    BY <1>2, <1>3, <2>1 DEF Good
  <2> DEFINE value == keychain[NextNeed(p)]
             missing == MissingSecret(a, p.session, NextNeed(p), error)
             accepted == AcceptSecret(a, NextNeed(p), value, C(l, value))
  <2>4. missing \in Windows /\ Good(missing, consent) /\ FewerBut(a, missing, p.session)
    BY <1>3, <2>2, <2>3, SecretIsMissing
  <2>5. ASSUME value # "none"
        PROVE  accepted \in Windows /\ Good(accepted, consent) /\ FewerBut(a, accepted, p.session)
    <3>1. value \in Texts /\ value \in Values
      BY <2>3, <2>5 DEF Texts
    <3> HIDE DEF value
    <3>2. C(l, value) \in SUBSET AskedCredentials
      BY <3>1, <2>1, <2>3 DEF Credential, AskedCredentials, AskedItems, Items, Kinds
    <3>3. \A c \in C(l, value) : c.item = NextNeed(p) /\ c.value = value
      BY <2>1 DEF Credential
    <3> HIDE DEF C
    <3> QED BY <1>3, <2>2, <2>3, <2>5, <3>1, <3>2, <3>3, SecretIsAccepted
  <2>6. app' \in {missing, accepted} /\ (app' # missing => value # "none" /\ app' = accepted)
    BY <1>1, <1>5, <2>1
  <2> HIDE DEF value, missing, accepted
  <2>7. app' \in Windows /\ Good(app', consent) /\ FewerBut(a, app', p.session)
    BY <2>4, <2>5, <2>6
  <2>8. FewerBut(app, app', p.session)
    BY <1>3, <2>7 DEF FewerBut
  <2> QED BY <1>0, <2>2, <2>7, <2>8, FewerIsOnward DEF Leads
<1> QED BY <1>4, <1>5

LEMMA DeletionIsAnswered ==
  ASSUME Good(app, consent), DeleteAnswers
  PROVE  Leads(app', consent')
<1> DEFINE a == [app EXCEPT !.lookup = {}]
<1>0. app \in Windows /\ consent' = consent
  BY AppIsWindow DEF DeleteAnswers, InMemory
<1>1. PICK l \in app.lookup : l.purpose = "Delete" /\ app' = RetryWithPrompt(a, l.session, l.item)
  BY DEF DeleteAnswers, InMemory
<1>2. /\ l.item \in AskedItems /\ l.session \in Sessions /\ app.worker[l.session] = {}
      /\ \A x \in app.approval : x.session # l.session
  BY <1>0, <1>1, WindowTypes DEF Good, Fine, Typed1, Apart
<1>3. /\ a \in Windows /\ Good(a, consent) /\ a.lookup = {}
      /\ a.worker = app.worker /\ a.approval = app.approval
  BY <1>0, WithoutLookup
<1> HIDE DEF a
<1> DEFINE b == RetryWithPrompt(a, l.session, l.item)
<1>4. b \in Windows /\ Good(b, consent) /\ FewerBut(a, b, l.session)
  BY <1>2, <1>3, RetryAsks
<1> HIDE DEF b
<1>5. FewerBut(app, b, l.session)
  BY <1>3, <1>4 DEF FewerBut
<1> QED BY <1>0, <1>1, <1>2, <1>4, <1>5, FewerIsOnward DEF Leads, b

\* The stores themselves: what they still have to write gets less.
LEMMA Written ==
  ASSUME NEW cs, NEW a \in Windows, Good(a, cs), NEW D \in SUBSET Items,
         NEW V \in SUBSET (AskedItems \X {Right})
  PROVE  LET b == [a EXCEPT !.deleting = D, !.saving = V]
         IN  b \in Windows /\ Good(b, cs) /\ Fewer(a, b)
<1> DEFINE b == [a EXCEPT !.deleting = D, !.saving = V]
<1>1. /\ b \in Windows /\ b.open = a.open /\ b.used = a.used /\ b.panes = a.panes
      /\ b.worker = a.worker /\ b.session = a.session /\ b.pending = a.pending
      /\ b.lookup = a.lookup /\ b.prompt = a.prompt /\ b.approval = a.approval
      /\ b.approving = a.approving /\ b.approved = a.approved /\ b.editing = a.editing
  BY DEF Windows
<1> HIDE DEF b
<1>2. Weaker(a, b) /\ Asks(b)
  BY <1>1 DEF Good, Fine, Opened, Apart, Ended, Weaker, Asks
<1>3. Good(b, cs) /\ Fewer(a, b)
  BY <1>1, <1>2, WeakerLeads
<1> QED BY <1>1, <1>3 DEF b

LEMMA KeychainIsCleared ==
  ASSUME Good(app, consent), keychain \in [Items -> Texts], NEW item \in Items,
         NEW done \in BOOLEAN, KeychainDeletes(item, done)
  PROVE  /\ Leads(app', consent') /\ keychain' \in [Items -> Texts]
         /\ \A i \in Items : keychain'[i] \in {keychain[i], "none"}
<1> DEFINE D == app.deleting \ {item}
           b == [app EXCEPT !.deleting = D, !.saving = app.saving]
<1>0. app \in Windows /\ consent' = consent
  BY AppIsWindow DEF KeychainDeletes
<1>1. app' = b
  BY <1>0 DEF KeychainDeletes, Windows
<1>2. D \in SUBSET Items /\ app.saving \in SUBSET (AskedItems \X {Right})
  BY <1>0 DEF Windows
<1>3. b \in Windows /\ Good(b, consent) /\ Fewer(app, b)
  BY <1>0, <1>2, Written
<1> HIDE DEF b
<1>4. Leads(app', consent')
  BY <1>0, <1>1, <1>3, FewerIsOnward DEF Leads
<1>5. keychain' \in [Items -> Texts] /\ \A i \in Items : keychain'[i] \in {keychain[i], "none"}
  BY DEF KeychainDeletes, Texts
<1> QED BY <1>4, <1>5

LEMMA KeychainIsSaved ==
  ASSUME Good(app, consent), keychain \in [Items -> Texts], NEW x \in Items \X Values,
         NEW done \in BOOLEAN, KeychainSaves(x, done)
  PROVE  /\ Leads(app', consent') /\ keychain' \in [Items -> Texts]
         /\ \A i \in Items : \/ keychain'[i] = keychain[i]
                             \/ i[2] # "ProxyCommand" /\ keychain'[i] = Right
<1> DEFINE V == app.saving \ {x}
           b == [app EXCEPT !.deleting = app.deleting, !.saving = V]
<1>0. app \in Windows /\ consent' = consent
  BY AppIsWindow DEF KeychainSaves
<1>1. app' = b
  BY <1>0 DEF KeychainSaves, Windows
<1>2. app.deleting \in SUBSET Items /\ app.saving \in SUBSET (AskedItems \X {Right})
  BY <1>0 DEF Windows
<1>6. V \in SUBSET (AskedItems \X {Right})
  BY <1>2
<1> HIDE DEF V
<1>3. b \in Windows /\ Good(b, consent) /\ Fewer(app, b)
  BY <1>0, <1>2, <1>6, Written
<1> HIDE DEF b
<1>4. Leads(app', consent')
  BY <1>0, <1>1, <1>3, FewerIsOnward DEF Leads
<1>5. x[1] \in AskedItems /\ x[2] = Right /\ x[1][2] # "ProxyCommand" /\ Right \in Texts
  BY <1>2, ValuesAssumption DEF KeychainSaves, AskedItems, Texts
<1>7. keychain' \in [Items -> Texts]
  BY <1>5 DEF KeychainSaves
<1>8. ASSUME NEW i \in Items
      PROVE  \/ keychain'[i] = keychain[i]
             \/ i[2] # "ProxyCommand" /\ keychain'[i] = Right
  <2>1. keychain' = IF done THEN [keychain EXCEPT ![x[1]] = Right] ELSE keychain
    BY <1>5 DEF KeychainSaves
  <2>2. CASE i = x[1]
    BY <2>1, <2>2, <1>5
  <2>3. CASE i # x[1]
    BY <2>1, <2>3
  <2> QED BY <2>2, <2>3
<1> QED BY <1>4, <1>7, <1>8

---------------------------------------------------------------------------
\* The steps of the connections.

LEMMA StepGoesOn ==
  ASSUME Good(app, consent), NEW s \in Sessions, StepSucceeds(s)
  PROVE  Leads(app', consent')
<1>0. app \in Windows /\ consent' = consent
  BY AppIsWindow DEF StepSucceeds, Quietly, InMemory
<1> DEFINE v(w) == [w EXCEPT !.at = @ + 1]
           next(w) == [app EXCEPT !.worker[s] = {v(w)}]
           secret(w) == w.secrets[w.at]
           trying(w) == [next(w) EXCEPT !.session[s].state = "Authenticating"]
           saved(w) == SaveSuccessful(trying(w), s, secret(w).item[1])
<1>1. PICK w \in app.worker[s] :
        /\ w.at <= Len(w.secrets)
        /\ \/ /\ secret(w).item[2] = "ProxyCommand" /\ app' = next(w)
           \/ /\ secret(w).item[2] = "ProxyPassword" /\ secret(w).value = Right
              /\ app' = next(w)
           \/ /\ secret(w).item[2] \notin {"ProxyPassword", "ProxyCommand"}
              /\ secret(w).value \in {Right, "none"}
              /\ app' = saved(w)
  BY DEF StepSucceeds, Quietly, InMemory, Working
<1>2. w \in Workers /\ app.session[s] \in SessionRecords
  BY <1>0, WindowTypes
<1>3. v(w) \in Workers
  BY <1>2 DEF Workers
<1>4. [app.worker EXCEPT ![s] = {v(w)}] \in [Sessions -> SUBSET Workers]
  <2> HIDE DEF v
  <2> QED BY <1>0, <1>3, WindowTypes
<1>5. /\ next(w) \in Windows /\ next(w).open = app.open /\ next(w).used = app.used
      /\ next(w).panes = app.panes /\ next(w).worker = [app.worker EXCEPT ![s] = {v(w)}]
      /\ next(w).session = app.session
      /\ next(w).pending = app.pending /\ next(w).lookup = app.lookup
      /\ next(w).prompt = app.prompt /\ next(w).approval = app.approval
      /\ next(w).approving = app.approving /\ next(w).approved = app.approved
      /\ next(w).editing = app.editing
      /\ next(w).deleting = app.deleting /\ next(w).saving = app.saving
  <2> HIDE DEF v
  <2> QED BY <1>0, <1>4 DEF Windows
<1>6. /\ next(w).worker[s] = {v(w)}
      /\ \A r \in Sessions \ {s} : next(w).worker[r] = app.worker[r]
  <2> HIDE DEF v, next
  <2> QED BY <1>0, <1>5, WindowTypes
<1> HIDE DEF next
<1>7. CASE /\ secret(w).item[2] = "ProxyCommand" \/ secret(w).value = Right
           /\ secret(w).item[2] \in {"ProxyPassword", "ProxyCommand"} /\ app' = next(w)
  <2>1. Good(next(w), consent) /\ Onward(app, next(w))
    BY <1>0, <1>1, <1>5, <1>6, <1>7, StepIsTaken
  <2> QED BY <1>0, <1>5, <1>7, <2>1 DEF Leads
<1>8. CASE /\ secret(w).item[2] \notin {"ProxyPassword", "ProxyCommand"}
           /\ secret(w).value \in {Right, "none"} /\ app' = saved(w)
  <2> DEFINE good == Successful(app.session[s].credentials, secret(w).item[1])
             R == [app.session[s] EXCEPT !.state = "Authenticating", !.credentials = @ \ good]
             S == {<<c.item, c.value>> : c \in {d \in good : d.save}}
             V == app.saving \cup S
             b == [next(w) EXCEPT !.session[s] = R, !.saving = V]
  <2>1. /\ R \in SessionRecords /\ R.profile = app.session[s].profile
        /\ R.credentials = app.session[s].credentials \ good
    <3> HIDE DEF good
    <3> QED BY <1>2 DEF SessionRecords, States
  <2>2. S \in SUBSET (AskedItems \X {Right})
    <3>1. \A c \in good : c \in AskedCredentials /\ c.value = Right
      BY <1>0, <1>1, <1>8, SuccessfulAreRight
    <3> HIDE DEF good
    <3> QED BY <3>1 DEF AskedCredentials
  <2>3. saved(w) = b
    <3> DEFINE T == [app.session[s] EXCEPT !.state = "Authenticating"]
               X == [app.session EXCEPT ![s] = T]
               Y == [app.session EXCEPT ![s] = R]
    <3>1. /\ R = [T EXCEPT !.credentials = @ \ good]
          /\ T.credentials = app.session[s].credentials
      BY <1>2 DEF SessionRecords
    <3> HIDE DEF T, R
    <3>2. X[s] = T /\ [X EXCEPT ![s] = R] = Y
      BY <1>0, WindowTypes
    <3>3. trying(w) = [next(w) EXCEPT !.session = X]
      BY <1>5 DEF T, Windows
    <3> HIDE DEF trying, X, Y
    <3>4. /\ trying(w).session = X /\ trying(w).saving = app.saving
      BY <1>5, <3>3 DEF Windows
    <3>5. saved(w) = [trying(w) EXCEPT !.session = [X EXCEPT ![s] = [T EXCEPT !.credentials = @ \ good]],
                                       !.saving = @ \cup S]
      BY <3>1, <3>2, <3>4 DEF SaveSuccessful
    <3> HIDE DEF good, S
    <3>6. saved(w) = [trying(w) EXCEPT !.session = Y, !.saving = V]
      BY <3>1, <3>2, <3>4, <3>5
    <3>7. b = [next(w) EXCEPT !.session = Y, !.saving = V]
      BY <1>5 DEF Windows, Y
    <3> HIDE DEF V, b
    <3> QED BY <1>5, <3>3, <3>6, <3>7 DEF Windows
  <2> HIDE DEF R, S, good
  <2>4. V \in SUBSET (AskedItems \X {Right})
        /\ [app.session EXCEPT ![s] = R] \in [Sessions -> SessionRecords]
    BY <1>0, <2>1, <2>2, WindowTypes DEF Windows
  <2> HIDE DEF V
  <2>5. /\ b \in Windows /\ b.open = app.open /\ b.used = app.used
        /\ b.panes = app.panes /\ b.worker = next(w).worker
        /\ b.session = [app.session EXCEPT ![s] = R]
        /\ b.pending = app.pending /\ b.lookup = app.lookup
        /\ b.prompt = app.prompt /\ b.approval = app.approval
        /\ b.approving = app.approving /\ b.approved = app.approved
        /\ b.editing = app.editing
    BY <1>5, <2>4 DEF Windows
  <2> HIDE DEF b
  <2>6. /\ b.session[s].profile = app.session[s].profile
        /\ b.session[s].credentials \subseteq app.session[s].credentials
        /\ \A r \in Sessions \ {s} : b.session[r] = app.session[r]
        /\ b.worker[s] = {v(w)}
        /\ \A r \in Sessions \ {s} : b.worker[r] = app.worker[r]
    <3> HIDE DEF v
    <3> QED BY <1>0, <1>6, <2>1, <2>5, WindowTypes
  <2>7. /\ w.at <= Len(w.secrets)
        /\ w.secrets[w.at].item[2] = "ProxyPassword" => w.secrets[w.at].value = Right
        /\ b.worker[s] = {[w EXCEPT !.at = @ + 1]}
    BY <1>1, <1>8, <2>6
  <2>8. \A r \in Sessions \ {s} : b.worker[r] = app.worker[r] /\ b.session[r] = app.session[r]
    BY <2>6
  <2>9. Good(b, consent) /\ Onward(app, b)
    <3> HIDE DEF v
    <3> QED BY <1>0, <2>5, <2>6, <2>7, <2>8, StepIsTaken
  <2> QED BY <1>0, <1>8, <2>3, <2>5, <2>9 DEF Leads
<1> QED BY <1>1, <1>7, <1>8

LEMMA StepIsRejected ==
  ASSUME Good(app, consent), NEW s \in Sessions, StepRejected(s)
  PROVE  Leads(app', consent')
<1>0. app \in Windows /\ consent' = consent
  BY AppIsWindow DEF StepRejected, InMemory
<1>1. PICK w \in app.worker[s] :
        /\ w.at <= Len(w.secrets) /\ w.secrets[w.at].item[2] \notin {"None", "ProxyCommand"}
        /\ app' = HandleFailed(app, s, {w.secrets[w.at].item})
  BY DEF StepRejected, InMemory
<1> DEFINE item == w.secrets[w.at].item
           b == HandleFailed(app, s, {item})
<1>2. /\ w.target \in Profiles /\ w.secrets \in Seq(Secrets) /\ w.at \in Nat \ {0}
      /\ Fitting(w.secrets, w.target, app.session[s].credentials)
      /\ Complete(w.secrets, w.target) /\ w.target = app.session[s].profile
  <2>1. w \in Workers
    BY <1>0, WindowTypes
  <2> QED BY <2>1 DEF Good, Fine, Made, Own, Workers
<1>3. w.at \in DOMAIN w.secrets /\ w.at \in DOMAIN Needs(w.target)
  BY <1>1, <1>2, NeedsAre DEF Complete
<1>4. item = Needs(w.target)[w.at] /\ item \in StepItems
  BY <1>2, <1>3, NeedsAre DEF Fitting
<1>5. item \in AskedItems /\ NeedsSecret(app.session[s].profile)
  BY <1>1, <1>2, <1>3, <1>4 DEF StepItems, Kinds, AskedItems, NeedsSecret
<1>6. app' = b
  BY <1>1
<1> HIDE DEF item
<1>7. {item} \in SUBSET AskedItems /\ \A i, j \in {item} : i = j
  BY <1>5
<1>8. b \in Windows /\ Good(b, consent) /\ Fewer(app, b)
  BY <1>0, <1>5, <1>7, FailureIsHandled
<1> HIDE DEF b
<1> QED BY <1>0, <1>6, <1>8, FewerIsOnward DEF Leads

LEMMA ConnectionIsLost ==
  ASSUME Good(app, consent), NEW s \in Sessions, ConnectionFails(s)
  PROVE  Leads(app', consent')
<1> DEFINE b == HandleFailed(app, s, {})
<1>0. app \in Windows /\ consent' = consent /\ app' = b /\ app.worker[s] # {}
  BY AppIsWindow DEF ConnectionFails, Quietly, InMemory
<1>1. {} \in SUBSET AskedItems
  OBVIOUS
<1>2. b \in Windows /\ Good(b, consent) /\ Fewer(app, b)
  BY <1>0, <1>1, FailureIsHandled
<1> HIDE DEF b
<1> QED BY <1>0, <1>2, FewerIsOnward DEF Leads

LEMMA HostKeyIsShown ==
  ASSUME Good(app, consent), NEW s \in Sessions, HostKeyVerificationRequired(s)
  PROVE  Leads(app', consent')
<1> DEFINE b == ActivateSession(app, s)
<1>0. app \in Windows /\ consent' = consent /\ app' = b
  BY AppIsWindow DEF HostKeyVerificationRequired, Quietly, InMemory
<1>1. b \in Windows /\ Weaker(app, b) /\ Asks(b)
  BY <1>0, SessionIsActivated DEF Good
<1> HIDE DEF b
<1> QED BY <1>0, <1>1, WeakerLeads DEF Leads

LEMMA ConnectionIsReady ==
  ASSUME Good(app, consent), NEW s \in Sessions, Connects(s)
  PROVE  Leads(app', consent')
<1> DEFINE R == [app.session[s] EXCEPT !.state = "Connected"]
           b == [app EXCEPT !.session[s] = R]
<1>0. app \in Windows /\ consent' = consent /\ app.session[s] \in SessionRecords
  BY AppIsWindow, WindowTypes DEF Connects, Quietly, InMemory
<1>1. app' = b
  BY <1>0, WindowTypes DEF Connects, Quietly, InMemory, Windows
<1>2. R \in SessionRecords /\ R.profile = app.session[s].profile
      /\ R.credentials = app.session[s].credentials
  BY <1>0 DEF SessionRecords, States
<1> HIDE DEF R
<1>3. [app.session EXCEPT ![s] = R] \in [Sessions -> SessionRecords]
  BY <1>0, <1>2, WindowTypes
<1>4. /\ b \in Windows /\ b.open = app.open /\ b.used = app.used /\ b.panes = app.panes
      /\ b.worker = app.worker /\ b.session = [app.session EXCEPT ![s] = R]
      /\ b.pending = app.pending /\ b.lookup = app.lookup /\ b.prompt = app.prompt
      /\ b.approval = app.approval /\ b.approving = app.approving
      /\ b.approved = app.approved /\ b.editing = app.editing
  BY <1>0, <1>3 DEF Windows
<1> HIDE DEF b
<1>5. /\ b.worker[s] \subseteq app.worker[s] /\ b.panes \subseteq app.panes
      /\ b.session[s].profile = app.session[s].profile
      /\ b.session[s].credentials \subseteq app.session[s].credentials
      /\ b.session[s].credentials # {} => b.worker[s] # {}
      /\ \A r \in Sessions \ {s} : b.worker[r] = app.worker[r] /\ b.session[r] = app.session[r]
  BY <1>0, <1>2, <1>4, WindowTypes DEF Good, Fine, Ended
<1>6. Good(b, consent) /\ Fewer(app, b)
  BY <1>0, <1>4, <1>5, SessionChanges
<1> QED BY <1>0, <1>1, <1>4, <1>6, FewerIsOnward DEF Leads

LEMMA ConnectionIsOver ==
  ASSUME Good(app, consent), NEW s \in Sessions, Disconnects(s)
  PROVE  Leads(app', consent')
<1> DEFINE b == HandleDisconnected(app, s)
<1>0. app \in Windows /\ consent' = consent /\ app' = b
  BY AppIsWindow DEF Disconnects, Quietly, InMemory
<1>1. b \in Windows /\ Good(b, consent) /\ Fewer(app, b)
  BY <1>0, EndIsHandled
<1> HIDE DEF b
<1> QED BY <1>0, <1>1, FewerIsOnward DEF Leads

---------------------------------------------------------------------------
\* The invariant.

LEMMA FlowInit == Init => FlowInv
<1> SUFFICES ASSUME Init PROVE FlowInv
  OBVIOUS
<1> DEFINE session == [s \in Sessions |-> Gone]
           worker == [s \in Sessions |-> {}]
           approved == [p \in Profiles |-> "none"]
<1>1. /\ session \in [Sessions -> SessionRecords] /\ worker \in [Sessions -> SUBSET Workers]
      /\ approved \in [Profiles -> Texts]
      /\ \A s \in Sessions : session[s].credentials = {} /\ worker[s] = {}
      /\ \A p \in Profiles : approved[p] = "none"
  BY GoneIs DEF Texts
<1>2. app = [open |-> {}, used |-> {}, panes |-> {}, session |-> session, worker |-> worker,
             pending |-> {}, lookup |-> {}, prompt |-> {}, approval |-> {}, approving |-> {},
             approved |-> approved, editing |-> {}, deleting |-> {}, saving |-> {}]
      /\ consent = {} /\ disk = approved /\ keychain \in [Items -> Texts]
  BY KeychainsAssumption DEF Init, Texts
<1> HIDE DEF session, worker, approved
<1>3. app \in Windows
  BY <1>1, <1>2 DEF Windows
<1>4. /\ app.open = {} /\ app.used = {} /\ app.panes = {} /\ app.session = session
      /\ app.worker = worker /\ app.pending = {} /\ app.lookup = {} /\ app.prompt = {}
      /\ app.approval = {} /\ app.approving = {} /\ app.approved = approved /\ app.editing = {}
  BY <1>2
<1>5. \A p \in Profiles : "none" \in Given(p, consent)
  BY DEF Given
<1>6. Typed1(app) /\ Opened(app) /\ Own(app) /\ Apart(app)
  BY <1>1, <1>3, <1>4 DEF Typed1, Opened, Own, Apart, AtMostOne
<1>7. Made(app) /\ Ended(app) /\ Asks(app) /\ Waits(app)
  BY <1>1, <1>4 DEF Made, Ended, Asks, Waits
<1>8. Consented(app, consent)
  BY <1>1, <1>2, <1>4, <1>5 DEF Consented
<1> QED BY <1>1, <1>2, <1>5, <1>6, <1>7, <1>8 DEF FlowInv, Good, Fine

\* What the keychain may learn in a step.
Learns ==
  \A i \in Items :
    \/ keychain'[i] \in {keychain[i], "none"}
    \/ IF i[2] = "ProxyCommand" THEN \E e \in app.editing : e.command = keychain'[i]
       ELSE keychain'[i] = Right

LEMMA StoresStay ==
  ASSUME FlowInv, Leads(app', consent'), consent' = consent, keychain' = keychain, disk' = disk
  PROVE  FlowInv' /\ Onward(app, app') /\ Learns
BY DEF FlowInv, Leads, Learns

LEMMA UserStep ==
  ASSUME FlowInv, User
  PROVE  FlowInv' /\ Onward(app, app') /\ Learns
<1>0. Good(app, consent) /\ \A x \in Typed : x[1] \in Values /\ x[2] \in BOOLEAN
  BY TypedAssumption DEF FlowInv
<1>1. CASE \E s \in Sessions, p \in Profiles : ConnectInNewSession(s, p)
  <2>1. Leads(app', consent')
    BY <1>0, <1>1, NewSessionConnects
  <2>2. consent' = consent /\ keychain' = keychain /\ disk' = disk
    BY <1>1 DEF ConnectInNewSession, Ask, InMemory
  <2> QED BY <2>1, <2>2, StoresStay
<1>2. CASE \E s \in Sessions : SplitActivePane(s)
  <2>1. Leads(app', consent')
    BY <1>0, <1>2, PaneSplits
  <2>2. consent' = consent /\ keychain' = keychain /\ disk' = disk
    BY <1>2 DEF SplitActivePane, Ask, InMemory
  <2> QED BY <2>1, <2>2, StoresStay
<1>3. CASE \E s \in Sessions : Reconnect(s)
  <2>1. Leads(app', consent')
    BY <1>0, <1>3, Reconnects
  <2>2. consent' = consent /\ keychain' = keychain /\ disk' = disk
    BY <1>3 DEF Reconnect, Ask, InMemory
  <2> QED BY <2>1, <2>2, StoresStay
<1>4. CASE \E s \in Sessions, sent \in BOOLEAN : Disconnect(s, sent)
  <2>1. Leads(app', consent')
    BY <1>0, <1>4, UserDisconnects
  <2>2. consent' = consent /\ keychain' = keychain /\ disk' = disk
    BY <1>4 DEF Disconnect, Quietly, InMemory
  <2> QED BY <2>1, <2>2, StoresStay
<1>5. CASE \E s \in Sessions, sent \in BOOLEAN : CloseTab(s, sent)
  <2>1. Leads(app', consent')
    BY <1>0, <1>5, TabCloses
  <2>2. consent' = consent /\ keychain' = keychain /\ disk' = disk
    BY <1>5 DEF CloseTab, Quietly, InMemory
  <2> QED BY <2>1, <2>2, StoresStay
<1>6. CASE \E x \in Typed : SubmitSecret(x[1], x[2])
  <2>1. Leads(app', consent')
    BY <1>0, <1>6, SecretIsSubmitted
  <2>2. consent' = consent /\ keychain' = keychain /\ disk' = disk
    BY <1>6 DEF SubmitSecret, Quietly, InMemory
  <2> QED BY <2>1, <2>2, StoresStay
<1>7. CASE CancelCredential
  <2>1. Leads(app', consent')
    BY <1>0, <1>7, CredentialIsCancelled
  <2>2. consent' = consent /\ keychain' = keychain /\ disk' = disk
    BY <1>7 DEF CancelCredential, Quietly, InMemory
  <2> QED BY <2>1, <2>2, StoresStay
<1>8. CASE \E saved \in BOOLEAN : ApproveProxyCommand(saved)
  <2>1. /\ Leads(app', consent') /\ consent \subseteq consent'
        /\ \/ disk' = disk
           \/ disk' \in [Profiles -> Texts] /\ \A p \in Profiles : disk'[p] \in Given(p, consent')
    BY <1>0, <1>8, CommandIsApproved
  <2>2. keychain' = keychain
    BY <1>8 DEF ApproveProxyCommand
  <2>3. \A p : Given(p, consent) \subseteq Given(p, consent')
    BY <2>1 DEF Given
  <2> QED BY <2>1, <2>2, <2>3 DEF FlowInv, Leads, Learns
<1>9. CASE CancelApproval
  <2>1. Leads(app', consent')
    BY <1>0, <1>9, ApprovalIsCancelled
  <2>2. consent' = consent /\ keychain' = keychain /\ disk' = disk
    BY <1>9 DEF CancelApproval, Quietly, InMemory
  <2> QED BY <2>1, <2>2, StoresStay
<1>10. CASE ShowPanel
  <2>1. Leads(app', consent')
    BY <1>0, <1>10, PanelIsShown
  <2>2. consent' = consent /\ keychain' = keychain /\ disk' = disk
    BY <1>10 DEF ShowPanel, Quietly, InMemory
  <2> QED BY <2>1, <2>2, StoresStay
<1>11. CASE \E p \in Profiles, command \in Values : BeginEdit(p, command)
  <2>1. Leads(app', consent')
    BY <1>0, <1>11, EditBegins
  <2>2. consent' = consent /\ keychain' = keychain /\ disk' = disk
    BY <1>11 DEF BeginEdit
  <2> QED BY <2>1, <2>2, StoresStay
<1> QED BY <1>1, <1>2, <1>3, <1>4, <1>5, <1>6, <1>7, <1>8, <1>9, <1>10, <1>11 DEF User

LEMMA StoresStep ==
  ASSUME FlowInv, Stores
  PROVE  FlowInv' /\ Onward(app, app') /\ Learns
<1>0. Good(app, consent) /\ keychain \in [Items -> Texts]
  BY DEF FlowInv
<1>1. CASE \E error \in BOOLEAN : LookupAnswers(error)
  <2>1. Leads(app', consent')
    BY <1>0, <1>1, LookupIsAnswered
  <2>2. consent' = consent /\ keychain' = keychain /\ disk' = disk
    BY <1>1 DEF LookupAnswers, Quietly, InMemory
  <2> QED BY <2>1, <2>2, StoresStay
<1>2. CASE DeleteAnswers
  <2>1. Leads(app', consent')
    BY <1>0, <1>2, DeletionIsAnswered
  <2>2. consent' = consent /\ keychain' = keychain /\ disk' = disk
    BY <1>2 DEF DeleteAnswers, InMemory
  <2> QED BY <2>1, <2>2, StoresStay
<1>3. CASE \E item \in Items, done \in BOOLEAN : KeychainDeletes(item, done)
  <2>1. /\ Leads(app', consent') /\ keychain' \in [Items -> Texts]
        /\ \A i \in Items : keychain'[i] \in {keychain[i], "none"}
    BY <1>0, <1>3, KeychainIsCleared
  <2>2. consent' = consent /\ disk' = disk
    BY <1>3 DEF KeychainDeletes
  <2> QED BY <2>1, <2>2 DEF FlowInv, Leads, Learns
<1>4. CASE \E x \in Items \X Values, done \in BOOLEAN : KeychainSaves(x, done)
  <2>1. /\ Leads(app', consent') /\ keychain' \in [Items -> Texts]
        /\ \A i \in Items : \/ keychain'[i] = keychain[i]
                            \/ i[2] # "ProxyCommand" /\ keychain'[i] = Right
    BY <1>0, <1>4, KeychainIsSaved
  <2>2. consent' = consent /\ disk' = disk
    BY <1>4 DEF KeychainSaves
  <2> QED BY <2>1, <2>2 DEF FlowInv, Leads, Learns
<1>5. CASE \E done \in BOOLEAN : EndEdit(done)
  <2>1. /\ Leads(app', consent') /\ consent' = consent
        /\ keychain' \in [Items -> Texts]
        /\ \/ disk' = disk
           \/ disk' \in [Profiles -> Texts] /\ \A p \in Profiles : disk'[p] \in Given(p, consent)
        /\ \A i \in Items : \/ keychain'[i] = keychain[i]
                            \/ /\ i[2] = "ProxyCommand"
                               /\ \E e \in app.editing : e.command = keychain'[i]
    BY <1>0, <1>5, EditEnds
  <2> QED BY <2>1 DEF FlowInv, Leads, Learns
<1> QED BY <1>1, <1>2, <1>3, <1>4, <1>5 DEF Stores

LEMMA ConnectionsStep ==
  ASSUME FlowInv, Connections
  PROVE  FlowInv' /\ Onward(app, app') /\ Learns
<1>0. Good(app, consent)
  BY DEF FlowInv
<1>1. PICK s \in Sessions :
        \/ StepSucceeds(s) \/ StepRejected(s) \/ ConnectionFails(s)
        \/ HostKeyVerificationRequired(s) \/ Connects(s) \/ Disconnects(s)
  BY DEF Connections
<1>2. Leads(app', consent')
  BY <1>0, <1>1, StepGoesOn, StepIsRejected, ConnectionIsLost, HostKeyIsShown, ConnectionIsReady,
     ConnectionIsOver
<1>3. consent' = consent /\ keychain' = keychain /\ disk' = disk
  BY <1>1 DEF StepSucceeds, StepRejected, ConnectionFails, HostKeyVerificationRequired,
     Connects, Disconnects, Quietly, InMemory
<1> QED BY <1>2, <1>3, StoresStay

LEMMA FlowStep ==
  ASSUME FlowInv, [Next]_vars
  PROVE  FlowInv' /\ (Onward(app, app') \/ UNCHANGED app) /\ (Learns \/ UNCHANGED keychain)
<1>1. CASE Next
  BY <1>1, UserStep, StoresStep, ConnectionsStep DEF Next
<1>2. CASE UNCHANGED vars
  BY <1>2 DEF vars, FlowInv
<1> QED BY <1>1, <1>2

\* The window's sessions, slots and stores are always as the code's types have them, and
\* nothing is under way for a session that is gone.
THEOREM FlowInvariant == Spec => []FlowInv
<1>1. FlowInv /\ [Next]_vars => FlowInv'
  BY FlowStep
<1> QED BY FlowInit, <1>1, PTL DEF Spec

---------------------------------------------------------------------------
\* What it implies.

\* The shape of the window (workspace.rs:25-120, connection_flow.rs:18-60): at most one
\* connection, preparation, lookup, prompt and approval, each of a session it has.
THEOREM FlowTypes == Spec => []FlowTypeOK
<1>1. FlowInv => FlowTypeOK
  <2> SUFFICES ASSUME FlowInv PROVE FlowTypeOK
    OBVIOUS
  <2>1. app \in Windows /\ Typed1(app) /\ Opened(app) /\ keychain \in [Items -> Texts]
    BY DEF FlowInv, Good, Fine, Typed1
  <2>2. AskedItems \subseteq Items
    BY DEF AskedItems, Items, Kinds
  <2>3. AskedCredentials \subseteq Credentials /\ Prepared \subseteq Preparations
    <3>1. AskedCredentials \subseteq Credentials
      BY <2>2 DEF AskedCredentials, Credentials
    <3> QED BY <2>2, <3>1 DEF Prepared, Preparations, Texts
  <2>4. \A s \in Sessions : app.session[s] \in SessionRecords
    BY <2>1, WindowTypes
  <2>5. \A s \in Sessions : /\ app.session[s].profile \in Profiles /\ app.session[s].state \in States
                            /\ app.session[s].credentials \subseteq Credentials
    BY <2>3, <2>4 DEF SessionRecords
  <2> QED BY <2>1, <2>3, <2>5, WindowTypes DEF FlowTypeOK, Typed1, Opened, Texts
<1> QED BY <1>1, FlowInvariant, PTL

\* Every secret of a connection is for the step it is used on, whatever else was prepared,
\* asked or looked up in the meantime (connection_flow.rs:655-682).
THEOREM SecretsBelong == Spec => []SecretsGoWhereTheyBelong
<1>1. FlowInv => SecretsGoWhereTheyBelong
  <2> SUFFICES ASSUME FlowInv, NEW s \in Sessions, NEW w \in app.worker[s]
               PROVE  [i \in DOMAIN w.secrets |-> w.secrets[i].item] = Needs(w.target)
    BY DEF SecretsGoWhereTheyBelong
  <2>1. /\ w.target \in Profiles /\ w.secrets \in Seq(Secrets)
        /\ Fitting(w.secrets, w.target, app.session[s].credentials)
        /\ Complete(w.secrets, w.target)
    <3>1. w \in Workers
      BY AppIsWindow, WindowTypes DEF FlowInv
    <3> QED BY <3>1 DEF FlowInv, Good, Fine, Made, Workers
  <2>2. Needs(w.target) \in Seq(StepItems) /\ DOMAIN Needs(w.target) = 1..Len(Needs(w.target))
    BY <2>1, NeedsAre
  <2>3. DOMAIN w.secrets = DOMAIN Needs(w.target)
    BY <2>1, <2>2 DEF Complete
  <2>4. \A i \in DOMAIN w.secrets : w.secrets[i].item = Needs(w.target)[i]
    BY <2>1 DEF Fitting
  <2>5. Needs(w.target) = [i \in DOMAIN Needs(w.target) |-> Needs(w.target)[i]]
    BY <2>2
  <2> QED BY <2>3, <2>4, <2>5
<1> QED BY <1>1, FlowInvariant, PTL

\* No proxy command runs, and none is remembered as approved, that the user has not
\* approved for that profile (connection_flow.rs:684-722).
THEOREM CommandsAreConsented == Spec => []OnlyConsentedCommandRuns
<1>1. FlowInv => OnlyConsentedCommandRuns
  BY DEF FlowInv, Good, Fine, Consented, Given, OnlyConsentedCommandRuns
<1> QED BY <1>1, FlowInvariant, PTL

\* The prompt on the screen is for what the preparation needs next
\* (connection_flow.rs:514-520).
THEOREM PromptsAreCurrent == Spec => []PromptIsCurrent
<1>1. FlowInv => PromptIsCurrent
  BY DEF FlowInv, Good, Asks, PromptIsCurrent
<1> QED BY <1>1, FlowInvariant, PTL

\* A session without a connection keeps no secret (connection_flow.rs:1405).
THEOREM SecretsEndWithConnections == Spec => []NoSecretOutlivesConnection
<1>1. FlowInv => NoSecretOutlivesConnection
  BY AppIsWindow, WindowTypes DEF FlowInv, Good, Fine, Ended, NoSecretOutlivesConnection
<1> QED BY <1>1, FlowInvariant, PTL

\* No connection takes the place of another (connection_flow.rs:211-219).
THEOREM ConnectionsAreKept == Spec => OneConnectionPerSession
<1>1. FlowInv /\ [Next]_vars =>
        [\A s \in Sessions : \A w \in app.worker[s] :
           app'.worker[s] \subseteq {w, [w EXCEPT !.at = @ + 1]}]_app
  BY FlowStep DEF Onward
<1> QED BY <1>1, FlowInvariant, PTL DEF Spec, OneConnectionPerSession

\* The keychain learns what its own host or proxy has taken, and nothing else
\* (connection_flow.rs:1190-1206).
THEOREM SavedSecretsAreRight == Spec => OnlyAcceptedSecretsSaved
<1>1. FlowInv /\ [Next]_vars =>
        [\A i \in Items :
           \/ keychain'[i] \in {keychain[i], "none"}
           \/ IF i[2] = "ProxyCommand" THEN \E e \in app.editing : e.command = keychain'[i]
              ELSE keychain'[i] = Right]_keychain
  BY FlowStep DEF Learns
<1> QED BY <1>1, FlowInvariant, PTL DEF Spec, OnlyAcceptedSecretsSaved
=============================================================================
