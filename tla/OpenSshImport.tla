--------------------------- MODULE OpenSshImport ---------------------------
(***************************************************************************)
(* Connection profiles and what the import of an OpenSSH configuration     *)
(* makes of a list of them: the candidates of a preview with their status, *)
(* the hosts a selection needs, the list after the import, and the secrets *)
(* it moves (remcmd-storage openssh.rs, after the configuration is parsed).*)
(* One configuration file is imported, so the generated id of a host is    *)
(* the host.  The order of the jump hosts of a route is left out.          *)
(***************************************************************************)
EXTENDS Integers, FiniteSets

CONSTANTS
    Ids,       \* ids a profile may have
    Hosts,     \* those generated for the hosts of the configuration file
    Logins,    \* where and how to log in: host, port, user, authentication
    Commands,  \* ProxyCommand texts, and their digests in profiles
    None,      \* no secret, no import
    Invalid    \* a host of the configuration that cannot be imported

ASSUME HostsAssumption == Hosts \subseteq Ids

Direct == "direct"
Proxied == "proxied"      \* through an HTTP or SOCKS5 proxy

ASSUME CommandsAssumption == {None, Direct, Proxied} \cap Commands = {}

Upstreams == {Direct, Proxied} \cup Commands

\* What a profile says, whatever its id: a ProxyCommand excludes jump hosts.
Contents == {c \in [login : Logins, upstream : Upstreams, jumps : SUBSET Ids] :
               c.upstream \in Commands => c.jumps = {}}

\* Option::None is no id and no content.
ASSUME NoneAssumption == None \notin Ids \cup Contents

\* source is what the last import wrote, None for a profile typed in by hand.
Profiles == [content : Contents, source : Contents \cup {None}]

IsList(list) == DOMAIN list \subseteq Ids /\ list \in [DOMAIN list -> Profiles]

UsesCommand(list, id) == id \in DOMAIN list /\ list[id].content.upstream \in Commands

\* Every jump host is another profile of the same list.
Closed(list) ==
    \A id \in DOMAIN list : list[id].content.jumps \subseteq DOMAIN list \ {id}
-----------------------------------------------------------------------------
\* The configuration is a function from some hosts to what it says of them,
\* Invalid when that cannot be imported.
StatusOfKnown(said, old) ==
    CASE said \in {old.source, old.content} -> "Unchanged"
      [] said \notin {old.source, old.content} /\ old.content = old.source -> "Update"
      [] said \notin {old.source, old.content} /\ old.content # old.source -> "Conflict"

Status(host, said, existing) ==
    IF said = Invalid THEN "Invalid"
    ELSE IF host \in DOMAIN existing THEN StatusOfKnown(said, existing[host])
    ELSE "New"

Candidates(config, existing) ==
    [host \in DOMAIN config |->
        [content |-> config[host], status |-> Status(host, config[host], existing)]]

\* Conflicts keep the local profile unless the user says otherwise.
WillReplace(candidates, host, overwrite) ==
    \/ candidates[host].status \in {"New", "Update"}
    \/ candidates[host].status = "Conflict" /\ host \in overwrite

\* The jump hosts a selected host brings along, those still to be imported.
Dependencies(candidates, host, existing, overwrite) ==
    IF WillReplace(candidates, host, overwrite)
    THEN candidates[host].content.jumps \ DOMAIN existing
    ELSE {}

Available(candidates) ==
    {host \in DOMAIN candidates : candidates[host].status # "Invalid"}

\* The smallest selection that brings its available dependencies along.
WithDependencies(candidates, selected, existing, overwrite) ==
    LET complete == {s \in SUBSET Available(candidates) :
                       /\ selected \subseteq s
                       /\ \A host \in s :
                            Dependencies(candidates, host, existing, overwrite)
                              \cap Available(candidates) \subseteq s}
    IN {host \in Available(candidates) : \A s \in complete : host \in s}

Replaced(candidates, selected, existing, overwrite) ==
    {host \in WithDependencies(candidates, selected, existing, overwrite) :
       WillReplace(candidates, host, overwrite)}

Imported(candidates, selected, existing, overwrite) ==
    LET replaced == Replaced(candidates, selected, existing, overwrite) IN
    [id \in DOMAIN existing \cup replaced |->
       IF id \in replaced
       THEN [content |-> candidates[id].content, source |-> candidates[id].content]
       ELSE existing[id]]

\* Wrong: a jump host that was there when the preview was made is not looked for.
AcceptableUnchecked(candidates, selected, existing, overwrite) ==
    /\ selected \subseteq Available(candidates)
    /\ \A host \in Replaced(candidates, selected, existing, overwrite) :
         Dependencies(candidates, host, existing, overwrite) \subseteq Available(candidates)

\* What apply_import_with refuses before it touches anything: an unknown or
\* invalid host, a jump host that cannot be had, a list that is not closed.
Acceptable(candidates, selected, existing, overwrite) ==
    /\ selected \subseteq Available(candidates)
    /\ \A host \in WithDependencies(candidates, selected, existing, overwrite) :
         Dependencies(candidates, host, existing, overwrite) \subseteq Available(candidates)
    /\ Closed(Imported(candidates, selected, existing, overwrite))

\* The profiles whose ProxyCommand secret the import writes or deletes.
SecretsMoved(candidates, selected, existing, overwrite) ==
    {id \in Replaced(candidates, selected, existing, overwrite) :
       \/ UsesCommand(existing, id)
       \/ candidates[id].content.upstream \in Commands}
=============================================================================
