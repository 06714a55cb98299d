--------------------------- MODULE OpenSshConfig ---------------------------
(***************************************************************************)
(* What an OpenSSH client configuration says of a host: the order in which *)
(* files and their lines are read, the values a host obtains from them,    *)
(* and the profiles the import offers, among them one for each destination *)
(* of a ProxyJump that is not a host of the file (remcmd-storage           *)
(* openssh.rs, up to the status of a candidate: OpenSshImport has the      *)
(* rest).                                                                  *)
(*                                                                         *)
(* A line is what parse_config_line and split_words make of it; a pattern  *)
(* is the set of names it matches.                                         *)
(***************************************************************************)
EXTENDS Naturals, Sequences, SequencesExt

CONSTANTS
  LocalUser,
  Unset    \* a value not obtained

Expand == "%h"       \* the token for the host's name

\* A destination of ProxyJump, and what an alias is called there.
Hop(user, host, port) == [user |-> user, host |-> host, port |-> port]
Named(alias) == Hop(Unset, alias, Unset)
NoHop == Named("none")
BadHop == Hop(Unset, "bad", 0)     \* no destination

\* Lines.  files are those an Include names that are there, sorted.
Include(files) == [kind |-> "include", files |-> files]
HostLine(patterns) == [kind |-> "host", patterns |-> patterns]
MatchLine(terms) == [kind |-> "match", terms |-> terms]
Unsupported == [kind |-> "unsupported"]
Set(keyword, value) == [kind |-> "set", keyword |-> keyword, value |-> value]
SetJumps(hops) == [kind |-> "set", keyword |-> "proxyjump", hops |-> hops]

Pattern(negated, matches) == [negated |-> negated, matches |-> matches, literal |-> FALSE]
Literal(name) == [negated |-> FALSE, matches |-> {name}, literal |-> TRUE]

-----------------------------------------------------------------------------
(* Reading: ConfigParser.                                                  *)

\* A scope is a Host or Match line, or none was seen.
Parsed == [scope |-> [kind |-> "all"], rules |-> <<>>, aliases |-> {}, cycles |-> 0]

SetHostScope(p, line) ==
  [p EXCEPT !.scope = line,
            !.aliases = @ \cup UNION {q.matches : q \in {q \in ToSet(line.patterns) : q.literal}}]

\* parse_file and parse_includes: a file being read is not read again.
RECURSIVE ParseFile(_, _, _, _)
ParseFile(content, file, stack, parser) ==
  LET Read(p, line) ==
        CASE line.kind = "include" ->
               FoldLeft(LAMBDA q, f : ParseFile(content, f, stack \cup {file}, q), p, line.files)
          [] line.kind = "host" -> SetHostScope(p, line)
          [] line.kind \in {"match", "unsupported"} -> [p EXCEPT !.scope = line]
          [] line.kind = "set" ->
               [p EXCEPT !.rules = Append(@, [scope |-> p.scope, set |-> line])]
  IN IF file \in stack THEN [parser EXCEPT !.cycles = @ + 1]
     ELSE FoldLeft(Read, parser, content[file])

ParseRoot(content, root) == ParseFile(content, root, {}, Parsed)

-----------------------------------------------------------------------------
(* Resolving: resolve_host.                                                *)

EffectiveHost ==
  [host |-> Unset, user |-> Unset, port |-> Unset, identities |-> <<>>, route |-> Unset,
   fdpass |-> FALSE]

HostName(alias, e) == IF e.host = Unset THEN alias ELSE e.host
UserName(e) == IF e.user = Unset THEN LocalUser ELSE e.user
Port(e) == IF e.port = Unset THEN 22 ELSE e.port

\* A negated pattern that matches decides, wherever it stands.
PatternListMatches(patterns, name) ==
  /\ \E p \in ToSet(patterns) : ~p.negated /\ name \in p.matches
  /\ ~\E p \in ToSet(patterns) : p.negated /\ name \in p.matches

TermMatches(term, alias, e) ==
  CASE term.on = "all" -> TRUE
    [] term.on = "host" -> PatternListMatches(term.patterns, HostName(alias, e))
    [] term.on = "originalhost" -> PatternListMatches(term.patterns, alias)
    [] term.on = "user" -> PatternListMatches(term.patterns, UserName(e))
    [] term.on = "localuser" -> PatternListMatches(term.patterns, LocalUser)

\* A Match looks at what was obtained before it.
ScopeMatches(scope, alias, e) ==
  CASE scope.kind = "all" -> TRUE
    [] scope.kind = "host" -> PatternListMatches(scope.patterns, alias)
    [] scope.kind = "match" -> \A t \in ToSet(scope.terms) : TermMatches(t, alias, e)
    [] scope.kind = "unsupported" -> FALSE

ObtainHostName(alias, value) == IF value = Expand THEN alias ELSE value

Obtain(alias, e, rule) ==
  LET set == rule.set IN
  CASE ~ScopeMatches(rule.scope, alias, e) -> e
    [] set.keyword = "hostname" /\ e.host = Unset -> [e EXCEPT !.host = ObtainHostName(alias, set.value)]
    [] set.keyword = "user" /\ e.user = Unset -> [e EXCEPT !.user = set.value]
    [] set.keyword = "port" /\ e.port = Unset -> [e EXCEPT !.port = set.value]
    [] set.keyword = "identityfile" -> [e EXCEPT !.identities = Append(@, set.value)]
    [] set.keyword \in {"proxyjump", "proxycommand"} /\ e.route = Unset -> [e EXCEPT !.route = set]
    [] set.keyword = "proxyusefdpass" -> [e EXCEPT !.fdpass = @ \/ set.value = "yes"]
    [] OTHER -> e

\* expand_identity_path, once everything is obtained: a path may name the host, the port
\* and the user ("%h"); it may be "none", or "bad" with a token it cannot have.
ExpandIdentity(alias, e, path) ==
  [path |-> path, tokens |-> IF path = Expand THEN <<HostName(alias, e), Port(e), UserName(e)>> ELSE <<>>]

ResolveHost(rules, alias) ==
  LET e == FoldLeft(LAMBDA x, rule : Obtain(alias, x, rule), EffectiveHost, rules)
      kept == SelectSeq(e.identities, LAMBDA path : path \notin {"none", "bad"})
  IN [e EXCEPT !.identities = [i \in DOMAIN kept |-> ExpandIdentity(alias, e, kept[i])]]

-----------------------------------------------------------------------------
(* The candidates: preview_with_context and build_candidate.               *)

\* The destinations of a ProxyJump.
Hops(key, e) ==
  IF e.route = Unset \/ e.route.keyword # "proxyjump" THEN <<>>
  ELSE [i \in DOMAIN e.route.hops |->
         LET hop == e.route.hops[i] IN
         IF hop.host = Expand THEN [hop EXCEPT !.host = HostName(key.host, e)] ELSE hop]

\* One that is not a host of the file has the values of the host it names, if that is one.
Destination(hop, named) ==
  LET base == IF Named(hop.host) \in DOMAIN named THEN named[Named(hop.host)] ELSE EffectiveHost IN
  [base EXCEPT !.host = hop.host, !.route = Unset,
               !.user = IF hop.user = Unset THEN @ ELSE hop.user,
               !.port = IF hop.port = Unset THEN @ ELSE hop.port]

\* What every candidate would be: the hosts of the file, and the destinations they need.
Effective(parsed) ==
  LET aliases == {Named(a) : a \in parsed.aliases}
      named == [key \in aliases |-> ResolveHost(parsed.rules, key.host)]
      synthetic == UNION {ToSet(Hops(key, named[key])) : key \in aliases} \ (aliases \cup {NoHop, BadHop})
  IN [key \in aliases \cup synthetic |->
        IF key \in aliases THEN named[key] ELSE Destination(key, named)]

JumpHosts(key, e) == SelectSeq(Hops(key, e), LAMBDA hop : hop # NoHop)

\* A command with a token that is not one of a connection's is "bad".
CommandIsUsable(command) == command # "bad"

RouteIsUsable(key, e) ==
  CASE e.route = Unset -> TRUE
    [] e.route # Unset /\ e.route.keyword = "proxyjump" ->
         /\ e.route.hops # <<>> /\ {key, BadHop} \cap ToSet(JumpHosts(key, e)) = {}
         /\ IsInjective(JumpHosts(key, e))
    [] e.route # Unset /\ e.route.keyword = "proxycommand" -> CommandIsUsable(e.route.value)

BuildCandidate(key, e) ==
  IF e.fdpass \/ Port(e) \notin 1..65535 \/ ~RouteIsUsable(key, e) THEN [key |-> key, valid |-> FALSE]
  ELSE [key |-> key, valid |-> TRUE, host |-> HostName(key.host, e), port |-> Port(e),
        user |-> UserName(e),
        identity |-> IF e.identities = <<>> THEN Unset ELSE Head(e.identities),
        jumps |-> JumpHosts(key, e),
        command |-> IF e.route # Unset /\ e.route.keyword = "proxycommand" /\ e.route.value # "none"
                    THEN e.route.value ELSE Unset]

Preview(content, root) ==
  LET effective == Effective(ParseRoot(content, root)) IN
  [key \in DOMAIN effective |-> BuildCandidate(key, effective[key])]
=============================================================================
