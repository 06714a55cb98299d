--------------------------- MODULE MCProfileStore ---------------------------
(***************************************************************************)
(* ProfileStore for TLC: two hosts of the configuration, one of which may  *)
(* be reached through the other, and a profile typed in by hand.           *)
(***************************************************************************)
EXTENDS ProfileStore

CONSTANTS inner, outer, typed, home, away, helper

Says(login, upstream, jumps) == [login |-> login, upstream |-> upstream, jumps |-> jumps]

Hop == Says(home, Direct, {outer})
Plain == Says(home, Direct, {})
Helped == Says(home, helper, {})

ByHand(content) == [content |-> content, source |-> None]
Taken(content) == [content |-> content, source |-> content]

MCForms == {Says(away, Proxied, {outer}), Helped}

MCConfigs ==
    {[h \in {inner, outer} |-> IF h = inner THEN Hop ELSE Plain],
     [h \in {inner, outer} |-> Helped],
     [h \in {inner, outer} |-> IF h = inner THEN Hop ELSE Invalid]}

MCInitialLists ==
    {[h \in {outer, typed} |-> IF h = outer THEN Taken(Plain) ELSE ByHand(Helped)],
     [h \in {inner, outer, typed} |->
         CASE h = inner -> Taken(Hop)
           [] h = outer -> Taken(Helped)
           [] h = typed -> ByHand(Says(home, Proxied, {}))]}
=============================================================================
