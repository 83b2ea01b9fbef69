-------------------------- MODULE MCLibraryTitles --------------------------
(* Instances of LibraryTitles for TLC: two mappings of a provider whose    *)
(* titles get derived ids, one of another provider, one generated id.      *)
(* Two backups: one taken after the second title was merged into the       *)
(* first, one that the preview refuses for a read state that had strayed.  *)
EXTENDS LibraryTitles, TLC

CONSTANTS a, b, x, ta, tb, tn, ca, cb

MCProvider == a :> "mangadex" @@ b :> "mangadex" @@ x :> "other"
MCAppOf == a :> ta @@ b :> tb
MCMappingOf == ca :> a @@ cb :> b

MCMerged ==
    [titles |-> ta :> [default |-> a, preferred |-> None, absorbed |-> {tb}] @@ tb :> NoTitle @@ tn :> NoTitle,
     mappings |-> a :> ta @@ b :> ta @@ x :> None,
     chapters |-> ca :> ta @@ cb :> ta,
     read |-> ca :> NoRead @@ cb :> [at |-> 1, title |-> ta],
     entries |-> ta :> [active |-> b, last |-> cb, at |-> 1] @@ tb :> NoEntry @@ tn :> NoEntry,
     undo |-> {}]

MCStrayed ==
    [MCMerged EXCEPT !.titles[ta].absorbed = {},
                     !.titles[tb] = [NoTitle EXCEPT !.default = b],
                     !.mappings[b] = tb,
                     !.chapters[cb] = tb,
                     !.entries[ta].active = a]

MCBackups == {MCMerged, MCStrayed}

=============================================================================
