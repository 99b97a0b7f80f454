---------------------------- MODULE MCBookOrbit ----------------------------
EXTENDS BookOrbit

MCDesired == <<"comics", "books">>
MCMode == [registration |-> "blind", mapping |-> "lazy", old |-> "obsolete",
           sabnzbd |-> "typed", prowlarr |-> "upsert"]
MCGroups == << <<"registration">>, <<"mapping", "old">>, <<"prowlarr">>, <<"sabnzbd">> >>

Conf(ready, copies, roster) ==
    [ready |-> ready, entries |-> copies, role |-> [u \in Users |-> "reader"],
     roster |-> roster, file |-> "none", adapter |-> FALSE, auto |-> FALSE]
Moving(c) == [c EXCEPT !.file = "moved", !.adapter = TRUE, !.auto = TRUE]
Nothing == [e \in DOMAIN MCMode |-> <<>>]
Library(i, n, fits) == [id |-> i, name |-> n, fits |-> fits, cron |-> FALSE]

(* A fresh install, one that was run by hand, and two that are refused.    *)
MCInstalls ==
    {[libs |-> {}, next |-> 1, access |-> {}, defaults |-> {},
      conf |-> Conf(FALSE, Nothing, <<"u1">>)],
     [libs |-> {Library(1, "comics", TRUE), Library(2, "podcasts", TRUE)}, next |-> 3,
      access |-> {[lib |-> 1, user |-> "u2", level |-> "editor"]}, defaults |-> {2},
      conf |-> Moving(Conf(TRUE, [e \in DOMAIN MCMode |-> <<"stale">>], <<"u1", "u2">>))],
     [libs |-> {Library(1, "podcasts", TRUE), Library(2, "books", FALSE)}, next |-> 3,
      access |-> {}, defaults |-> {},
      conf |-> Conf(TRUE, Nothing, <<>>)],
     [libs |-> {}, next |-> 1, access |-> {}, defaults |-> {},
      conf |-> Conf(TRUE, [Nothing EXCEPT !["sabnzbd"] = <<"other">>], <<>>)]}
=============================================================================
