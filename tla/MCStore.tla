------------------------------ MODULE MCStore ------------------------------
(* BlocklistStore with two sources, one of which a restart may drop.       *)
EXTENDS BlocklistStore, MCBlocklist

MCUrls == {"u1", "u2"}

MCConfigs == {<<"u1", "u2">>, <<"u2">>}

\* Version 1 is a blocklist, version 2 an error page and version 3 empty.
MCVersions == 1 .. 3

MCBody == <<Text1, Page, Nothing>>

=============================================================================
