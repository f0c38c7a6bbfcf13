----------------------------- MODULE MCRefresh -----------------------------
(* BlocklistRefresh with two HTTP sources and one file.                    *)
EXTENDS BlocklistRefresh, MCBlocklist

MCUrls == {"u1", "u2"}

MCConfigs == {<<"u1", "u2">>}

OneUrl == {"u1"}

OneConfig == {<<"u1">>}

MCVersions == 1 .. 2

MCBody == <<Text1, Text2, Wide, Hosts>>

\* A server that publishes a list with an overlong line, or an empty one.
WideBody == <<Text1, Wide, Text2, Hosts, Nothing>>

MoreVersions == {1, 2, 3, 5}

\* The hosts file, and one that cannot be read to its end.
MCFileContents == {3, 4}

OneFileContent == {4}

=============================================================================
