---------------------------- MODULE MCBlocklist ----------------------------
(* Texts of blocklists for TLC.                                            *)
EXTENDS BlocklistParse

L(text) == Label(text, 3, "lower")

Upper(text) == Label(text, 3, "mixed")

Line(fields) == [comment |-> FALSE, fields |-> fields]

Comment(fields) == [comment |-> TRUE, fields |-> fields]

Anchor == <<Digit("0"), Digit("0"), Digit("0"), Digit("0")>>

\* Every label is short enough, and the name is too long.
Lengthy == [i \in 1 .. 5 |-> Label("lengthy", 60, "lower")]

Text1 ==
  [lines |-> <<Comment(<<<<L("ads"), L("com")>>>>),
               Line(<<Anchor, <<L("ads"), Upper("org"), NoLabel>>>>),
               Line(<< >>)>>,
   overlong |-> 0]

\* As Text1, with one name more, and lines that name nothing.
Text2 ==
  [lines |-> Text1.lines \o
             <<Line(<<<<L("ads"), L("com"), NoLabel, NoLabel>>>>),
               Line(<<<<Label("-x", 2, "hyphen"), L("net")>>>>),
               Line(<<<<Label("long", 64, "lower"), L("net")>>>>),
               Line(<<Lengthy>>),
               Line(<<<<L("www")>>, <<L("net")>>>>),
               Line(<<<<L("trk"), L("net")>>>>)>>,
   overlong |-> 0]

\* An error page.
Page == [lines |-> <<Line(<<<<Label("<html>", 6, "other")>>>>)>>, overlong |-> 0]

\* A body of no bytes.
Nothing == [lines |-> << >>, overlong |-> 0]

\* A list whose second line does not fit the buffer.
Wide == [lines |-> <<Line(<<<<L("com")>>>>), Line(<< >>), Line(<<<<L("www"), L("org")>>>>)>>,
         overlong |-> 2]

Hosts == [lines |-> <<Line(<<Anchor, <<L("net")>>>>)>>, overlong |-> 0]

\* Names to ask for.
MCNames ==
  {<<L("ads"), L("com")>>, <<Upper("ads"), L("org"), NoLabel>>, <<L("www"), L("ads"), L("org")>>,
   <<L("org")>>, <<L("www"), L("org")>>, <<L("trk"), L("net")>>, <<L("www"), L("net")>>,
   <<L("net")>>, NoWord, Lengthy}

=============================================================================
