--------------------------- MODULE BlocklistParse ---------------------------
(***************************************************************************)
(* From the text of a blocklist to the names it blocks: ParseLine,         *)
(* isValidFQDN, parseReader and parseBody, NewMatcher and Match.           *)
(*                                                                         *)
(* A word is what strings.Split makes of it at its dots: a sequence of     *)
(* labels, with an empty one where two dots meet or a dot is the last      *)
(* character.  Of a label its lower-case text, its length and what it is   *)
(* made of matter: form is "lower", "mixed" (as lower, but for its case),  *)
(* "hyphen" (one at an end) or "other" (any other character).  A line is   *)
(* what is left after a byte order mark and white space at its ends:       *)
(* whether it begins with a comment mark, and its fields.                  *)
(***************************************************************************)
EXTENDS Naturals, Sequences

Labels == [text : STRING, len : Nat, form : {"lower", "mixed", "hyphen", "other"}]

Words == Seq(Labels) \ {<< >>}

Label(text, len, form) == [text |-> text, len |-> len, form |-> form]

NoLabel == Label("", 0, "lower")

NoWord == <<NoLabel>>

LowerLabel(l) == IF l.form = "mixed" THEN [l EXCEPT !.form = "lower"] ELSE l

Lower(w) == [i \in DOMAIN w |-> LowerLabel(w[i])]

\* One trailing dot is stripped.
canonicalise(w) ==
  LET l == Lower(w)
  IN IF Len(l) > 1 /\ l[Len(l)] = NoLabel THEN SubSeq(l, 1, Len(l) - 1) ELSE l

\* The characters of labels of these lengths, with a dot between any two.
Characters(lens) ==
  LET upTo[i \in 0 .. Len(lens)] == IF i = 0 THEN Len(lens) - 1 ELSE upTo[i - 1] + lens[i]
  IN upTo[Len(lens)]

Length(w) == Characters([i \in DOMAIN w |-> w[i].len])

isValidFQDN(w) ==
  /\ Length(w) <= 253
  /\ \A i \in DOMAIN w : w[i].len \in 1 .. 63 /\ w[i].form = "lower"

Digit(d) == Label(d, 1, "lower")

isHostsAnchor(w) ==
  w \in {<<Digit("0"), Digit("0"), Digit("0"), Digit("0")>>,
         <<Label("127", 3, "lower"), Digit("0"), Digit("0"), Digit("1")>>,
         <<Label("::", 2, "other")>>, <<Label("::1", 3, "other")>>}

Usable(line) ==
  /\ ~line.comment
  /\ \/ Len(line.fields) = 1
     \/ Len(line.fields) = 2 /\ isHostsAnchor(line.fields[1])
  /\ isValidFQDN(canonicalise(line.fields[Len(line.fields)]))

\* The entry of a line, if it has one.
ParseLine(line) == IF Usable(line) THEN {canonicalise(line.fields[Len(line.fields)])} ELSE {}

\* A body is a sequence of lines; overlong is the place of the first one that is
\* longer than the buffer of the scanner, or 0.
Bodies == [lines : Seq([comment : BOOLEAN, fields : Seq(Words)]), overlong : Nat]

Readable(body) == body.overlong = 0

Entries(lines) == UNION {ParseLine(lines[i]) : i \in DOMAIN lines}

\* Variant: the error of the scanner is not looked at.
parseReaderPartial(body) ==
  Entries(IF Readable(body) THEN body.lines ELSE SubSeq(body.lines, 1, body.overlong - 1))

\* A reader error takes every entry with it.
parseReader(body) == IF Readable(body) THEN Entries(body.lines) ELSE {}

\* parseBody ignores the error, but not what comes with it.
parseBody(body) == parseReader(body)

NewMatcher(entries) == {canonicalise(e) : e \in entries} \ {NoWord}

Match(set, qname) ==
  LET q == canonicalise(qname)
  IN \E i \in DOMAIN q : SubSeq(q, i, Len(q)) \in set

=============================================================================
