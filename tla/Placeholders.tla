--------------------------- MODULE Placeholders ----------------------------
(***************************************************************************)
(* The text of a template (src/src/domain/templates.rs): what parse_body   *)
(* finds in it when it is saved, and what render_indexed makes of it when  *)
(* an order is delivered or the administrator previews it.  The two scan   *)
(* the text each for itself.  A text grows sign by sign, so that every     *)
(* text up to the bound is a state; "v" stands for the name of a variable  *)
(* of the system, "k" for that of a card, "c" for a custom one.            *)
(***************************************************************************)
EXTENDS Naturals, Sequences, SequencesExt

CONSTANTS Signs, MaxText   \* bound: the longest text

ASSUME PlaceholdersAssumption == MaxText \in Nat /\ "secret" \notin Signs

VARIABLE text

Keys == {"k", "c"}
Names == Keys \cup {"v"}

TextInit == text = <<>>
TextNext == Len(text) < MaxText /\ \E sign \in Signs : text' = Append(text, sign)
PlaceholdersTypeOK == text \in Seq(Signs)

-----------------------------------------------------------------------------
Opens(t, i) == i < Len(t) /\ t[i] = "{" /\ t[i + 1] = "{"

\* Where "}}" is found behind an opening: the first is its closing.
Closings(t, i) == {j \in (i + 2)..(Len(t) - 1) : t[j] = "}" /\ t[j + 1] = "}"}

\* Mutant of Closing: the last one is taken.
LastClosing(t, i) == Max(Closings(t, i))
Closing(t, i) == Min(Closings(t, i))

Trimmed(s) ==
    LET full == {i \in DOMAIN s : s[i] # " "}
    IN  IF full = {} THEN <<>> ELSE SubSeq(s, Min(full), Max(full))

\* parse_var of what stands between: an error if it is no name.
NameAt(t, i) == Trimmed(SubSeq(t, i + 2, Closing(t, i) - 1))
IsName(s) == Len(s) = 1 /\ s[1] \in Names

Bad == [ok |-> FALSE, names |-> <<>>]

\* parse_body: the names in their order, or the first error.  `p` is what is found
\* behind the sign.
ParseSign(t, p, i) ==
    IF i > Len(t) THEN [ok |-> TRUE, names |-> <<>>]
    ELSE IF ~Opens(t, i) THEN p[i + 1]
    ELSE IF Closings(t, i) = {} \/ ~IsName(NameAt(t, i)) THEN Bad
    ELSE LET rest == p[Closing(t, i) + 2]
         IN  IF rest.ok THEN [rest EXCEPT !.names = NameAt(t, i) \o @] ELSE Bad

ParsedFrom(t) == LET p[i \in 1..(Len(t) + 1)] == ParseSign(t, p, i) IN p
Parsed(t) == ParsedFrom(t)[1]

KeysOf(t) == ToSet(Parsed(t).names) \cap Keys

\* The text of a card and the value of a custom variable are anybody's: here
\* they look like placeholders.
ValueOf(name, mask) ==
    CASE name = "v" -> <<"buyer">>
      [] name = "k" -> IF mask THEN <<"[card]">> ELSE <<"{", "{", "v", "}", "}", "secret">>
      [] OTHER -> <<"{", "{", "k", "}", "}">>

Failed == [ok |-> FALSE, out |-> <<>>]

\* render_indexed, with the variables in `given`.
RenderSign(t, given, mask, r, i) ==
    IF i > Len(t) THEN [ok |-> TRUE, out |-> <<>>]
    ELSE IF ~Opens(t, i)
    THEN IF r[i + 1].ok THEN [r[i + 1] EXCEPT !.out = <<t[i]>> \o @] ELSE Failed
    ELSE IF Closings(t, i) = {} \/ ~IsName(NameAt(t, i)) THEN Failed
    ELSE LET name == NameAt(t, i)[1]
             rest == r[Closing(t, i) + 2]
         IN  IF rest.ok /\ name \in given \cup {"v"}
             THEN [rest EXCEPT !.out = ValueOf(name, mask) \o @] ELSE Failed

RenderedFrom(t, given, mask) ==
    LET r[i \in 1..(Len(t) + 1)] == RenderSign(t, given, mask, r, i) IN r
Rendered(t, given, mask) == RenderedFrom(t, given, mask)[1]

-----------------------------------------------------------------------------
\* What was accepted when it was saved is rendered when it is delivered if the
\* variables it asks for are given, and only then: none is asked for that
\* extract_keys has not named.
RendersWhatItParsed ==
    \A given \in SUBSET Keys, mask \in BOOLEAN :
        Rendered(text, given, mask).ok <=> Parsed(text).ok /\ KeysOf(text) \subseteq given

\* A text is rendered part by part, wherever it is cut but within braces: no
\* value is looked into for placeholders, and nothing of it joins what follows.
RendersByParts ==
    \A n \in 0..Len(text) :
        LET front == SubSeq(text, 1, n)
            back == SubSeq(text, n + 1, Len(text))
        IN  Parsed(front).ok /\ Parsed(back).ok
                /\ ~(n \in 1..(Len(text) - 1) /\ Opens(text, n))
            => Rendered(text, Keys, FALSE).out =
                   Rendered(front, Keys, FALSE).out \o Rendered(back, Keys, FALSE).out

\* The preview shows nothing of a card.
PreviewIsMasked == "secret" \notin ToSet(Rendered(text, Keys, TRUE).out)

PlaceholdersSafe == RendersWhatItParsed /\ RendersByParts /\ PreviewIsMasked
=============================================================================
