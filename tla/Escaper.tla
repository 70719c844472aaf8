-------------------------------- MODULE Escaper --------------------------------
(***************************************************************************)
(* The escaping of template interpolations in what is sent to Terraform    *)
(* (HCLInterpolationEscaper of config/provider.go). The parameters of a    *)
(* resource are a tree of texts; every text that is a value is converted,  *)
(* and one that is converted again must not change. Left as they are, and  *)
(* so for Terraform to evaluate, are the directives in the values and all  *)
(* that is in the keys of maps.                                            *)
(***************************************************************************)
EXTENDS Naturals, SequencesExt

CONSTANTS
    Characters, \* what texts consist of
    NUL,        \* the character that stands for an escape in escapeHCLString
    Fields,     \* the keys of maps, texts some of which users give
    Depth,      \* how deeply maps and lists are nested
    Inputs      \* parameters to convert

VARIABLES
    given,      \* the parameters the user gave
    params,     \* the parameters after the conversions made so far
    sent        \* have they been converted for Terraform?

vars == <<given, params, sent>>

Dollar == "$"
Percent == "%"
Brace == "{"
Interpolation == <<Dollar, Brace>>
Escape == <<Dollar, Dollar, Brace>>
Directive == <<Percent, Brace>>
DirectiveEscape == <<Percent, Percent, Brace>>
Evaluated == "evaluated"    \* the value of an interpolation
Directed == "directed"      \* what a directive makes of the text

Strings == Seq(Characters)

-----------------------------------------------------------------------------
(***************************************************************************)
(* Parameters: the value of a key that is not there is Other, and so is    *)
(* any value that is neither text nor map nor list.                        *)
(***************************************************************************)

Text(s) == [kind |-> "text", text |-> s]
List(items) == [kind |-> "list", items |-> items]
Map(items) == [kind |-> "map", items |-> items]
Other == [kind |-> "other"]

Containers == {"list", "map"}

Leaves(texts) == [kind : {"text"}, text : texts] \cup {Other}
Nodes(values) ==
    [kind : {"list"}, items : Seq(values)] \cup [kind : {"map"}, items : [Fields -> values]]

\* The values whose texts are of a set and whose containers are at most d deep.
Trees(texts) ==
    LET of[d \in 0..Depth] ==
            Leaves(texts) \cup (IF d = 0 THEN {} ELSE Nodes(of[d - 1]))
    IN of

\* The function on those values that applies g to their texts, those in
\* containers of other kinds left alone, and the keys of maps too.
MapTexts(g, kinds) ==
    LET of[d \in 0..Depth] ==
            [v \in Trees(DOMAIN g)[d] |->
                IF v.kind = "text" THEN Text(g[v.text])
                ELSE IF v.kind \in kinds
                THEN [kind |-> v.kind, items |-> [f \in DOMAIN v.items |-> of[d - 1][v.items[f]]]]
                ELSE v]
    IN of

Init ==
    /\ given \in Inputs
    /\ params = given
    /\ sent = FALSE

ASSUME EscaperAssumption ==
    /\ {Dollar, Percent, Brace, NUL} \subseteq Characters
    /\ NUL \notin {Dollar, Percent, Brace}
    /\ Evaluated \notin Characters /\ Directed \notin Characters
    /\ Fields \subseteq Strings
    /\ Depth \in Nat
    /\ \A v \in Inputs : v \in Trees(Seq(Characters \ {NUL}))[Depth]

-----------------------------------------------------------------------------
(***************************************************************************)
(* The conversion                                                          *)
(***************************************************************************)

\* The rule with which the text t is rewritten from its left end: at most one
\* of the rules applies there, and otherwise a character stays.
Match(rules, t) ==
    IF \E r \in rules : IsPrefix(r.old, t)
    THEN CHOOSE r \in rules : IsPrefix(r.old, t)
    ELSE [old |-> <<Head(t)>>, new |-> <<Head(t)>>]

\* Texts rewritten from left to right, without overlaps.
Rewriting(rules) ==
    LET text[t \in Strings] ==
            IF t = <<>> THEN <<>>
            ELSE Match(rules, t).new
                     \o text[SubSeq(t, Len(Match(rules, t).old) + 1, Len(t))]
    IN text

\* strings.ReplaceAll
Replaced(s, old, new) == Rewriting({[old |-> old, new |-> new]})[s]

\* Mutant of EscapeHCLString: escapes that are there are escaped again.
EscapeEveryTime(s) == Replaced(s, Interpolation, Escape)

\* escapeHCLString: the escapes that are there are put aside.
EscapeHCLString(s) ==
    LET aside == Replaced(s, Escape, <<NUL>>)
        escaped == Replaced(aside, Interpolation, Escape)
    IN Replaced(escaped, <<NUL>>, Escape)

\* Mutant of EscapeValue: lists are left alone.
EscapeNoLists(v) == MapTexts([s \in Strings |-> EscapeHCLString(s)], {"map"})[Depth][v]

\* escapeValue and escapeMap
EscapeValue(v) == MapTexts([s \in Strings |-> EscapeHCLString(s)], Containers)[Depth][v]

\* HCLInterpolationEscaper.Convert: only what goes to Terraform is converted.
Convert(mode) ==
    /\ params' = IF mode = "ToTerraform" THEN EscapeValue(params) ELSE params
    /\ sent' = (sent \/ mode = "ToTerraform")
    /\ UNCHANGED given

Next == \E mode \in {"ToTerraform", "FromTerraform"} : Convert(mode)

Spec == Init /\ [][Next]_vars

-----------------------------------------------------------------------------
(***************************************************************************)
(* How Terraform reads a text (external): it evaluates interpolations and  *)
(* directives, and an escape of either is its two characters. What is      *)
(* between the braces is not told apart.                                   *)
(***************************************************************************)

EscapeRule == [old |-> Escape, new |-> Interpolation]
InterpolationRule == [old |-> Interpolation, new |-> <<Evaluated>>]
DirectiveRules ==
    {[old |-> DirectiveEscape, new |-> Directive],
     [old |-> Directive, new |-> <<Directed>>]}

Read(s) == Rewriting({EscapeRule, InterpolationRule} \cup DirectiveRules)[s]

\* The same with interpolations taken literally.
Literally(s) == Rewriting({EscapeRule} \cup DirectiveRules)[s]

-----------------------------------------------------------------------------
(***************************************************************************)
(* Properties                                                              *)
(***************************************************************************)

\* No interpolation is evaluated in a value that is sent, wherever in the
\* parameters it is. (Directives are, and the keys of maps are not converted.)
NoInterpolationEvaluated ==
    sent => params \in Trees({s \in Strings : Evaluated \notin ToSet(Read(s))})[Depth]

\* What Terraform reads in the values is what it would read of those the user
\* gave if interpolations were taken literally: the conversion changes the
\* meaning of nothing else, the user's escapes and directives included,
\* however often the parameters are converted.
InterpolationsReadLiterally ==
    sent => MapTexts([s \in Strings |-> Read(s)], Containers)[Depth][params]
                = MapTexts([s \in Strings |-> Literally(s)], Containers)[Depth][given]

\* Parameters that have been converted are not changed by another conversion.
ConvertedOnce == [][sent => params' = params]_vars
=============================================================================
