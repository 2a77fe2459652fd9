---------------------------- MODULE TextCleanup ----------------------------
(***************************************************************************)
(* The suggestions for a dictated text (src/grammar.rs).  A text is a      *)
(* sequence of characters, and a span lies between two of its places, so   *)
(* that the offsets, which the code counts in bytes, are always those of a *)
(* whole character.  The fingerprint of a report is left out.              *)
(***************************************************************************)
EXTENDS Integers, Sequences, SequencesExt, FiniteSetsExt

CONSTANTS
  Alphabet,  \* characters of a text
  MaxLength  \* bound of its length

\* One or two characters of each class that the rules tell apart.
Horizontal  == {" ", "tab"}
Blank       == Horizontal \cup {"nl"}
Lower       == {"a", "b"}
Upper       == {"A", "B"}
Letters     == Lower \cup Upper
Terminators == {".", "!"}
Collapsible == {",", ":", "!"}
Punctuation == Terminators \cup Collapsible
Opening     == {"("}
Characters  == Blank \cup Letters \cup Punctuation \cup Opening \cup {"/"}

CleanupAssumption == Alphabet \subseteq Characters /\ MaxLength \in Nat

Texts == UNION {[1..n -> Alphabet] : n \in 0..MaxLength}

Capital == [c \in Lower |-> IF c = "a" THEN "A" ELSE "B"]
InCapitals(c) == IF c \in Lower THEN Capital[c] ELSE c
IgnoreCase(t) == [i \in DOMAIN t |-> InCapitals(t[i])]

VARIABLES text, report

vars == <<text, report>>

NoReport == [clean |-> TRUE, edits |-> <<>>, suggested |-> <<>>]

-----------------------------------------------------------------------------
(***************************************************************************)
(* Spans.                                                                  *)
(***************************************************************************)

Within(t, span) == SubSeq(t, span.start + 1, span.end)

Overlaps(a, b) == a.start < b.end /\ b.start < a.end

\* The longest spans of t whose characters are all in chars.
Runs(t, chars) ==
  LET In(i) == t[i] \in chars IN
  {span \in [start : 0..Len(t), end : 0..Len(t)] :
     /\ span.start < span.end
     /\ \A i \in span.start + 1..span.end : In(i)
     /\ span.start = 0 \/ ~ In(span.start)
     /\ span.end = Len(t) \/ ~ In(span.end + 1)}

TokenSpans(t) == Runs(t, Characters \ Blank)

\* Of the protected tokens (addresses of any kind) those with a scheme.
ProtectedSpans(t) ==
  {span \in TokenSpans(t) : \E i \in span.start + 1..span.end - 2 :
     <<t[i], t[i + 1], t[i + 2]>> = <<":", "/", "/">>}

\* normalized_word: a token without the punctuation around it, if it has a letter.
HasWord(t, token) == \E i \in token.start + 1..token.end : t[i] \in Letters

Word(t, token) ==
  LET inner == {i \in token.start + 1..token.end : t[i] \notin Punctuation}
  IN [start |-> Min(inner) - 1, end |-> Max(inner)]

-----------------------------------------------------------------------------
(***************************************************************************)
(* The rules.                                                              *)
(***************************************************************************)

Edit(span, replacement, safe, priority) ==
  [start |-> span.start, end |-> span.end, replacement |-> replacement,
   safe |-> safe, priority |-> priority]

OuterWhitespace(t) ==
  {Edit(run, <<>>, TRUE, 0) : run \in {r \in Runs(t, Horizontal) : r.start = 0 \/ r.end = Len(t)}}

\* Two tokens with nothing but blanks between them.
Adjacent(t) ==
  {pair \in TokenSpans(t) \X TokenSpans(t) :
     /\ pair[1].end < pair[2].start
     /\ \A i \in pair[1].end + 1..pair[2].start : t[i] \in Blank}

\* Mutant: a word may be repeated on the next line.
RepeatedWords_AcrossLines(t) ==
  {Edit([start |-> pair[1].end, end |-> Word(t, pair[2]).end], <<>>, FALSE, 1) :
     pair \in {p \in Adjacent(t) :
                 /\ HasWord(t, p[1]) /\ HasWord(t, p[2])
                 /\ IgnoreCase(Within(t, Word(t, p[1]))) = IgnoreCase(Within(t, Word(t, p[2])))
                 /\ Word(t, p[2]).start = p[2].start}}

\* Mutant: words that begin alike are taken for the same.
RepeatedWords_SameStart(t) ==
  {Edit([start |-> pair[1].end, end |-> Word(t, pair[2]).end], <<>>, FALSE, 1) :
     pair \in {p \in Adjacent(t) :
                 /\ HasWord(t, p[1]) /\ HasWord(t, p[2])
                 /\ t[Word(t, p[1]).start + 1] = t[Word(t, p[2]).start + 1]
                 /\ ~ Contains(SubSeq(t, p[1].end + 1, p[2].start), "nl")
                 /\ Word(t, p[2]).start = p[2].start}}

RepeatedWords(t) ==
  {Edit([start |-> pair[1].end, end |-> Word(t, pair[2]).end], <<>>, FALSE, 1) :
     pair \in {p \in Adjacent(t) :
                 /\ HasWord(t, p[1]) /\ HasWord(t, p[2])
                 /\ IgnoreCase(Within(t, Word(t, p[1]))) = IgnoreCase(Within(t, Word(t, p[2])))
                 /\ ~ Contains(SubSeq(t, p[1].end + 1, p[2].start), "nl")
                 /\ Word(t, p[2]).start = p[2].start}}

\* Mutant: the punctuation goes with the blanks.
PunctuationSpacing_OneMore(t) ==
  {Edit([run EXCEPT !.end = @ + 1], <<>>, TRUE, 2) :
     run \in {r \in Runs(t, Horizontal) : r.end < Len(t) /\ t[r.end + 1] \in Punctuation}}

PunctuationSpacing(t) ==
  {Edit(run, <<>>, TRUE, 2) :
     run \in {r \in Runs(t, Horizontal) : r.end < Len(t) /\ t[r.end + 1] \in Punctuation}}

RepeatedPunctuation(t) ==
  UNION {{Edit(run, <<c>>, FALSE, 3) : run \in {r \in Runs(t, {c}) : r.end - r.start > 1}} :
           c \in Collapsible}

RepeatedWhitespace(t) ==
  {Edit(run, <<" ">>, FALSE, 4) :
     run \in {r \in Runs(t, Horizontal) :
                r.end - r.start > 1 /\ r.start > 0 /\ r.end < Len(t) /\ t[r.start] # "nl"}}

\* Whether a sentence may begin after the first i characters.
SentenceMayStart(t) ==
  LET Protected(i) == \E span \in ProtectedSpans(t) : span.start < i /\ i <= span.end
      may[i \in 0..Len(t)] ==
        IF i = 0 THEN TRUE
        ELSE /\ ~ Protected(i)
             /\ IF may[i - 1] THEN t[i] \in Blank \cup Opening ELSE t[i] \in Terminators
  IN may

SentenceCase(t) ==
  {Edit([start |-> i - 1, end |-> i], <<Capital[t[i]]>>, FALSE, 5) :
     i \in {j \in 1..Len(t) :
              /\ t[j] \in Lower /\ SentenceMayStart(t)[j - 1]
              /\ \A span \in ProtectedSpans(t) : ~ (span.start < j /\ j <= span.end)}}

-----------------------------------------------------------------------------
(***************************************************************************)
(* check and apply_edits.                                                  *)
(***************************************************************************)

Candidates(t) ==
  OuterWhitespace(t) \cup RepeatedWords(t) \cup PunctuationSpacing(t)
  \cup RepeatedPunctuation(t) \cup RepeatedWhitespace(t) \cup SentenceCase(t)

\* The key that candidates are sorted by.
Before(a, b) ==
  \/ a.priority < b.priority
  \/ a.priority = b.priority /\ a.start < b.start
  \/ a.priority = b.priority /\ a.start = b.start /\ a.end < b.end

\* Mutant: only the candidate before is compared.
Selected_Neighbours(candidates) ==
  LET c == SetToSortSeq(candidates, Before)
  IN {c[i] : i \in {j \in DOMAIN c : j = 1 \/ ~ Overlaps(c[j - 1], c[j])}}

\* In that order, whatever overlaps nothing that is kept already.
Selected(candidates) ==
  CHOOSE kept \in SUBSET candidates :
    \A c \in candidates : c \in kept <=> ~ \E k \in kept : Before(k, c) /\ Overlaps(k, c)

\* Sorted by their start: before the i-th edit there are i - 1.
InOrder(edits) ==
  [i \in 1..Cardinality(edits) |->
     CHOOSE e \in edits : Cardinality({f \in edits : f.start < e.start}) = i - 1]

\* apply_edits accepts them.
Applicable(t, edits) ==
  \A i \in DOMAIN edits :
    /\ edits[i].start <= edits[i].end /\ edits[i].end <= Len(t)
    /\ i > 1 => edits[i - 1].end <= edits[i].start

\* How far the text is copied after the first k edits.
Cursor(edits, k) == IF k = 0 THEN 0 ELSE edits[k].end

Applied(t, edits) ==
  LET Rest(k, next) == SubSeq(t, Cursor(edits, k) + 1, next)
      output[k \in 0..Len(edits)] ==
        IF k = 0 THEN <<>>
        ELSE output[k - 1] \o Rest(k - 1, edits[k].start) \o edits[k].replacement
  IN output[Len(edits)] \o Rest(Len(edits), Len(t))

\* Edits that do not apply leave the text as it is.
Report(t) ==
  LET edits == InOrder(Selected(Candidates(t)))
  IN [clean |-> edits = <<>>, edits |-> edits,
      suggested |-> IF Applicable(t, edits) THEN Applied(t, edits) ELSE t]

CleanupInit == text \in Texts /\ report = NoReport

Check == report = NoReport /\ report' = Report(text) /\ UNCHANGED text

CleanupSpec == CleanupInit /\ [][Check]_vars

-----------------------------------------------------------------------------
(***************************************************************************)
(* Properties.                                                             *)
(***************************************************************************)

Edits == ToSet(report.edits)

\* The edits of a report can be applied together, to the text they were made for.
EditsApply == Applicable(text, report.edits)

\* "Newlines [...] are preserved" (docs/implementation-layers.md:188).
NewlinesArePreserved ==
  \A e \in Edits : ~ Contains(Within(text, e), "nl")

\* An edit that counts as safe removes blanks, and nothing else; all others need
\* a review (docs/implementation-layers.md:189).
SafeEditsOnlyRemoveBlanks ==
  \A e \in Edits : e.safe => e.replacement = <<>> /\ \A c \in ToSet(Within(text, e)) : c \in Horizontal

\* The letters of a text, one after the other, whatever their case.
Said(t) ==
  LET upTo[i \in 0..Len(t)] ==
        IF i = 0 THEN <<>>
        ELSE upTo[i - 1] \o (IF t[i] \in Letters THEN <<InCapitals(t[i])>> ELSE <<>>)
  IN upTo[Len(t)]

\* Nothing that was said is lost but its repetition: the letters of each word are
\* still there, next to each other, whichever edits go together.
WordsSurvive ==
  report # NoReport =>
    \A token \in TokenSpans(text) :
      LET word == Said(Within(text, token))
          all  == Said(report.suggested)
      IN \E i \in 0..Len(all) - Len(word) : SubSeq(all, i + 1, i + Len(word)) = word
=============================================================================
