----------------------------- MODULE Preprocess -----------------------------
(***************************************************************************)
(* What the LLM gets to read of an article (internal/preprocess/           *)
(* preprocess.go): the sections of the article, cleaned sentence by        *)
(* sentence and, if they are too long, cut to a head and a tail.           *)
(*                                                                         *)
(* A text is a sequence of characters, of which there are few kinds; a     *)
(* boilerplate marker and a user interface word are one letter each.       *)
(***************************************************************************)
EXTENDS Integers, Sequences, FiniteSets, SequencesExt

CONSTANTS
  MaxTotalChars, HeadTailJoiner, SentenceCutTolerance,
  MinWords,         \* a fragment with fewer words is noise
  SymbolPercent     \* and so is one with a larger share of symbols

ASSUME PreprocessAssumption ==
  /\ {MaxTotalChars, SentenceCutTolerance, MinWords, SymbolPercent} \subseteq Nat
  /\ HeadTailJoiner \in Seq(STRING)

Space == " "
Marker == "m"      \* a word of boilerplateMarkers
Control == "u"     \* a word of uiControlMarkers
Terminators == {"."}        \* also ! and ?
Separators == Terminators \cup {";"}
Punctuation == Separators \cup {":"}    \* also the comma
Letters == {"w", Marker, Control}
Characters == Letters \cup Punctuation \cup {Space}

-----------------------------------------------------------------------------
\* The elements of seq at the places, in their order.
Keep(seq, places) ==
  LET kept[i \in 0..Len(seq)] ==
        IF i = 0 THEN <<>> ELSE IF i \in places THEN Append(kept[i - 1], seq[i]) ELSE kept[i - 1]
  IN kept[Len(seq)]

Inked(text) == {i \in 1..Len(text) : text[i] # Space}

TrimRight(text) ==
  IF Inked(text) = {} THEN <<>>
  ELSE SubSeq(text, 1, CHOOSE i \in Inked(text) : \A j \in Inked(text) : j <= i)

TrimLeft(text) ==
  IF Inked(text) = {} THEN <<>>
  ELSE SubSeq(text, CHOOSE i \in Inked(text) : \A j \in Inked(text) : i <= j, Len(text))

TrimSpace(text) == TrimLeft(TrimRight(text))

Join(parts, glue) ==
  LET joined[n \in 0..Len(parts)] ==
        IF n = 0 THEN <<>>
        ELSE IF joined[n - 1] = <<>> THEN parts[n] ELSE joined[n - 1] \o glue \o parts[n]
  IN joined[Len(parts)]

\* Each section that is not blank is labelled and set off by blank lines.
BuildInputText(sections) ==
  LET given == Keep(sections, {n \in DOMAIN sections : TrimSpace(sections[n]) # <<>>})
  IN Join([n \in DOMAIN given |-> <<"w", ":", Space>> \o TrimSpace(given[n])], <<Space, Space>>)

\* A blank before a word stays, if it is the first after another word.
WordFollows(text, i) ==
  /\ i > 1 /\ text[i - 1] # Space
  /\ \E j \in Inked(text) : j > i /\ text[j] \notin Punctuation
                            /\ \A l \in Inked(text) : l > i => l >= j

\* Words are set off by single spaces and punctuation follows without one.
Normalize(text) == Keep(text, Inked(text) \cup {i \in 1..Len(text) : WordFollows(text, i)})

\* Where the fragments of a text end: at a separator, the last one with the text.
Ends(text) ==
  Keep([i \in DOMAIN text |-> i], {i \in DOMAIN text : text[i] \in Separators \/ i = Len(text)})

NotEmpty(fragments) == Keep(fragments, {k \in DOMAIN fragments : fragments[k] # <<>>})

\* Mutant: the separator does not stay with its fragment.
SplitFragmentsDropping(text) ==
  LET ends == Ends(text)
      last(k) == IF text[ends[k]] \in Separators THEN ends[k] - 1 ELSE ends[k]
  IN NotEmpty([k \in DOMAIN ends |->
       TrimSpace(SubSeq(text, IF k = 1 THEN 1 ELSE ends[k - 1] + 1, last(k)))])

SplitFragments(text) ==
  LET ends == Ends(text)
  IN NotEmpty([k \in DOMAIN ends |->
       TrimSpace(SubSeq(text, IF k = 1 THEN 1 ELSE ends[k - 1] + 1, ends[k]))])

RemoveBoilerplateFragments(fragments) ==
  Keep(fragments, {k \in DOMAIN fragments : ~Contains(fragments[k], Marker)})

wordCount(fragment) ==
  Cardinality({i \in Inked(fragment) : i = 1 \/ fragment[i - 1] = Space})

isUIControlText(fragment) ==
  LET isLetter(i) == i \in 1..Len(fragment) /\ fragment[i] \in Letters
  IN \E i \in 1..Len(fragment) : fragment[i] = Control /\ ~isLetter(i - 1) /\ ~isLetter(i + 1)

hasExcessiveSymbolDensity(fragment) ==
  100 * Cardinality({i \in Inked(fragment) : fragment[i] \notin Letters}) > SymbolPercent * Len(fragment)

Noisy(fragment) ==
  wordCount(fragment) < MinWords \/ isUIControlText(fragment) \/ hasExcessiveSymbolDensity(fragment)

FilterNoisyFragments(fragments) ==
  Keep(fragments, {k \in DOMAIN fragments : ~Noisy(fragments[k])})

RebuildText(fragments) == Normalize(Join(fragments, <<Space>>))

-----------------------------------------------------------------------------
(* The cut of a text that is too long.                                     *)

Larger(i, j) == IF i < j THEN j ELSE i

Shorter(i, j) == IF i < j THEN i ELSE j

Distance(i, j) == IF i < j THEN j - i ELSE i - j

\* The end of a sentence that is nearest to the target, the first of two;
\* without one in reach, the target.
findBestSentenceBoundary(text, target) ==
  LET first == Larger(target - SentenceCutTolerance, 1)
      last == Shorter(target + SentenceCutTolerance, Len(text) - 1)
      boundaries == {i \in first..last : text[i] \in Terminators}
  IN IF target <= 0 \/ target >= Len(text) THEN Larger(0, Shorter(target, Len(text)))
     ELSE IF boundaries = {} THEN target
     ELSE CHOOSE i \in boundaries : \A j \in boundaries :
            \/ Distance(i, target) < Distance(j, target)
            \/ Distance(i, target) = Distance(j, target) /\ i <= j

available == MaxTotalChars - Len(HeadTailJoiner)

\* math.Round of three quarters
headTarget == (3 * available + 2) \div 4

tailTarget == available - headTarget

\* The characters before the tail; the search for it may not enter the head.
TailStart(text) ==
  Larger(findBestSentenceBoundary(text, headTarget),
         findBestSentenceBoundary(text, Len(text) - tailTarget))

\* Mutant: the sentence ends are trusted to be at their targets.
FittedAnyway(head, tail) == head \o HeadTailJoiner \o tail

\* A head that does not fit beside its tail is cut once more, anywhere.
Fitted(head, tail) ==
  LET allowedHead == available - Len(tail)
  IN IF Len(head) <= allowedHead THEN head \o HeadTailJoiner \o tail
     ELSE IF allowedHead < 0 THEN HeadTailJoiner \o SubSeq(tail, Len(tail) - available + 1, Len(tail))
     ELSE TrimRight(SubSeq(head, 1, allowedHead)) \o HeadTailJoiner \o tail

Cut(text) ==
  IF available <= 0 THEN SubSeq(text, 1, MaxTotalChars)
  ELSE Fitted(TrimRight(SubSeq(text, 1, findBestSentenceBoundary(text, headTarget))),
              TrimLeft(SubSeq(text, TailStart(text) + 1, Len(text))))

HeadTailExtract(text) ==
  LET trimmed == TrimSpace(text) IN IF Len(trimmed) <= MaxTotalChars THEN trimmed ELSE Cut(trimmed)

-----------------------------------------------------------------------------
Fragments(source) == SplitFragments(Normalize(source))

KeptFragments(source) == FilterNoisyFragments(RemoveBoilerplateFragments(Fragments(source)))

Cleaned(source) == RebuildText(KeptFragments(source))

Process(source) == HeadTailExtract(Cleaned(source))
=============================================================================
