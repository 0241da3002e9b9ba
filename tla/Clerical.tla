------------------------------- MODULE Clerical -------------------------------
(***************************************************************************)
(* What happens to an identity in a company's files before matching.py     *)
(* sees it ("Company records contain typos"): a clerk copies it in another *)
(* format, and mistypes it, step by step.  The clerk is not part of the    *)
(* program; the properties say what canonicalisation, fingerprint and edit *)
(* distance make of the copy.                                              *)
(***************************************************************************)
EXTENDS Matching

CONSTANTS
  Originals,   \* the identities clerks copy
  Letters,     \* what a clerk may type for a letter
  lookalikes,  \* per field, pairs of characters that differ in format only
  Marks,       \* the apostrophes a clerk may use
  MaxSteps     \* bound on what a clerk does to a copy

ASSUME OriginalsAssumption ==
  Originals \subseteq Identity /\ Letters \cup Marks \subseteq Chars /\ MaxSteps \in Nat

\* What is to become of a character in a name or an address, and in a postcode.
Plain(c) ==
  LET letters == Mapped(casefold, Without(strip[c], Apostrophes))
  IN  [i \in DOMAIN letters |-> IF letters[i] \in Punctuation THEN Space ELSE letters[i]]

Bare(c) == IF c \in Punctuation THEN <<>> ELSE Without(upper[c], {Space})

\* What is used of Unicode: nothing folds twice; white space folds to white
\* space, a letter to one character and an apostrophe to nothing; and the words
\* of the address table have no white space and nothing that folds.
ASSUME FoldingAssumption ==
  /\ \A c \in Chars : \A d \in ToSet(Plain(c)) : Plain(d) = <<d>>
  /\ \A c \in Spaces : \E d \in Spaces : Plain(c) = <<d>>
  /\ Plain(Space) = <<Space>>
  /\ \A c \in Letters : \E d \in Chars \ Spaces : Plain(c) = <<d>>
  /\ \A c \in Marks : Plain(c) = <<>>
  /\ \A w \in DOMAIN substitutions :
       /\ substitutions[w] \notin DOMAIN substitutions
       /\ \A c \in ToSet(w) \cup ToSet(substitutions[w]) : c \notin Spaces /\ Plain(c) = <<c>>

\* The same for the characters of postcodes.  (Of all of Unicode, 26 become two
\* in upper case, of which the second counts as punctuation.)
PostcodeChars ==
  Marks \cup {Space} \cup {pair[2] : pair \in lookalikes["postcode"]}
    \cup UNION {ToSet(o.postcode) : o \in Originals}

ASSUME PostcodeAssumption ==
  /\ \A c \in PostcodeChars \ Punctuation : \A d \in ToSet(upper[c]) :
       d \notin Punctuation /\ upper[d] = <<d>>
  /\ \A c \in Marks \cup {Space} : Bare(c) = <<>>

\* What the clerk takes for the same character but for its format.
ASSUME LookalikesAssumption ==
  /\ \A f \in {"given_name", "family_name", "address"} : \A pair \in lookalikes[f] :
       Plain(pair[1]) = Plain(pair[2])
  /\ \A pair \in lookalikes["postcode"] : Bare(pair[1]) = Bare(pair[2])

VARIABLES
  original, held,  \* the identity and the company's copy
  before, last,    \* the copy before the last step, and what that was
  typos,           \* single-letter errors in the family name
  steps

clerk == <<original, held, before, last, typos, steps>>

Filed ==
  /\ original \in Originals
  /\ held = original /\ before = original /\ last = "copy"
  /\ typos = 0
  /\ steps = 0

Step(what) ==
  /\ steps < MaxSteps /\ steps' = steps + 1
  /\ before' = held /\ last' = what
  /\ UNCHANGED original

-----------------------------------------------------------------------------
(* Formatting.                                                             *)

\* Case, accents, hyphens: a character for one that looks like it.
Restyle(f, i, c) ==
  /\ <<held[f][i], c>> \in lookalikes[f]
  /\ held' = [held EXCEPT ![f] = ReplaceAt(@, i, c)]

\* An apostrophe more, anywhere.
Apostrophise(f, i, c) == held' = [held EXCEPT ![f] = InsertAt(@, i, c)]

\* A space more: at the beginning or before another one, in a postcode anywhere.
SpaceOut(f, i) ==
  /\ f = "postcode" \/ i = 1 \/ held[f][i] \in Spaces
  /\ held' = [held EXCEPT ![f] = InsertAt(@, i, Space)]

\* The address with its first word moved to the end, or abbreviated.
Rephrase ==
  LET ws == Words(held.address)
  IN  /\ ws # <<>>
      /\ \E w \in {ws[1]} \cup {v \in DOMAIN substitutions : substitutions[v] = ws[1]} :
           held' = [held EXCEPT !.address = Joined(Tail(ws) \o <<w>>)]

Reformat ==
  /\ Step("reformat")
  /\ UNCHANGED typos
  /\ \/ \E f \in DOMAIN held : \E i \in DOMAIN held[f] :
          \/ \E c \in Chars : Restyle(f, i, c)
          \/ \E c \in Marks : Apostrophise(f, i, c)
          \/ SpaceOut(f, i)
     \/ Rephrase

-----------------------------------------------------------------------------
(* Errors.                                                                 *)

IsLetter(i) == i \in DOMAIN held.family_name /\ held.family_name[i] \in Letters

\* A wrong letter, a letter too many, a letter too few; next to another letter,
\* so that no word appears or disappears.
Mistype ==
  /\ Step("mistype")
  /\ typos' = typos + 1
  /\ \E i \in DOMAIN held.family_name :
       /\ IsLetter(i)
       /\ \/ \E c \in Letters :
               \/ held' = [held EXCEPT !.family_name = ReplaceAt(@, i, c)]
               \/ held' = [held EXCEPT !.family_name = InsertAt(@, i, c)]
          \/ /\ IsLetter(i + 1)
             /\ held' = [held EXCEPT !.family_name = RemoveAt(@, i)]

\* Two letters inside the family name change places.
Transpose ==
  /\ Step("transpose")
  /\ typos' = typos + 2
  /\ \E i \in DOMAIN held.family_name :
       /\ i > 1 /\ IsLetter(i - 1) /\ IsLetter(i) /\ IsLetter(i + 1)
       /\ held' = [held EXCEPT !.family_name =
                     ReplaceAt(ReplaceAt(@, i, @[i + 1]), i + 1, @[i])]

\* A wrong house or flat number.
Renumber ==
  /\ Step("renumber")
  /\ UNCHANGED typos
  /\ \E i \in DOMAIN held.address, c \in Digits :
       /\ held.address[i] \in Digits
       /\ held' = [held EXCEPT !.address = ReplaceAt(@, i, c)]

Copied == Reformat \/ Mistype \/ Transpose \/ Renumber

Copying == Filed /\ [][Copied]_clerk

-----------------------------------------------------------------------------
(* Properties.                                                             *)

Owner == canonicalise_identity(original)

Copy == canonicalise_identity(held)

CopyBefore == canonicalise_identity(before)

(***************************************************************************)
(* Canonicalisation "closes the formatting half of the problem outright":  *)
(* no reformatting, on top of whatever was done before, errors included,   *)
(* changes the canonical identity.                                         *)
(***************************************************************************)
FormattingFoldsAway == last = "reformat" => Copy = CopyBefore

(***************************************************************************)
(* A second canonicalisation changes nothing: broker and sandbox may each  *)
(* apply it.                                                               *)
(***************************************************************************)
CanonicalIsStable ==
  /\ canonicalise_name(Copy.family_name) = Copy.family_name
  /\ canonicalise_address(Copy.address) = Copy.address
  /\ canonicalise_postcode(Copy.postcode) = Copy.postcode

\* The texts one error away from text.
Neighbours(text) ==
  LET alphabet == {c \in Chars : c \in ToSet(text) \cup ToSet(Owner.family_name)}
  IN  {RemoveAt(text, i) : i \in DOMAIN text}
        \cup {ReplaceAt(text, i, c) : i \in DOMAIN text, c \in alphabet}
        \cup {InsertAt(text, i, c) : i \in 1..Len(text) + 1, c \in alphabet}

(***************************************************************************)
(* The two rows of _edit_distance never charge a surname more than the     *)
(* errors that were made in it, in whatever order, and never less: a       *)
(* distance d > 0 is one error and a distance d - 1, and only equal names  *)
(* are at distance 0.  So it is the least number of errors that explains   *)
(* the copy.                                                               *)
(***************************************************************************)
DistanceIsLeast ==
  LET a == Owner.family_name
      b == Copy.family_name
      d == edit_distance(a, b)
  IN  /\ d <= typos
      /\ d = 0 <=> a = b
      /\ d > 0 => \E c \in Neighbours(b) : edit_distance(a, c) = d - 1

(***************************************************************************)
(* "A single transposed letter inside the surname changes none of them.    *)
(* Neither does a wrong flat number": the coarse features survive both.    *)
(***************************************************************************)
BandSurvives ==
  last \in {"transpose", "renumber"} => coarse_features(Copy) = coarse_features(CopyBefore)

===============================================================================
