------------------------------- MODULE Matching -------------------------------
(***************************************************************************)
(* src/databank/matching.py: canonicalisation of identities, the lossy     *)
(* fingerprint, the selection of candidates, the edit distance, and the    *)
(* algorithm behind identity.matches_owner.                                *)
(*                                                                         *)
(* Text is a sequence of characters.  What Unicode and HMAC do is given by *)
(* constants; scores are exact fractions, and where the program's floating *)
(* point sum may fall on either side of the threshold, the answer is free. *)
(***************************************************************************)
EXTENDS Naturals, SequencesExt

CONSTANTS
  Chars,        \* the characters that occur
  Apostrophes, Punctuation, Spaces, Digits, Capitals,  \* classes of them
  Space,        \* the character ' '
  strip,        \* a character without its accents: NFKD, combining marks removed
  casefold,     \* a character without its case
  upper,        \* a character in upper case
  codepoint,    \* the order of characters
  substitutions, \* _ADDRESS_SUBSTITUTIONS: words to words
  Versions, CANONICALISATION_VERSION,
  digest(_, _), \* HMAC of a salt and features, as a number of WORD bits
  WORD, MIN_BITS, FINGERPRINT_BITS,
  NoThreshold   \* an absent threshold

ASSUME CharsAssumption ==
  /\ Apostrophes \cup Punctuation \cup Spaces \cup Digits \cup Capitals \subseteq Chars
  /\ Space \in Spaces
  /\ strip \in [Chars -> Seq(Chars)]
  /\ casefold \in [Chars -> Seq(Chars)]
  /\ upper \in [Chars -> Seq(Chars)]

ASSUME WordsAssumption ==
  /\ \A w \in DOMAIN substitutions : w # <<>> /\ {w, substitutions[w]} \subseteq Seq(Chars)
  /\ codepoint \in [Chars -> Nat]
  /\ \A c, d \in Chars : codepoint[c] = codepoint[d] => c = d

ASSUME WidthAssumption ==
  /\ WORD \in Nat /\ MIN_BITS \in 1..FINGERPRINT_BITS /\ FINGERPRINT_BITS \in 1..WORD
  /\ CANONICALISATION_VERSION \in Versions

-----------------------------------------------------------------------------
(* Canonicalisation.                                                       *)

\* The text with every character c replaced by f[c].
Mapped(f, text) == FlattenSeq([i \in DOMAIN text |-> f[text[i]]])

Without(text, C) == Mapped([c \in Chars |-> IF c \in C THEN <<>> ELSE <<c>>], text)

\* A plausible mistake: accents are kept.
FoldedAccented(text) ==
  LET folded == Mapped(casefold, Without(text, Apostrophes))
  IN  [i \in DOMAIN folded |-> IF folded[i] \in Punctuation THEN Space ELSE folded[i]]

\* Accents, apostrophes, case and punctuation, in the order the two
\* functions for names and addresses remove them.
Folded(text) ==
  LET folded == Mapped(casefold, Without(Mapped(strip, text), Apostrophes))
  IN  [i \in DOMAIN folded |-> IF folded[i] \in Punctuation THEN Space ELSE folded[i]]

\* A word begins at place i.
Begins(text, i) == text[i] \notin Spaces /\ (i = 1 \/ text[i - 1] \in Spaces)

\* The word that begins at place i: up to the next white space.
WordAt(text, i) ==
  SubSeq(text, i, Max({j \in i..Len(text) : \A k \in i..j : text[k] \notin Spaces}))

\* str.split(): the words between runs of white space.
Words(text) ==
  FlattenSeq([i \in DOMAIN text |-> IF Begins(text, i) THEN <<WordAt(text, i)>> ELSE <<>>])

\* " ".join(words)
Joined(words) ==
  FlattenSeq([i \in DOMAIN words |-> IF i = 1 THEN words[i] ELSE <<Space>> \o words[i]])

\* Replacing runs of white space by one space and stripping the ends.
canonicalise_name(name) == Joined(Words(Folded(name)))

\* Lexicographic order by code point.
Precedes(v, w) ==
  \E n \in 0..Len(v) :
    /\ n <= Len(w) /\ \A i \in 1..n : v[i] = w[i]
    /\ \/ n = Len(v) /\ n < Len(w)
       \/ n < Len(v) /\ n < Len(w) /\ codepoint[v[n + 1]] < codepoint[w[n + 1]]

\* sorted(words): the k-th has fewer than k words before it, and k that do not
\* come after it.
Sorted(words) ==
  [k \in DOMAIN words |->
    CHOOSE w \in ToSet(words) :
      /\ Cardinality({i \in DOMAIN words : Precedes(words[i], w)}) < k
      /\ Cardinality({i \in DOMAIN words : ~Precedes(w, words[i])}) >= k]

Expanded(w) == IF w \in DOMAIN substitutions THEN substitutions[w] ELSE w

\* The words expanded, those that expand to nothing left out.
Tokens(words) ==
  FlattenSeq([i \in DOMAIN words |->
    IF Expanded(words[i]) = <<>> THEN <<>> ELSE <<Expanded(words[i])>>])

\* A plausible mistake: the tokens are sorted before they are expanded.
canonicalise_address_early(address) == Joined(Tokens(Sorted(Words(Folded(address)))))

canonicalise_address(address) == Joined(Sorted(Tokens(Words(Folded(address)))))

canonicalise_postcode(postcode) ==
  Without(Mapped(upper, Without(postcode, Punctuation)), {Space})

Text == Seq(Chars)

Identity ==
  [given_name : Text, family_name : Text, address : Text, postcode : Text]

parts(c) == <<c.given_name, c.family_name, c.address, c.postcode>>

\* canonicalise_identity of a package of the given version.
CanonicalisedAt(version, identity) ==
  [given_name  |-> canonicalise_name(identity.given_name),
   family_name |-> canonicalise_name(identity.family_name),
   address     |-> canonicalise_address(identity.address),
   postcode    |-> canonicalise_postcode(identity.postcode),
   version     |-> version]

canonicalise_identity(identity) == CanonicalisedAt(CANONICALISATION_VERSION, identity)

-----------------------------------------------------------------------------
(* The fingerprint.                                                        *)

\* [A-Z]{1,2}\d{1,2}[A-Z]?
IsDistrict(w) ==
  \E letters, digits \in 1..2 :
    /\ Len(w) \in letters + digits .. letters + digits + 1
    /\ \A i \in DOMAIN w :
         w[i] \in IF i \in letters + 1 .. letters + digits THEN Digits ELSE Capitals

\* What the expression matches at the beginning of a postcode: as much as it
\* can, or nothing.
District(postcode) ==
  LET n == Max({0} \cup {i \in DOMAIN postcode : IsDistrict(SubSeq(postcode, 1, i))})
  IN  SubSeq(postcode, 1, n)

\* A plausible mistake: three letters of the family name, not one.
features_fine(canonical) ==
  <<canonical.version, District(canonical.postcode),
    SubSeq(canonical.family_name, 1, 3), Len(canonical.family_name) \div 3>>

coarse_features(canonical) ==
  <<canonical.version, District(canonical.postcode),
    SubSeq(canonical.family_name, 1, 1), Len(canonical.family_name) \div 3>>

\* The leading bits of the digest; bits is in MIN_BITS..WORD, or fingerprint
\* raises ValueError.
fingerprint(canonical, salt, bits) ==
  digest(salt, coarse_features(canonical)) \div 2^(WORD - bits)

\* A plausible mistake: the broadcast is compared at the narrowest width.
SelectedNarrowly(canonical, band, salt, bits) ==
  fingerprint(canonical, salt, MIN_BITS) = band \div 2^(bits - MIN_BITS)

\* select_candidates keeps a record.
Selected(canonical, band, salt, bits) == fingerprint(canonical, salt, bits) = band

-----------------------------------------------------------------------------
(* Similarity.                                                             *)

\* A plausible mistake: the diagonal is read from the row being written.
next_row_aliased(a, b, previous, i) ==
  LET current[j \in 0..Len(b)] ==
        IF j = 0 THEN i
        ELSE Min({previous[j] + 1, current[j - 1] + 1,
                  current[j - 1] + IF a[i] # b[j] THEN 1 ELSE 0})
  IN  [j \in 0..Len(b) |-> current[j]]

\* The row of letter i of a, from the row before it.
next_row(a, b, previous, i) ==
  LET current[j \in 0..Len(b)] ==
        IF j = 0 THEN i
        ELSE Min({previous[j] + 1, current[j - 1] + 1,
                  previous[j - 1] + IF a[i] # b[j] THEN 1 ELSE 0})
  IN  [j \in 0..Len(b) |-> current[j]]

\* The row after every letter of a.
last_row(a, b) ==
  LET row[i \in 0..Len(a)] ==
        IF i = 0 THEN [j \in 0..Len(b) |-> j] ELSE next_row(a, b, row[i - 1], i)
  IN  row[Len(a)]

edit_distance(a, b) ==
  IF a = b THEN 0
  ELSE IF a = <<>> \/ b = <<>> THEN Len(a) + Len(b)
  ELSE last_row(a, b)[Len(b)]

\* The length field_similarity divides by; two empty fields agree.
Longest(a, b) == Max({1, Len(a), Len(b)})

FIELD_WEIGHTS == <<15, 35, 20, 30>>

MATCH_THRESHOLD == 86

\* The weighted similarity, in hundredths, as a fraction.
similarity(a, b) ==
  LET x == parts(a)
      y == parts(b)
      n == [f \in 1..4 |-> Longest(x[f], y[f])]
      alike == [f \in 1..4 |-> FIELD_WEIGHTS[f] * (n[f] - edit_distance(x[f], y[f]))]
  IN  [num |-> alike[1] * n[2] * n[3] * n[4] + n[1] * alike[2] * n[3] * n[4]
                 + n[1] * n[2] * alike[3] * n[4] + n[1] * n[2] * n[3] * alike[4],
       den |-> n[1] * n[2] * n[3] * n[4]]

\* How `similarity(a, b) >= MATCH_THRESHOLD` may come out.
Comparisons(a, b) ==
  LET score == similarity(a, b)
  IN  IF score.num > MATCH_THRESHOLD * score.den THEN {TRUE}
      ELSE IF score.num < MATCH_THRESHOLD * score.den THEN {FALSE}
      ELSE BOOLEAN

\* A plausible mistake: a threshold in the parameters is used, not refused.
OutcomesAtAnyThreshold(identity, candidate, salt, threshold) ==
  LET canonical == canonicalise_identity(identity)
  IN  IF fingerprint(canonical, salt, FINGERPRINT_BITS)
         # fingerprint(candidate, salt, FINGERPRINT_BITS) THEN {"refused"}
      ELSE IF canonical.version # candidate.version THEN {"value_error"}
      ELSE {IF match THEN "true" ELSE "false" : match \in Comparisons(canonical, candidate)}

\* A plausible mistake: identities of two versions are compared.
OutcomesAcrossVersions(identity, candidate, salt, threshold) ==
  LET canonical == canonicalise_identity(identity)
  IN  IF \/ threshold # NoThreshold
         \/ fingerprint(canonical, salt, FINGERPRINT_BITS)
              # fingerprint(candidate, salt, FINGERPRINT_BITS) THEN {"refused"}
      ELSE {IF match THEN "true" ELSE "false" : match \in Comparisons(canonical, candidate)}

\* How identity_matches(identity, candidate, salt, threshold) may end.
Outcomes(identity, candidate, salt, threshold) ==
  LET canonical == canonicalise_identity(identity)
  IN  IF threshold # NoThreshold THEN {"refused"}
      ELSE IF fingerprint(canonical, salt, FINGERPRINT_BITS)
              # fingerprint(candidate, salt, FINGERPRINT_BITS) THEN {"refused"}
      ELSE IF canonical.version # candidate.version THEN {"value_error"}
      ELSE {IF match THEN "true" ELSE "false" : match \in Comparisons(canonical, candidate)}

===============================================================================
