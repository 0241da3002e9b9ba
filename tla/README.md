# A verification project for the Databank reference implementation

TLA+ models of `src/databank`, model-checked with TLC on small instances, with
theorems about them that the TLA+ proof system (TLAPS) checks for every value
of the constants.

A Databank holds records on behalf of *information owners*. *Requestors* send
it algorithms from a registry, never questions about raw data; an admitted
algorithm runs in a sandbox against the sealed record, a result of a few bits
leaves, and the query is put on the owner's statement. The code is a single
threaded library that keeps everything in memory: there are no threads to
interleave and no crash to recover from. What is hard in it is *sequences*:
queries, grants, withdrawals, erasures and failures in orders nobody wrote a
test for, against state (counters, a list where the first match wins, a pruned
queue) that must go on meaning what it meant.

## Inventory

| Component | State | Operations | Interacts with | What makes it correct |
|---|---|---|---|---|
| `leakage.LeakageBudget` | `_policies`, `_group_of`, `_uses` (a deque per owner and group) | `add`, `check`, `consume`, `remaining`; `_recent` prunes in the middle of a read | called by `submit_query` before and after execution | three limits over any interval of tau or of a day; pruning changes no decision; the budget renews; nobody blocks the others; groups and attributes stay in step |
| `permissions.PermissionLedger`, one per owner | `_grants` in order, `_usage` per query and year | `grant`, `revoke`, `check`, `consume` | called by `Databank.grant`, `revoke`, `submit_query` | quotas hold through withdrawals and renewed grants; a withdrawal admits nothing |
| `databank.Databank` | the components below, a ledger per owner, a budget or none | `deposit`, `erase`, `grant`, `revoke`, `submit_query` with eight ways out | all | what was charged and what the statement says agree; a denied query costs nothing; every query is logged |
| `audit.AuditLog` | `_entries` | `record`, `entries` | written by `submit_query` | append-only, complete |
| `storage.RecordStore` | `_records` by owner and attribute | `put`, `get`, `erase` | `deposit`, `erase`, `submit_query` | erasing a record rewrites no history |
| `sandbox`, `models.SealedValue` | the `active` flag of each `SandboxContext` | `sandbox`, `execute`, `unseal` | called by `submit_query`; calls the algorithm | plaintext is readable only while its execution lasts |
| `bitbudget` | none | `measure_bits`, `enforce` | called by `execute` | a float measures the bits; they must suffice, not be too many, and be within the cap |
| `algorithms` | `_REGISTRY`, fixed at import | `get`; the algorithms | `submit_query`, `grant` | ages at birthdays and leap days; refusals |
| `matching` | none | canonicalisation, `fingerprint`, `select_candidates`, `similarity`, `identity_matches` | the algorithm `identity.matches_owner`; companies | formatting folds away, the distance counts errors, what a company selects the sandbox compares |
| `examples/erasure_request.py` | a broker's records, a script | broadcast, selection, match queries, deletions, two probes | `Databank`, `matching` | only the owner's records are deleted, all of them if nobody interferes; the statement tells of every query |
| `examples/leakage_budget.py` | an interval of dates | two bisections, a retailer's check | `Databank`, `algorithms` | a bit is half an interval; the budget keeps the interval wide and lets the retailer through |
| `examples/age_check.py` | none | a grant with a quota, three queries | `Databank` | nothing that `DatabankQuota` does not run among all other sequences |
| `attestation`, `settlement`, `audit.seal_chain`, `storage.persist`, `bitbudget.cumulative_leakage_bound`, the end of `matching` | none | stubs that raise `NotImplementedError` | none | nothing to model |

The hard behaviours are listed, each at its line, under `hazards` in
`PROJECT.json`.

## Modules

| Module | What it is |
|---|---|
| `LeakagePolicy` | `DatumPolicy`, its validation, `answers_to_resolve`, the order of the three limits (`Judge`), and the count the limits are about (`Held`) |
| `IdealBudget` | abstract: a budget that remembers every query it charged |
| `LeakageBudget` | `LeakageBudget`: dictionaries, deques, pruning, and a clock |
| `PermissionTypes` | `StandingPermission`, the matching part of a `Query`, the counter keys |
| `OwnerConsent` | abstract: a *set* of standing permissions per owner, without order or repetition |
| `PermissionLedger` | `PermissionLedger`: the list, first match, counters |
| `Databank` | `Databank`: composes `PermissionLedger` and `LeakageBudget`, with records and the log |
| `Sandbox` | `sandbox`, `execute`, `unseal`, `measure_bits`, `enforce` |
| `Dates` | the calendar of `datetime.date`, `_years_between`, `age_over_threshold` |
| `Ages` | an owner's life day by day, and what `age.over_threshold` answers on each |
| `Matching` | `matching.py` as operators: canonicalisation, fingerprint, selection, edit distance, similarity, `identity_matches` |
| `Clerical` | a clerk who reformats and mistypes a record, step by step; external to the program |
| `ErasureRequest` | `examples/erasure_request.py`: composes `Databank` and `Matching` |
| `Bisection` | `examples/leakage_budget.py`: composes `Databank` and `Dates` |
| `MC...` | the instances TLC checks; `MCAlphabet` is the small alphabet of both `MCMatching` and `MCErasure` |
| `Counting` | lemmas about finite sets of naturals, powers of two and recursive functions |
| `LeakageBudgetProofs`, `PermissionLedgerProofs` | the theorems about these two components |
| `SandboxProofs` | the theorems about `Sandbox` and, with names that do not clash, about `Ages` |
| `MatchingProofs` | the theorems about `Matching`, for all texts, and about `Clerical` |
| `DatabankProofs`, `ErasureProofs`, `BisectionProofs` | the theorems about the compositions |

Composition: `Databank` instantiates `PermissionLedger` (as `Ledger`) and
`LeakageBudget` (as `Budget`) on its own variables and calls their actions;
`ErasureRequest` and `Bisection` instantiate `Databank` (as `Bank`) and do the same.
Definitions that begin with "A plausible mistake" are wrong on purpose: each is
a variant of the definition below it, and substituting it makes a property of a
run fail (`mutants` in `PROJECT.json`). They are used nowhere else.

### How the models correspond to the code

**LeakageBudget.** `policies`, `group_of` and `uses` are the three
dictionaries; `NoPolicy`, `NoGroup` and the empty sequence stand for absent
keys. A call is one action: `Add`; `Check` (denied, or admitted and never
charged, because no record is held or the algorithm fails); `CheckAndConsume`
(admitted, then executed, so `check` and later `consume` with the same `at`;
nothing runs in between that touches the budget); `Remaining`. `Check` and
`Remaining` change `uses`, because `_recent` prunes while it reads, and `Check`
does not prune for exempt requestors or ungoverned attributes. Pruning
is what the loop does: `Dropped` stops at the first use that is not stale, and
what lies behind it is kept whatever its age. Instants are natural numbers and
`DAY` of them make a day. `history` is a history variable that nothing reads
but the properties (and the bound `MaxUses`).

Two specifications share these actions. In `Spec` queries arrive as they are
submitted (`at` is the clock, which does not go back); this is
`at = query.submitted_at or datetime.now(...)` with no `submitted_at`. In
`ReplaySpec` callers choose `at` freely, which `Query.submitted_at` allows.

**PermissionLedger.** `Matching` is the *oldest* grant that matches, as the
loop of `_matching` returns it; `Revoke` rebuilds the list without the grants of
a requestor and an algorithm, in order, for every attribute, and leaves the
counters alone. `CheckAndConsume` is a permission check and the `consume` that
follows execution. `ever` (what was ever granted) and `served` (what was ever
counted) are history variables.

**Databank.** `submit_query` runs to completion before anything else happens,
so a call is one step and its ways out are eight actions: `UnknownAlgorithm`
(`KeyError`), `WrongAttribute`, `NotPermitted`, `OverBudget`, `NoRecord`,
`Refused`, `Answered`, `Faulted` (any other exception out of `execute`). What an
algorithm does is a free choice between the last three. `OverBudget`,
`NoRecord` and `Faulted` still prune the budget. A Databank
without a budget (`leakage=None`) behaves as one whose budget has no policy,
which `DatabankQuota` tries too. A ledger
that `_ledger` has not created yet is an empty one. `Configure` is `add` on the
budget the Databank was given; `LatestPolicy` says after how many calls it may still
happen (0: as in the constructor, before the first one). A policy added later starts
with an empty past, so `AnswersBounded` speaks of the answers since. `Year` is the year of `as_of` if the query
names a date, else the year of today.

**Sandbox.** Between two callbacks nothing can intervene, so entering a block
and unsealing is one step, and measuring a result and leaving the block is
one. Algorithms are arbitrary callables: they may enter the sandbox again, raise,
or return anything, and any code may try any token at any time. `domain_size`
is taken at its word, as the code does: an algorithm that declares a wrong size
is wrong, and registered algorithms are there to be inspected. A size is a power of two
and what it has above that, `Size(k, e)` for 2^k + e, because `measure_bits` takes
`math.ceil(math.log2(n))` in floats: these are exact at the powers, but the logarithm of a
size just above a large power is that power's. `unseen(k)` is how many sizes above 2^k are
so; in IEEE doubles none for k up to 48, then 1, 2, 5, 11.

**Dates and Ages.** A date is a record of year, month and day; an instant is a
day. `Ages` steps through the days after a birth and counts birthdays as they
pass (an owner born on 29 February has hers on 1 March in common years, which is
what the comparison of `(month, day)` pairs amounts to). Against this
reference stands the arithmetic of `_years_between`.

**Matching.** Text is a sequence of characters over a small alphabet, and what
Unicode does to a character (`strip`, `casefold`, `upper`) is a constant
function; the order in which the code applies them is kept. A text is folded,
split into words and joined again by replacing each of its places by a sequence and
flattening the whole; `sorted` is given by what stands at each place of the result.
`_edit_distance` is the recurrence over two rows, as a function of the place in the row
inside a function of the row. Weights and scores are exact fractions: where the
program's sum of floats could fall on either side of the threshold, `Comparisons`
allows both answers. `digest` stands for HMAC-SHA256; the instance takes a digest
of three bits, of which a fingerprint shows two, so that features collide as they
do in 20 bits. `Outcomes` is `identity_matches` with its refusals in order.

**Clerical.** `original` is an identity and `held` a company's copy of it, which a clerk
changes: `Reformat` in what canonicalisation is there to remove, `Mistype`, `Transpose`
and `Renumber` in what it cannot remove. `before` and `last` say what the last step was and
did, `typos` counts the errors in the family name. What is used of Unicode and of the address
table is assumed by name (`FoldingAssumption`, `PostcodeAssumption`, `LookalikesAssumption`). They speak
of the constants alone, through `Plain` and `Bare`, which say what is to become of one
character; that the code makes it so of whole texts, in its own order, is for the runs and the proofs.

**ErasureRequest.** One action per step of the script: deposit, grant, broadcast,
selection, one `Ask` per candidate, the printout that takes `min` over the
deleted records (and raises when there are none), two `Probe`s with the
assertions that follow them. `Ask` includes the score the script prints after each query:
`similarity` raises when the company's version is another (`Scored`), also if the query
was refused or denied, and the script ends there. Between any two, the owner may deposit another
identity, erase it, grant and withdraw: the broker and she are different
parties, and the script runs both only for the reader's sake. `version` is that of
the company's package.

**Bisection.** `bisect` against a Databank without a budget, or against one with
`adult_birth_date_policy`; one action per turn of the loop. The script has one
probing broker; the model lets a second join in, with its own permission and
the same interval, or never do so, which is the script's case: the loop is
over when every broker that got an answer has been denied. A query names the day it is
about in its parameters and as its `as_of`; the Databank uses the year of the latter, so
`eighteen_on` carries that year, and the answer is computed of the day.

## Runs

| Run | Shows | Bounds, and why they are enough |
|---|---|---|
| `LeakageBudget` | limits, pruning, renewal, stored uses, clashing policies, refinement of `IdealBudget` | a day of 3 instants, 6 instants, 4 uses: intervals of tau = 2 and of a day start and end in the run, uses are pruned, one policy is tight in the window while another is tight in the day, a third clashes with the first over an attribute and stands beside the second; two requestors and an exempt one |
| `PermissionLedger` | quotas, withdrawal, shadowed grants, refinement of `OwnerConsent` | three grants at a time out of five, so that a third may hide behind two; two years, three queries per year, quotas 1, 2 and none |
| `DatabankQuota` | the statement against the counters; year change; erasure; every step of the Databank is one of `PermissionLedger` and of `LeakageBudget` | two calendar years, three calls, grants renewed once; with a policy and without one |
| `DatabankBudget` | the statement against the budget; two algorithms over correlated attributes; a policy before or after the first query; denied queries are free | n_tau = 1, quota 2, share 1 are reached by two queries; three calls leave room for one more after a denial; the school is exempt in one policy and not in the other |
| `Sandbox` | tokens, reads, measured results | three tokens allow two nested executions and a kept token; sizes on both sides of powers of two and of the caps, which are 1, 3 and 48 bits |
| `Clerical` | formatting folds away, twice is once, the distance is the least number of errors, the band survives what it should | an identity with a word to sort, a word to expand and an accent to lose; two steps of the clerk, so that an error and a reformatting, or two errors at one place, meet |
| `ErasureRequest` | whose records are deleted, what the statement shows, the probes, versions, what is settled when the script ends | six records: the owner's with a typo and in another format, with an initial, *exactly at the threshold*, before she moved, a near stranger in the band, and an unrelated one; three acts of the owner; a quota of two, which is spent half way through the candidates, and none |
| `Ages` | the threshold on every day | births and days in 1896-1905 and 1996-2005: a common century and a leap one, and leap days on either side |
| `Bisection` | what a bit is worth; what the budget saves; the retailer's answer | births at the edges of months in 2006-2008, coming of age in leap and common years; two brokers, so that the daily quota, and not a share, ends it; or one, when the other never joins in |
| `ReplayWindow`, `UnloggedQuery`, `ChosenYear` | disagreements with the documentation, below | the instance of the corresponding run above |

Type invariants: that of `Databank` covers the budget and the ledgers, and is checked;
those of `LeakageBudget`, `PermissionLedger` and `Ages` are proved and not run.

Bounds on time, uses, grants, calls and tokens are guards named `Max...`.
`MaxUses` and `MaxUsage` are not reached in the `Databank` runs, where
`MaxSubmitted` comes first, nor in `ErasureRequest` and `Bisection`, where all
of them are `MaxQueries`, so no component of a composition is cut short.

**Fairness.** The library has no scheduler, and no run of it assumes fairness: the
renewal of a budget, which must happen, is stated as a bound
(`RenewsWithinADay`). The two scripts are different: each waits for nobody, every call
it makes returns, and the next line runs. `Bisection` therefore has
`WF_vars(Next)`, and `ErasureRequest` weak fairness of `Script`, not of the
owner's acts. `FairSpec` spells that out (infinitely many steps of the script, or
infinitely often nothing left to do), because TLC would evaluate `ENABLED` by
enumerating texts. Under it `EveryCandidateSettled` says that after the broadcast the script
ends, having asked about every candidate and deleted exactly those answered "true", so
that no denial, withdrawal or spent quota cuts the loop short (a company on another version
fails at its first candidate); `PinnedWithoutBudget`, that bisection ends on the birthday
itself. `OwnRecordsDeleted` and `HonestNotRefused` say more of the records than that, but only
of a script the owner leaves alone, with quota for all.

### Disagreements the runs exhibit

* `ReplayWindow`: with `submitted_at` in another order than the calls, `check`
  does not see the uses "in its future" (`leakage.py:250`), and the retention
  window takes more than the `k - 1` queries README.md:98 promises.
* `UnloggedQuery`: `KeyError` for an unregistered algorithm, or an algorithm
  that fails, leaves no entry; README.md:65 says every query is logged.
* `ChosenYear`: the annual quota is that of the year of `as_of`, which the
  requestor chooses; models.py:93-95 says "twice per requestor per year". With
  queries that name no date the property holds (`DatabankQuota`).

### Disagreements met while modelling, without a run

The models say what the code does; these differ from what a text says of it.

* `leakage.py:248-250`: with `submitted_at` out of order the loop stops at the
  first use that is not stale, and uses more than a day old behind it are counted;
  the docstring (`leakage.py:246`) says "pruning anything older".
* `leakage.py:248`: a `submitted_at` without a time zone compares with none of the
  instants the Databank stamps; once one is recorded, every later check of the
  datum raises `TypeError`, and the budget does not renew as README.md:104 has it.
  Instants of the models always compare.
* `bitbudget.py:43` computes the bits in floats, and a result of 2^49 + 1 outcomes is
  measured at 49 bits and passes a cap of 49; `bitbudget.py:33-34` says `ceil(log2(n))`,
  which is 50. The run `Sandbox` has that size and caps up to 48, where nothing is lost.
* `leakage.py:117`: a share below the daily quota but not below `per_window` is
  accepted, and one requestor then blocks the others, against README.md:96-97.
  `OneRequestorCannotBlock` asks for a share below `per_window`.
* `leakage.py:214`: two requestors that pool their answers get five of them under
  `adult_birth_date_policy`, one alone three; `leakage.py:41-42` says "collusion
  gains no additional queries". `BudgetKeepsWidth` states what does hold.
* `matching.py:163`: accents go before apostrophes, and NFKD makes U+00B4, which
  `_APOSTROPHES` lists, a space and a combining mark: a name typed with it is split,
  against `matching.py:110-115`. The alphabet of the instances has no U+00B4.
* `matching.py:165`: "o neill" keeps its space and does not agree with "O'Neill",
  against the docstring (`matching.py:157-158`). `SpaceOut` adds spaces to names only
  where there is one, or at the beginning.
* `matching.py:243`: the expression runs over a postcode without its space, so for a
  district of one digit it takes the first digit and a letter of the rest: Q12A for Q1 2AB,
  Q12C for Q1 2CD; `matching.py:233-240` speaks of the district.
* `matching.py:247`: the version is one of the features, so a company on another
  version usually selects nothing and asks nothing, which looks like "we do not
  hold you" after all (`matching.py:71-73`, `test_matching.py:136`). What does
  hold is `RefusedNotGuessed`.

## Proofs

The theorems hold for all constants that satisfy the named assumptions: `DAY`
is positive, policies are those `DatumPolicy.__post_init__` accepts, sentinels
are not values, permissions are well typed, caps are positive, and bounds are
natural numbers. Years that begin on the Databank's clock are among the `Years` queries may name
(`YearAssumption`). Four hypotheses occur in the statements of some:

* `PowersOfTwo`: `2^0 = 1` and `2^(n + 1) = 2 * 2^n`. It is true of the standard
  module, but the provers know nothing of `^`. Theorems about the `k` of
  `answers_to_resolve` and about halvings have it.
* `SubmittedNow`: no query carries a `submitted_at`. Without it the budget really
  does not keep its bounds: the run `ReplayWindow` is the counterexample.
* `AskedForToday`: no query carries an `as_of`. Without it the quota of a year may be
  spent in another: the run `ChosenYear`.
* `NarrowCaps`: no cap reaches a size the float logarithm cannot tell from a power of two:
  caps of 48 bits or less.

**`LeakageBudgetProofs`.** The bounds are not inductive: `check` counts what the
deque holds, the bounds speak of the whole past. `IInv` adds what connects them:
policies sit under their own group names and the dictionaries agree
(`PoliciesNamed`, `GroupsAgree`), a group without a policy has no past
(`UnusedBefore`), the past is in order of time and not after the clock
(`HistoryOrdered`), and *a deque is the past without a prefix of uses a day old*
(`UsesAreTail`). From these, `VerdictFromHistory` shows that each count `check`
makes over the pruned deque is the count over the whole past (the lemma
`ShiftedCount` carries a cardinality along the shift of places), hence
`PruningIsInvisible`. The counts are below the limits when a query is admitted
(`AdmittedHasRoom`), and an interval that contains the new use ends no earlier
than now, so its count is at most today's count plus one (`ChargeWithinLimit`):
`WindowIsBounded`, `DayIsBounded`, `ShareIsBounded`. `RemainingExact`,
`BudgetRenews` and `NobodyBlocks` are consequences of the same invariant, and
`BudgetImplementsIdeal` maps every step to a step of `IdealBudget` or a stutter.
`StorageIsBounded` is about the deque itself: what `_recent` leaves and is not exempt
has been counted against the daily quota before anything is appended.
`NoDatumResolved` joins `WindowIsBounded` with `AnswersResolve`, which says that
`answers_to_resolve` returns the least `k` that does resolve the datum: it
exists because `n < 2^n` (`Counting!PowersGrow`). `ReplayTypeCorrect` is what is left
when callers choose the instants: types and groups, but no bound.

**`PermissionLedgerProofs`.** `QuotaIsHonoured` needs that what is on the list
was granted at some time (`GrantsRemembered`) and that the counters equal what
was served (`CountersKept`): this is where a `revoke` that resets counters would
break the proof. `WithdrawalNeverAdmits` rests on `revoke` removing *all*
grants that match one that it removes, and keeping the order of the
rest: the oldest remaining match of a query is the oldest there was, or there is none.
`LedgerImplementsConsent` uses that a query admitted by the oldest matching
grant is admitted by some permission that stands. `RegrantIsIdle`: what is appended
behind a grant that it equals is never the oldest match.

**`SandboxProofs`.** Leaving a block revokes one token and pops one place; the two
agree only because no token is on the stack twice. `ResultsAreMeasured` goes through
the ways out of a block: only the return that `enforce` passes lets anything cross. What it
passes is measured exactly (`EnforcedIsMeasured`) although the logarithm is not: a size
that the float takes for 2^k is measured at k bits, and such a k is over every narrow
cap (`NarrowCaps`), so `enforce` rejects it.

Of `Ages` the invariant (`AgeInv`) says that both dates are dates, the day not before
the birth, and that the birthdays counted so far are `_years_between` of the two. A
step of the calendar moves either nothing, or the month or the year, and
the count moves with the comparison of `(month, day)` exactly on a birthday; the one
case with a turn to it is a birth on 29 February when the year has none.
`AnswerIsAlwaysAge` holds for every date of birth and threshold.

**`MatchingProofs`.** Everything here is about texts of any length, so nearly everything is
an induction, and the induction theorems of the library are out of reach: they take the
predicate as an operator. The module states its own over *sets* of texts
(`TextInduction`, and word by word, `WordwiseInduction`), over the places of a table
(`GridInduction`), and `Counting` the existence of the functions that are defined by
recursion (`RecursionExists`, which rests on the library's well-foundedness of `<`).

* *The edit distance.* `_edit_distance` never has more than two rows, but they are
  those of a table whose every entry is the least that its three neighbours come to
  (`IsTable`, `DistanceIsEntry`). One error moves the entries by at most one
  (`InsertionClose`, `ReplacementClose`), so *n* errors by at most *n* (`ErrorsCost`);
  and from an entry greater than 0 some error leads to one less (`Closer`), so that many
  errors suffice (`ErrorsSuffice`). Hence `EditDistanceIsLeast`, and the symmetry and the triangle
  inequality of `EditDistanceIsMetric`.
* *Similarity.* The four errors are taken from 100 in proportion to the lengths
  (`ScoreIs`), so the score is a measure (`SimilarityIsMeasure`), and one threshold on the
  sum is a bound on each field (`ThresholdPerField`).
* *Canonicalisation.* Folding acts character by character (`FoldedIs`), so on parts of a text
  separately (`FoldedConcat`); a text splits into words at any white space (`WordsConcat`),
  and words that are joined and split again are the same words (`WordsJoined`). What is sorted
  depends on how often a word occurs and not on where (`SortedIs`, `SortedSwap`), and stays
  as it is if sorted again (`SortedAgain`).
* *The clerk.* `FormattingFoldsAway` and `BandSurvives` speak of the last step only, but hold of
  it only because the copy is still one: `CopyInv` adds that every field is a text of the
  alphabet (`IsCopy`), that the postcode has the characters a postcode has
  (`KnownPostcode`), and that the canonical family names are at most `typos` errors apart
  (`ErrorsCounted`). For the last, a wrong letter in the file must be one error after canonicalisation
  too: no letter folds to white space, so the word it stands in keeps its place and
  changes in one letter (`WrongLetter`, `ExtraLetter`, `MissingLetter`), and a transposition is two
  wrong letters that leave the first letter and the length alone (`WrongLetterBehind`). The
  assumptions reach the code's functions by `FoldedIsPlain` and `PostcodeIsBare`. From `CopyInv`:
  `FormattingFolds`, `CanonicalStays`, `DistanceCountsErrors`, `BandStays`.

The assumptions about characters are weaker than Unicode: of all its characters (version
14, as `unicodedata` has it) none folds twice and white space folds to white
space. What they leave out is named above or is this: of the apostrophes, U+00B4 is no
mark a clerk may use, and of the characters of postcodes they exclude 26 whose upper case is
two characters, the second of them a combining mark that counts as punctuation.

**`DatabankProofs`.** The theorems of the components are used through instances of
their proof modules. Every call *asks* (at most a pruning `check`, nothing charged) or *pays*
(the ledger, the budget if a policy governs the attribute, and an entry, in one step),
and every other step leaves the components alone or is a step of one of them (`CallAsksOrPays`, `StepIsCallOrRests`);
hence `ImplementsLedger` and, if `SubmittedNow`, `ComponentsImplemented`. What was
proved of the components then holds inside the Databank, whatever is deposited, erased
or fails in between: quotas and withdrawals for all queries (`ConsentInside`), the three
limits, the renewal and the shares of the budget if `SubmittedNow` (`LimitsInside`,
`ServiceInside`). The
statement is compared with the components by counting: the sum of the counters over
the years for each kind of request is the number of entries charged for it
(`StatementCounts`, for `CountersOnStatement`); the entries dated in a year are those
counted in it, if `AskedForToday` (`YearsAgree`, for `QuotaShown`); in every interval
of tau the entries about a group since its policy are as many as the uses in
the past of the budget (`AnswersAgree`, for `AnswersStayBounded`). The last needs the
invariant of the budget as well, because the limit is a limit on the past and not on the
deque. `BudgetOnStatement` and `DenialsAreFree` are about one step each, from
the same case analysis; for the second, a check leaves the decision of every later check
and what `remaining` says at every later time as they were (`CheckChangesNothing`), because
what it prunes counts for neither.

**`ErasureProofs`.** All theorems but two hold whatever canonicalisation, digests and
distances compute, for every list of records. What they use of
`identity_matches` is the order of its refusals (`OutcomesAre`).
`StrangersAlwaysSurvive`, `OtherVersionsRefused` and `StatementIsComplete` need no
assumption about the owner: a record is deleted only upon a comparison that said "true", a
record of another version is never compared, and the n-th logged query is the n-th entry
(`Recorded`). The others are about a script she leaves alone,
and `IInv` says what that means phase by phase: the band broadcast is that of the
identity still held (`Held`, `Calm`), charges do not exceed the queries asked, so a
sufficient quota is not used up (`Within`), and every candidate that must match is still to
be asked about or deleted already (`AskingSettled`), which makes `OwnRecordsGo`.
`ScriptEndsSettled` is about the loop itself, whatever the owner does: what has been asked and
what is still in `in_band` are together the candidates, without repetition, and what is deleted
are the records answered "true" (`Looped`), so that at the end as many queries have gone out as there
were candidates, one for each.
`ProbesSettled` carries the refusal of the two probes to the end. The two that do look inside
say what the protocol's threshold means for the people concerned, by `ThresholdPerField`:
`OnlyNearRecordsGo`, that a deleted record has at least three letters in five of a family name the
owner deposited, and so on for the other fields down to the given name, the cheapest, which is
not all another; `MisspeltRecordsGo`, that a family name less wrong
than that keeps no record of the band from being deleted.

**`BisectionProofs`.** `BisectionHalves` is the invariant `Narrows`: the width times
`2^asked` stays below the first one, and, days in the middle left out, above it.
`BankIInv` counts the uses of the policy's deque: one for each answer, at most
three of one broker, at most five of all (`Charged`, `Within`), so
`BudgetStopsBisection`. `RetailerIsServed` needs besides that the shop's permission is in
place (`Prepared`), and that one broker cannot have taken the daily quota.
`BirthdayNeverLost` is the partial correctness of the loop, with a budget or without, for
every date of birth: an answer is "yes" exactly from the birthday on
(`YesFromBirthday`, by the comparison of `(month, day)` pairs and the calendar), so
the day looked for never leaves the interval.

**Only model-checked.** The two liveness properties (`PinnedWithoutBudget`,
`EveryCandidateSettled`), because the prover knows neither `ENABLED` nor fairness of actions; the
safe half of the first is `BirthdayNeverLost`, of the second `ScriptEndsSettled`. Every other property of a passing run is stated by
a theorem. `coarse_features` is proved about up to the digest, which is any function: how often two
identities share a band is a question about HMAC and about people.

## Plan

1. Done: all components but the stubs, and the compositions.
2. Done: the theorems of every component and composition named above, which state
   all properties of the passing runs but the two just listed.
3. Next: what bound *does* hold when callers choose `submitted_at` (`ReplaySpec`), between
   the bound of `Spec` and the counterexample of `ReplayWindow`.

## Not modelled

Stubs (see the inventory); `examples/age_check.py`, whose few calls are among the
sequences of `DatabankQuota`; the formatting of reasons and messages, and what the
examples print; the values of records other than an identity and a date of birth;
float rounding in `answers_to_resolve` (the model has exact logarithms; in `similarity`
both outcomes of a tie are allowed, and `measure_bits` rounds as floats do); `datetime` objects
with and without time zones, which do not compare; `date.today()`, which is local,
beside a clock in UTC; `max_request_frequency` and `usage`, which only read.
