---------------------------- MODULE ErasureRequest ----------------------------
(***************************************************************************)
(* Erasure without disclosure, as examples/erasure_request.py runs it: the *)
(* owner's Databank broadcasts a fingerprint, a company selects candidates *)
(* among its records and submits a match query for each, and deletes the   *)
(* records that match.  The Databank is the module Databank, and what      *)
(* identity.matches_owner makes of a candidate is the module Matching.     *)
(*                                                                         *)
(* The company runs its script to the end, step by step.  The script has   *)
(* the owner to itself; here she may replace or erase her identity and     *)
(* grant or withdraw the permission between any two of its steps.          *)
(***************************************************************************)
EXTENDS Matching

CONSTANTS
  ALICE, BROKER, matches_owner, identity,
  Identities,    \* what the owner may deposit
  BROKER_RECORDS, \* the company's records, as given
  Probed, Unrelated, \* places of the records the two probes submit
  Salts, Quotas,
  NoIdentity, NoQuota, None,
  MaxActs        \* bound on what the owner does

ASSUME ErasureAssumption ==
  /\ Identities \subseteq Identity /\ NoIdentity \notin Identities
  /\ BROKER_RECORDS \in Seq(Identity)
  /\ {Probed, Unrelated} \subseteq DOMAIN BROKER_RECORDS
  /\ NoThreshold # "0.5"
  /\ Quotas \subseteq Nat \cup {NoQuota} /\ NoQuota \notin Nat

VARIABLES
  records, audit, submitted, grants, usage, ever, served,
  policies, group_of, uses, history, now,
  value,      \* the identity sealed in the record, or NoIdentity
  salt, band, \* the broadcast
  version,    \* of canonicalisation, at the company
  in_band,    \* places of the candidates still to be asked about
  deleted,
  phase,      \* of the script; "failed" once an exception has left it
  acts,       \* history: what the owner did
  disturbed,  \* history: did she do it after the broadcast
  known,      \* history: the identities she deposited
  asked       \* history: the places asked about and the answers

bank == <<records, audit, submitted, grants, usage, ever, served,
          policies, group_of, uses, history, now>>

company == <<salt, band, version, in_band, deleted, phase, asked>>

owner == <<value, acts, disturbed, known>>

vars == <<bank, company, owner>>

\* The permission the owner gives, with one of the quotas.
Permission(quota) ==
  [requestor_id |-> BROKER, algorithm_id |-> matches_owner, attribute |-> identity,
   quota_per_year |-> quota]

\* The match query; its parameters are arguments below.
query ==
  [owner_id |-> ALICE, requestor_id |-> BROKER, algorithm_id |-> matches_owner,
   attribute |-> identity, as_of |-> None, submitted_at |-> None]

\* A match query and two probes for every record at most, in one year, and no
\* policy for identity fields ("None is yet").
MaxQueries == Len(BROKER_RECORDS) + 2

Bank ==
  INSTANCE Databank WITH
    Owners <- {ALICE}, Requestors <- {BROKER}, Algorithms <- {matches_owner},
    Attributes <- {identity}, Permissions <- {Permission(quota) : quota \in Quotas},
    Groups <- {}, Policies <- {}, DAY <- 1, NoPolicy <- None, NoGroup <- None,
    YEAR <- 1, Years <- {0}, MaxTime <- 0,
    reads <- [alg \in {matches_owner} |-> identity], Unknown <- {},
    Queries <- {query}, MaxGrants <- MaxActs,
    MaxUsage <- MaxQueries, MaxUses <- MaxQueries, MaxSubmitted <- MaxQueries,
    LatestPolicy <- 0

Init ==
  /\ Bank!Init
  /\ value = NoIdentity
  /\ salt \in Salts /\ band = 0
  /\ version \in Versions
  /\ in_band = {} /\ deleted = {}
  /\ phase = "before"
  /\ acts = 0 /\ disturbed = FALSE /\ known = {} /\ asked = <<>>

-----------------------------------------------------------------------------
(* The owner.                                                              *)

Act ==
  /\ acts < MaxActs /\ acts' = acts + 1
  /\ disturbed' = (phase # "before")
  /\ UNCHANGED company

DepositIdentity(i) ==
  /\ Act
  /\ Bank!Deposit(ALICE, identity)
  /\ value' = i /\ known' = known \cup {i}

EraseIdentity ==
  /\ Act /\ value # NoIdentity
  /\ Bank!Erase(ALICE, identity)
  /\ value' = NoIdentity /\ UNCHANGED known

GrantBroker(quota) ==
  /\ Act
  /\ Bank!Grant(ALICE, Permission(quota))
  /\ UNCHANGED <<value, known>>

RevokeBroker ==
  /\ Act /\ grants[ALICE] # <<>>
  /\ Bank!Revoke(ALICE, BROKER, matches_owner)
  /\ UNCHANGED <<value, known>>

\* The broadcast: a fresh salt, and the band of the identity under it.
Broadcast ==
  /\ phase = "before" /\ value # NoIdentity
  /\ band' = fingerprint(canonicalise_identity(value), salt, FINGERPRINT_BITS)
  /\ phase' = "broadcast"
  /\ UNCHANGED <<bank, owner, salt, version, in_band, deleted, asked>>

-----------------------------------------------------------------------------
(* The company's script.                                                   *)

\* The company's own records, canonicalised.
canonical(v, i) == CanonicalisedAt(v, BROKER_RECORDS[i])

Answers == {"none", "refused", "value_error", "true", "false"}

\* The places of the company's records that select_candidates keeps.
Candidates ==
  {i \in DOMAIN BROKER_RECORDS :
     Selected(canonical(version, i), band, salt, FINGERPRINT_BITS)}

\* The company narrows locally: `in_band` begins with all candidates.
Select ==
  /\ phase = "broadcast"
  /\ in_band' = Candidates
  /\ phase' = "asking"
  /\ UNCHANGED <<bank, owner, salt, band, version, deleted, asked>>

\* submit_query with the candidate at place i and a threshold: what the
\* algorithm answers, or "none" when it is not reached.
Submits(i, threshold, answer) ==
  /\ IF Bank!Executed(query)
     THEN /\ answer \in Outcomes(value, canonical(version, i), salt, threshold)
          /\ CASE answer = "refused" -> Bank!Refused(query)
               [] answer = "value_error" -> Bank!Faulted(query)
               [] OTHER -> Bank!Answered(query)
     ELSE answer = "none" /\ Bank!Submit(query)
  /\ asked' = Append(asked, [record |-> i, answer |-> answer])
  /\ UNCHANGED <<owner, salt, band, version>>

\* A plausible mistake: everything but a clear no deletes.
DeletesUnlessFalse(answer) == answer \notin {"false", "value_error"}

\* `if result.value`: a denied query has no value.
Deletes(answer) == answer = "true"

\* They are asked about in the order of the company's files.
Candidate == CHOOSE i \in in_band : \A j \in in_band : i <= j

\* A plausible mistake: a query without an answer ends the loop quietly.
RestIfAnswered(answer) == IF answer = "none" THEN {} ELSE in_band \ {Candidate}

\* A plausible mistake: the company stops at the first record that matches.
RestAfterMatch(answer) == IF answer = "true" THEN {} ELSE in_band \ {Candidate}

Rest(answer) == in_band \ {Candidate}

\* Between the query and the deletion the script compares the candidate with
\* the broadcast identity once more, to print the score: that raises ValueError
\* for records of two versions, whatever the answer was, or if there was none.
Scored == version = CANONICALISATION_VERSION

\* One match query; a ValueError, its own or the score's, ends the script.
Ask(answer) ==
  /\ phase = "asking" /\ in_band # {}
  /\ Submits(Candidate, NoThreshold, answer)
  /\ in_band' = Rest(answer)
  /\ deleted' = IF Scored /\ Deletes(answer) THEN deleted \cup {Candidate} ELSE deleted
  /\ phase' = IF Scored /\ answer # "value_error" THEN phase ELSE "failed"

\* `min` over the scores of the deleted records: a ValueError if there are none.
Compare ==
  /\ phase = "asking" /\ in_band = {}
  /\ phase' = IF deleted = {} THEN "failed" ELSE "comparing"
  /\ UNCHANGED <<bank, owner, salt, band, version, in_band, deleted, asked>>

\* The two probes, and `assert refused.decision is Decision.DENY`.
Probe(i, threshold, before, after, answer) ==
  /\ phase = before
  /\ Submits(i, threshold, answer)
  /\ phase' = IF /\ answer # "value_error"
                 /\ Last(audit').decision = "deny" THEN after ELSE "failed"
  /\ UNCHANGED <<in_band, deleted>>

Script ==
  \/ Select \/ Compare
  \/ \E answer \in Answers :
       \/ Ask(answer)
       \/ Probe(Probed, "0.5", "comparing", "probing", answer)
       \/ Probe(Unrelated, NoThreshold, "probing", "done", answer)

Next ==
  \/ \E i \in Identities : DepositIdentity(i)
  \/ EraseIdentity
  \/ \E quota \in Quotas : GrantBroker(quota)
  \/ RevokeBroker
  \/ Broadcast
  \/ Script

Spec == Init /\ [][Next]_vars

\* The phases in which the script has no step: it has not begun, or has ended.
Resting == phase \in {"before", "done", "failed"}

\* Nothing else holds the script up once it has begun: every call returns.
\* This is weak fairness of Script, its ENABLED spelled out (it is ~Resting) to
\* spare TLC the evaluation of every text of the records for it.
FairSpec == Spec /\ ([]<><<Script>>_vars \/ []<>Resting)

-----------------------------------------------------------------------------
(* Properties.                                                             *)

\* Does the record at place i match identity j as the protocol would have it?
SameBand(i, j) ==
  fingerprint(canonical(version, i), salt, FINGERPRINT_BITS)
    = fingerprint(canonicalise_identity(j), salt, FINGERPRINT_BITS)
MayMatch(i, j) == TRUE \in Comparisons(canonicalise_identity(j), canonical(version, i))
MustMatch(i, j) == Comparisons(canonicalise_identity(j), canonical(version, i)) = {TRUE}

(***************************************************************************)
(* A stranger's record survives: what the company deletes is in the band   *)
(* of, and as similar as the protocol demands to, an identity the owner    *)
(* deposited, however she changed it, withdrew the permission or ran out   *)
(* of quota between broadcast and answer.                                  *)
(***************************************************************************)
StrangersSurvive ==
  \A i \in deleted : \E j \in known : SameBand(i, j) /\ MayMatch(i, j)

\* The script is left alone, with quota for all candidates and for the probes.
Undisturbed ==
  /\ ~disturbed /\ version = CANONICALISATION_VERSION
  /\ grants[ALICE] # <<>>
  /\ LET quota == grants[ALICE][1].quota_per_year
     IN  quota = NoQuota \/ quota >= MaxQueries

(***************************************************************************)
(* "On True the company deletes": with a permission that suffices, every   *)
(* record in the band that clears the threshold is deleted once all        *)
(* candidates have been asked about.                                       *)
(***************************************************************************)
OwnRecordsDeleted ==
  Undisturbed /\ phase = "asking" /\ in_band = {} =>
    \A i \in DOMAIN BROKER_RECORDS :
      SameBand(i, value) /\ MustMatch(i, value) => i \in deleted

(***************************************************************************)
(* A company that asks about what it selected is never refused, and pays   *)
(* for no query that is not answered, while the owner leaves her identity  *)
(* alone.                                                                  *)
(***************************************************************************)
HonestNotRefused ==
  Undisturbed /\ phase = "asking" =>
    \A n \in DOMAIN asked : asked[n].answer \in {"true", "false"}

\* The queries that did not end in an exception.
Logged == {n \in DOMAIN asked : asked[n].answer # "value_error"}

(***************************************************************************)
(* The owner's statement tells all there is to know of the queries about   *)
(* her: one entry for each, in order, that says "allow" where the company  *)
(* got an answer and something else where it kept a record without one.    *)
(* Only a query that ended in an exception is missing.                     *)
(***************************************************************************)
StatementShowsQueries ==
  /\ Len(audit) = Cardinality(Logged)
  /\ \A n \in Logged :
       LET entry == audit[Cardinality({m \in Logged : m <= n})]
       IN  entry.decision = "allow" <=> asked[n].answer \in {"true", "false"}

(***************************************************************************)
(* A cross-version comparison "is refused, not guessed": a company on      *)
(* another version of canonicalisation gets no answer, though its          *)
(* fingerprints may collide with the broadcast, and deletes nothing.       *)
(***************************************************************************)
RefusedNotGuessed ==
  version # CANONICALISATION_VERSION =>
    deleted = {} /\ \A n \in DOMAIN asked : asked[n].answer \notin {"true", "false"}

(***************************************************************************)
(* "Two things the sandbox refuses -- and puts on Alice's statement": the  *)
(* probe with a threshold, and the probe outside the band, fail the        *)
(* assertion of the script only if the owner interfered, the quota is      *)
(* spent, or the unrelated record fell into the band.  (Without a record   *)
(* to delete the script fails earlier.)                                    *)
(***************************************************************************)
ProbesRefused ==
  /\ Undisturbed /\ phase = "failed" => deleted = {} \/ SameBand(Unrelated, value)
  /\ Undisturbed /\ phase = "done" =>
       \A n \in Len(asked) - 1..Len(asked) :
         asked[n].answer = "refused" /\ audit[n].decision = "deny"

\* The records of the first n queries of a list, and those of them for which the
\* answer was "true".
Seen(list, n) == {list[k].record : k \in 1..n}
Matched(list, n) == {list[k].record : k \in {m \in 1..n : list[m].answer = "true"}}

\* What the script has settled when it ends: of n candidates it has asked about
\* each, in its first n queries, and deleted those for which the answer was
\* "true", be the others denied, refused or false.  With a company on another
\* version it has failed at the first candidate, or for want of one.
AllSettled ==
  LET n == Cardinality(Candidates)
  IN  IF version = CANONICALISATION_VERSION
      THEN /\ n <= Len(asked)
           /\ Seen(asked, n) = Candidates
           /\ deleted = Matched(asked, n)
      ELSE /\ phase = "failed"
           /\ Len(asked) = IF n = 0 THEN 0 ELSE 1
           /\ deleted = {}

(***************************************************************************)
(* Once the fingerprint is broadcast the script ends, and not before all   *)
(* is settled: no denial, withdrawal, erasure or quota spent half way      *)
(* leaves it hanging, ends the loop early or has a candidate skipped, and  *)
(* a record goes exactly if the answer about it was "true".  The one thing *)
(* that cuts the loop short is a company on another version, which fails   *)
(* at the first candidate with nothing deleted.                            *)
(***************************************************************************)
EveryCandidateSettled == phase = "broadcast" ~> phase \in {"done", "failed"} /\ AllSettled

===============================================================================
