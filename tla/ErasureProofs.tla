----------------------------- MODULE ErasureProofs -----------------------------
(***************************************************************************)
(* Theorems about ErasureRequest, for every record, identity, salt and     *)
(* quota.                                                                  *)
(***************************************************************************)
EXTENDS ErasureRequest, MatchingProofs

-----------------------------------------------------------------------------
(* How a match query may end.                                              *)

(***************************************************************************)
(* The package canonicalises at its own version, the company at its.       *)
(***************************************************************************)
LEMMA VersionsOfCanonical ==
  /\ \A i : canonicalise_identity(i).version = CANONICALISATION_VERSION
  /\ \A v, i : canonical(v, i).version = v
BY DEF canonicalise_identity, canonical, CanonicalisedAt

(***************************************************************************)
(* A threshold of the requestor's is refused, and so is a candidate        *)
(* outside the band; one of another version ends in an exception; any      *)
(* other is compared.                                                      *)
(***************************************************************************)
LEMMA OutcomesAre ==
  ASSUME NEW j, NEW v, NEW i, NEW s, NEW threshold
  PROVE  LET identified == canonicalise_identity(j)
             candidate == canonical(v, i)
             same == fingerprint(identified, s, FINGERPRINT_BITS)
                       = fingerprint(candidate, s, FINGERPRINT_BITS)
             outcomes == Outcomes(j, candidate, s, threshold)
         IN  /\ threshold # NoThreshold => outcomes = {"refused"}
             /\ ~same => outcomes = {"refused"}
             /\ v # CANONICALISATION_VERSION => outcomes \subseteq {"refused", "value_error"}
             /\ same /\ v = CANONICALISATION_VERSION /\ threshold = NoThreshold =>
                  /\ outcomes \subseteq {"true", "false"}
                  /\ Comparisons(identified, candidate) = {TRUE} => outcomes = {"true"}
             /\ "true" \in outcomes => same /\ TRUE \in Comparisons(identified, candidate)
             /\ v = CANONICALISATION_VERSION => "value_error" \notin outcomes
<1> DEFINE identified == canonicalise_identity(j)
           candidate == canonical(v, i)
           same == fingerprint(identified, s, FINGERPRINT_BITS)
                     = fingerprint(candidate, s, FINGERPRINT_BITS)
           compared == {IF match THEN "true" ELSE "false" :
                          match \in Comparisons(identified, candidate)}
           outcomes == Outcomes(j, candidate, s, threshold)
<1>1. identified.version = CANONICALISATION_VERSION /\ candidate.version = v
  BY VersionsOfCanonical
<1>2. outcomes = IF threshold # NoThreshold \/ ~same THEN {"refused"}
                 ELSE IF identified.version # candidate.version THEN {"value_error"}
                 ELSE compared
  BY DEF Outcomes
<1>3. /\ compared \subseteq {"true", "false"}
      /\ Comparisons(identified, candidate) = {TRUE} => compared = {"true"}
  OBVIOUS
<1>4. "true" \in compared => TRUE \in Comparisons(identified, candidate)
  <2>1. Comparisons(identified, candidate) \subseteq BOOLEAN
    BY DEF Comparisons
  <2> HIDE DEF identified, candidate
  <2> SUFFICES ASSUME "true" \in compared PROVE TRUE \in Comparisons(identified, candidate)
    OBVIOUS
  <2>2. PICK match \in Comparisons(identified, candidate) :
          "true" = IF match THEN "true" ELSE "false"
    OBVIOUS
  <2>3. match = TRUE
    BY <2>1, <2>2
  <2> QED BY <2>3
<1> HIDE DEF identified, candidate, same, compared, outcomes
<1>5. /\ threshold # NoThreshold => outcomes = {"refused"}
      /\ ~same => outcomes = {"refused"}
      /\ v # CANONICALISATION_VERSION => outcomes \subseteq {"refused", "value_error"}
      /\ same /\ v = CANONICALISATION_VERSION /\ threshold = NoThreshold =>
           /\ outcomes \subseteq {"true", "false"}
           /\ Comparisons(identified, candidate) = {TRUE} => outcomes = {"true"}
      /\ "true" \in outcomes => same /\ TRUE \in Comparisons(identified, candidate)
      /\ v = CANONICALISATION_VERSION => "value_error" \notin outcomes
  BY <1>1, <1>2, <1>3, <1>4
<1> QED BY <1>5 DEF identified, candidate, same, outcomes

-----------------------------------------------------------------------------
(* What the script and the owner do to the Databank.                       *)

\* The request the owner's permission is for.
Asked == Bank!RequestOf(query)

\* The counter its queries are charged to.
Counter == <<ALICE, Asked, 0>>

\* The entry a call puts on the statement, as far as the answer tells.
Entered(answer) ==
  \E e \in Bank!AuditEntry :
    /\ audit' = Append(audit, e)
    /\ e.decision = "allow" <=> answer \in {"true", "false"}
    /\ answer = "refused" => e.decision = "deny"

\* The Databank's state keeps its types: the list of permissions holds some of
\* those the owner may give, time stands still, and there is no policy.
BankTyped ==
  /\ audit \in Seq(Bank!AuditEntry)
  /\ grants \in [{ALICE} -> Seq({Permission(quota) : quota \in Quotas})]
  /\ usage \in [Bank!Key -> Nat]
  /\ now = 0
  /\ group_of = [a \in {identity} |-> None]

(***************************************************************************)
(* A match query is a request of the owner's permission, in the one year.  *)
(***************************************************************************)
LEMMA CounterExists ==
  /\ Asked \in Bank!Request
  /\ Counter \in Bank!Key
  /\ now = 0 => Bank!Year(query) = 0 /\ Bank!At(query) = 0
<1>1. Asked = [requestor_id |-> BROKER, algorithm_id |-> matches_owner, attribute |-> identity]
  BY DEF Asked, Bank!RequestOf, query
<1>2. Asked \in Bank!Request
  BY <1>1 DEF Bank!Request
<1>3. 0 \in {0}
  OBVIOUS
<1>4. Counter \in Bank!Key
  BY <1>2, <1>3 DEF Counter, Bank!Key
<1>5. now = 0 => Bank!Year(query) = 0 /\ Bank!At(query) = 0
  BY DEF Bank!Year, Bank!YearOf, Bank!At, query
<1> QED BY <1>2, <1>4, <1>5

(***************************************************************************)
(* There is no budget to ask or to charge.                                 *)
(***************************************************************************)
LEMMA NoBudget ==
  ASSUME BankTyped
  PROVE  /\ Bank!Budget!policy_for(identity) = None
         /\ Bank!WithinBudget(query)
<1>1. Bank!Budget!policy_for(identity) = None
  BY DEF BankTyped, Bank!Budget!policy_for
<1>2. Bank!WithinBudget(query)
  BY <1>1 DEF Bank!WithinBudget, Bank!Budget!Decision, Bank!Budget!Governed, query
<1> QED BY <1>1, <1>2

(***************************************************************************)
(* An answered or refused query is charged to the counter; nothing else of *)
(* the owner's Databank changes.                                           *)
(***************************************************************************)
LEMMA ChargeCounts ==
  ASSUME BankTyped, Bank!Charge(query)
  PROVE  /\ UNCHANGED <<grants, group_of, now>>
         /\ usage' \in [Bank!Key -> Nat]
         /\ usage'[Counter] = usage[Counter] + 1
<1>1. Bank!Ledger!CheckAndConsume(ALICE, Asked, 0)
  BY CounterExists DEF Bank!Charge, BankTyped, Asked, query
<1>2. /\ usage' = [usage EXCEPT ![Counter] = @ + 1]
      /\ UNCHANGED grants
  BY <1>1 DEF Bank!Ledger!CheckAndConsume, Counter
<1>3. UNCHANGED <<group_of, now>>
  BY NoBudget DEF Bank!Charge, Bank!budget, query
<1>4. Counter \in Bank!Key
  BY CounterExists
<1>5. usage \in [Bank!Key -> Nat]
  BY DEF BankTyped
<1> HIDE DEF Counter
<1>6. usage' \in [Bank!Key -> Nat] /\ usage'[Counter] = usage[Counter] + 1
  BY <1>2, <1>4, <1>5
<1> QED BY <1>2, <1>3, <1>6

(***************************************************************************)
(* The budget is asked in vain.                                            *)
(***************************************************************************)
LEMMA AskChangesNothing ==
  ASSUME Bank!AskBudget(query)
  PROVE  UNCHANGED <<group_of, now>>
BY DEF Bank!AskBudget, Bank!Budget!Check

(***************************************************************************)
(* Only answers are entered as allowed, and a refusal as denied.           *)
(***************************************************************************)
LEMMA LogEnters ==
  ASSUME BankTyped, NEW answer \in Answers,
         NEW decision \in {"allow", "deny", "consent_required"},
         NEW reason \in {"attribute", "permission", "budget", "no_record", "refused", "answered"},
         Bank!Log(query, decision, reason),
         decision = "allow" <=> answer \in {"true", "false"},
         answer = "refused" => decision = "deny"
  PROVE  Entered(answer)
<1> DEFINE e == [at |-> now, owner_id |-> ALICE, request |-> Asked,
                 decision |-> decision, reason |-> reason]
<1>1. audit' = Append(audit, e)
  BY DEF Bank!Log, query, Asked
<1>2. now \in Bank!Budget!Times
  BY DEF BankTyped, Bank!Budget!Times
<1>3. e \in Bank!AuditEntry
  BY <1>2, CounterExists DEF Bank!AuditEntry
<1>4. e.decision = decision
  OBVIOUS
<1> HIDE DEF e
<1> QED BY <1>1, <1>3, <1>4 DEF Entered

(***************************************************************************)
(* What a match query or a probe comes to, whether or not it reaches the   *)
(* algorithm.                                                              *)
(***************************************************************************)
LEMMA SubmitsEffect ==
  ASSUME BankTyped, NEW i, NEW threshold, NEW answer \in Answers, Submits(i, threshold, answer)
  PROVE  /\ UNCHANGED <<records, grants, group_of, now>>
         /\ usage' \in [Bank!Key -> Nat]
         /\ usage'[Counter] <= usage[Counter] + 1
         /\ IF answer = "value_error" THEN audit' = audit ELSE Entered(answer)
         /\ IF Bank!Executed(query)
            THEN answer \in Outcomes(value, canonical(version, i), salt, threshold)
            ELSE answer = "none"
<1>1. usage \in [Bank!Key -> Nat] /\ Counter \in Bank!Key /\ usage[Counter] \in Nat
  BY CounterExists DEF BankTyped
<1>2. CASE Bank!Executed(query)
  <2>1. /\ answer \in Outcomes(value, canonical(version, i), salt, threshold)
        /\ CASE answer = "refused" -> Bank!Refused(query)
             [] answer = "value_error" -> Bank!Faulted(query)
             [] OTHER -> Bank!Answered(query)
    BY <1>2 DEF Submits
  <2>2. answer \in {"refused", "value_error", "true", "false"}
    BY <2>1 DEF Outcomes
  <2>3. CASE answer = "refused"
    <3>1. Bank!Charge(query) /\ Bank!Log(query, "deny", "refused") /\ UNCHANGED records
      BY <2>1, <2>3 DEF Bank!Refused
    <3>2. Entered(answer)
      BY <2>3, <3>1, LogEnters
    <3> QED BY <1>1, <1>2, <2>1, <2>3, <3>1, <3>2, ChargeCounts
  <2>4. CASE answer = "value_error"
    <3>1. Bank!AskBudget(query) /\ UNCHANGED <<records, audit, grants, usage>>
      BY <2>1, <2>4 DEF Bank!Faulted, Bank!ledger
    <3> QED BY <1>1, <1>2, <2>1, <2>4, <3>1, AskChangesNothing
  <2>5. CASE answer \in {"true", "false"}
    <3>1. Bank!Charge(query) /\ Bank!Log(query, "allow", "answered") /\ UNCHANGED records
      BY <2>1, <2>5 DEF Bank!Answered
    <3>2. Entered(answer)
      BY <2>5, <3>1, LogEnters
    <3> QED BY <1>1, <1>2, <2>1, <2>5, <3>1, <3>2, ChargeCounts
  <2> QED BY <2>2, <2>3, <2>4, <2>5
<1>3. CASE ~Bank!Executed(query)
  <2>1. answer = "none" /\ Bank!Submit(query)
    BY <1>3 DEF Submits
  <2>2. Bank!Registered(query)
    BY DEF Bank!Registered, query
  <2>3. ASSUME NEW decision \in {"deny", "consent_required"},
               NEW reason \in {"attribute", "permission", "budget", "no_record"},
               Bank!Log(query, decision, reason)
        PROVE  Entered(answer)
    BY <2>1, <2>3, LogEnters
  <2>4. CASE Bank!WrongAttribute(query)
    <3>1. Entered(answer)
      BY <2>3, <2>4 DEF Bank!WrongAttribute
    <3> QED BY <1>1, <1>3, <2>1, <2>4, <3>1 DEF Bank!WrongAttribute, Bank!ledger, Bank!budget
  <2>5. CASE Bank!NotPermitted(query)
    <3>1. Bank!Permission(query) \in {"deny", "consent_required"}
      BY <2>5 DEF Bank!NotPermitted, Bank!Permitted, Bank!Permission, Bank!Ledger!Decision
    <3>2. Entered(answer)
      BY <2>3, <2>5, <3>1 DEF Bank!NotPermitted
    <3> QED BY <1>1, <1>3, <2>1, <2>5, <3>2 DEF Bank!NotPermitted, Bank!ledger, Bank!budget
  <2>6. CASE Bank!OverBudget(query)
    <3>1. Entered(answer)
      BY <2>3, <2>6 DEF Bank!OverBudget
    <3> QED BY <1>1, <1>3, <2>1, <2>6, <3>1, AskChangesNothing DEF Bank!OverBudget, Bank!ledger
  <2>7. CASE Bank!NoRecord(query)
    <3>1. Entered(answer)
      BY <2>3, <2>7 DEF Bank!NoRecord
    <3> QED BY <1>1, <1>3, <2>1, <2>7, <3>1, AskChangesNothing DEF Bank!NoRecord, Bank!ledger
  <2> QED BY <1>3, <2>1, <2>2, <2>4, <2>5, <2>6, <2>7
          DEF Bank!Submit, Bank!UnknownAlgorithm, Bank!Refused, Bank!Answered, Bank!Faulted
<1> QED BY <1>2, <1>3

(***************************************************************************)
(* At first the Databank is empty.                                         *)
(***************************************************************************)
LEMMA InitBankTyped == Init => BankTyped
<1> SUFFICES ASSUME Init PROVE BankTyped
  OBVIOUS
<1>1. /\ audit = <<>>
      /\ grants = [o \in {ALICE} |-> <<>>]
      /\ usage = [c \in Bank!Key |-> 0]
      /\ now = 0
      /\ group_of = [a \in {identity} |-> None]
  BY DEF Init, Bank!Init, Bank!Ledger!Init, Bank!Budget!Init, Bank!Key, Bank!Request,
         Bank!Ledger!Key, Bank!Ledger!Request
<1> QED BY <1>1 DEF BankTyped

(***************************************************************************)
(* The owner's own operations leave her statement and the counters alone.  *)
(***************************************************************************)
LEMMA ActsKeepBank ==
  ASSUME BankTyped,
         \/ \E i \in Identities : DepositIdentity(i)
         \/ EraseIdentity
         \/ \E quota \in Quotas : GrantBroker(quota)
         \/ RevokeBroker
  PROVE  BankTyped' /\ Act /\ UNCHANGED <<audit, usage>>
<1> DEFINE Given == {Permission(quota) : quota \in Quotas}
<1>1. CASE (\E i \in Identities : DepositIdentity(i)) \/ EraseIdentity
  <2>1. Act /\ UNCHANGED <<audit, grants, usage, now, group_of>>
    BY <1>1 DEF DepositIdentity, EraseIdentity, Bank!Deposit, Bank!Erase, Bank!ledger, Bank!budget
  <2> QED BY <2>1 DEF BankTyped
<1>2. ASSUME NEW quota \in Quotas, GrantBroker(quota)
      PROVE  BankTyped' /\ Act /\ UNCHANGED <<audit, usage>>
  <2>1. /\ Act /\ UNCHANGED <<audit, usage, now, group_of>>
        /\ grants' = [grants EXCEPT ![ALICE] = Append(@, Permission(quota))]
    BY <1>2 DEF GrantBroker, Bank!Grant, Bank!Ledger!Grant, Bank!own, Bank!budget
  <2>2. Permission(quota) \in Given
    OBVIOUS
  <2>3. grants \in [{ALICE} -> Seq(Given)]
    BY DEF BankTyped
  <2> HIDE DEF Given
  <2>4. grants' \in [{ALICE} -> Seq(Given)]
    BY <2>1, <2>2, <2>3
  <2> QED BY <2>1, <2>4 DEF BankTyped, Given
<1>3. ASSUME RevokeBroker
      PROVE  BankTyped' /\ Act /\ UNCHANGED <<audit, usage>>
  <2> DEFINE kept == DOMAIN grants[ALICE] \ Bank!Ledger!Revoked(ALICE, BROKER, matches_owner)
  <2>1. /\ Act /\ UNCHANGED <<audit, usage, now, group_of>>
        /\ Bank!Ledger!Revoke(ALICE, BROKER, matches_owner)
    BY <1>3 DEF RevokeBroker, Bank!Revoke, Bank!Ledger!Revoke, Bank!own, Bank!budget
  <2>2. PICK pick \in [1..Bank!Ledger!Cardinality(kept) -> kept] :
          grants' = [grants EXCEPT ![ALICE] = [i \in DOMAIN pick |-> @[pick[i]]]]
    BY <2>1 DEF Bank!Ledger!Revoke
  <2>3. grants \in [{ALICE} -> Seq(Given)]
    BY DEF BankTyped
  <2>4. IsFiniteSet(kept) /\ kept \subseteq 1..Len(grants[ALICE])
    <3>1. grants[ALICE] \in Seq(Given)
      BY <2>3
    <3> HIDE DEF Given
    <3>2. DOMAIN grants[ALICE] = 1..Len(grants[ALICE]) /\ Len(grants[ALICE]) \in Nat
      BY <3>1
    <3>3. IsFiniteSet(1..Len(grants[ALICE]))
      BY <3>2, FS_Interval
    <3> QED BY <3>2, <3>3, FS_Subset
  <2>5. Bank!Ledger!Cardinality(kept) \in Nat
    <3>1. Bank!Ledger!Cardinality(kept) = Cardinality(kept)
      BY DEF Bank!Ledger!Cardinality, Cardinality, Bank!Ledger!IsFiniteSet, IsFiniteSet
    <3> QED BY <2>4, <3>1, FS_CardinalityType
  <2> HIDE DEF kept, Given
  <2>6. [i \in DOMAIN pick |-> grants[ALICE][pick[i]]] \in Seq(Given)
    <3>1. \A j \in kept : grants[ALICE][j] \in Given
      BY <2>3, <2>4
    <3>2. [i \in DOMAIN pick |-> grants[ALICE][pick[i]]]
            \in [1..Bank!Ledger!Cardinality(kept) -> Given]
      BY <3>1
    <3> QED BY <2>5, <3>2
  <2>7. grants' \in [{ALICE} -> Seq(Given)]
    BY <2>2, <2>3, <2>6
  <2> QED BY <2>1, <2>7 DEF BankTyped, Given
<1> QED BY <1>1, <1>2, <1>3

(***************************************************************************)
(* Every step keeps the types.                                             *)
(***************************************************************************)
LEMMA NextBankTyped == BankTyped /\ [Next]_vars => BankTyped'
<1> SUFFICES ASSUME BankTyped, [Next]_vars PROVE BankTyped'
  OBVIOUS
<1>1. CASE UNCHANGED bank
  BY <1>1 DEF bank, BankTyped
<1>2. ASSUME NEW i, NEW threshold, NEW answer \in Answers, Submits(i, threshold, answer)
      PROVE  BankTyped'
  <2>1. audit' \in Seq(Bank!AuditEntry)
    <3>1. audit \in Seq(Bank!AuditEntry)
      BY DEF BankTyped
    <3>2. audit' = audit \/ \E e \in Bank!AuditEntry : audit' = Append(audit, e)
      BY <1>2, SubmitsEffect DEF Entered
    <3> QED BY <3>1, <3>2
  <2> QED BY <1>2, <2>1, SubmitsEffect DEF BankTyped
<1>3. CASE Script
  BY <1>1, <1>2, <1>3 DEF Script, Select, Compare, Ask, Probe
<1>4. CASE Broadcast
  BY <1>1, <1>4 DEF Broadcast
<1> QED BY <1>1, <1>3, <1>4, ActsKeepBank DEF Next, vars

-----------------------------------------------------------------------------
(* The script.                                                             *)

\* The candidates are places of records, and every query asked about one.
ScriptTyped ==
  /\ in_band \subseteq DOMAIN BROKER_RECORDS
  /\ asked \in Seq([record : DOMAIN BROKER_RECORDS, answer : Answers])

(***************************************************************************)
(* As long as there are candidates, one is the next.                       *)
(***************************************************************************)
LEMMA CandidateExists ==
  ASSUME ScriptTyped, in_band # {}
  PROVE  Candidate \in in_band /\ Candidate \in DOMAIN BROKER_RECORDS
<1>1. DOMAIN BROKER_RECORDS \subseteq Nat
  <2>1. BROKER_RECORDS \in Seq(Identity)
    BY ErasureAssumption
  <2> QED BY <2>1
<1>2. \E i \in in_band : \A j \in in_band : i <= j
  <2>1. in_band \in SUBSET Nat
    BY <1>1 DEF ScriptTyped
  <2> QED BY <2>1, LeastNatural
<1> QED BY <1>2 DEF Candidate, ScriptTyped

\* A step that asks about nothing, and leaves the statement and the counters.
Rests ==
  /\ UNCHANGED <<audit, usage, asked, deleted, salt, version>>
  /\ known \subseteq known'

\* A step that asks about a record, and may delete it if it matches.
Asks ==
  \E answer \in Answers, i \in DOMAIN BROKER_RECORDS, threshold \in {"0.5", NoThreshold} :
    /\ Submits(i, threshold, answer)
    /\ deleted' = deleted \/ (answer = "true" /\ deleted' = deleted \cup {i})

(***************************************************************************)
(* What the script adds to the queries asked and to the records deleted:   *)
(* nothing, or the answer to one query; what the owner does adds nothing.  *)
(***************************************************************************)
LEMMA StepAsksOnce ==
  ASSUME BankTyped, ScriptTyped, [Next]_vars
  PROVE  Rests \/ Asks
<1>1. ASSUME NEW answer \in Answers, Ask(answer) PROVE Asks
  BY <1>1, CandidateExists DEF Ask, Deletes, Asks
<1>2. ASSUME NEW answer \in Answers, NEW i \in {Probed, Unrelated},
             NEW threshold \in {"0.5", NoThreshold}, NEW from, NEW to,
             Probe(i, threshold, from, to, answer)
      PROVE  Asks
  BY <1>2, ErasureAssumption DEF Probe, Asks
<1>3. CASE Script
  <2>1. CASE Select \/ Compare
    BY <2>1 DEF Select, Compare, bank, owner, Rests
  <2>2. CASE \E answer \in Answers : Ask(answer)
    BY <1>1, <2>2
  <2>3. CASE \E answer \in Answers :
               \/ Probe(Probed, "0.5", "comparing", "probing", answer)
               \/ Probe(Unrelated, NoThreshold, "probing", "done", answer)
    BY <1>2, <2>3
  <2> QED BY <1>3, <2>1, <2>2, <2>3 DEF Script
<1>4. CASE Broadcast \/ UNCHANGED vars
  BY <1>4 DEF vars, Broadcast, bank, company, owner, Rests
<1>5. CASE \/ \E i \in Identities : DepositIdentity(i)
           \/ EraseIdentity
           \/ \E quota \in Quotas : GrantBroker(quota)
           \/ RevokeBroker
  <2>1. UNCHANGED <<audit, usage>> /\ UNCHANGED company
    BY <1>5, ActsKeepBank DEF Act
  <2>2. known \subseteq known'
    BY <1>5 DEF DepositIdentity, EraseIdentity, GrantBroker, RevokeBroker
  <2> QED BY <2>1, <2>2 DEF company, Rests
<1> QED BY <1>3, <1>4, <1>5 DEF Next

(***************************************************************************)
(* The places remain places of records.                                    *)
(***************************************************************************)
LEMMA ScriptTypedAlways ==
  /\ Init => ScriptTyped
  /\ BankTyped /\ ScriptTyped /\ [Next]_vars => ScriptTyped'
<1>1. Init => ScriptTyped
  BY DEF Init, ScriptTyped
<1>2. ASSUME BankTyped, ScriptTyped, [Next]_vars PROVE ScriptTyped'
  <2>1. in_band' \subseteq in_band \/ in_band' \subseteq DOMAIN BROKER_RECORDS
    <3>1. CASE Script
      BY <3>1 DEF Script, Select, Candidates, Compare, Ask, Rest, Probe
    <3>2. CASE ~Script
      BY <1>2, <3>2 DEF Next, vars, DepositIdentity, EraseIdentity, GrantBroker, RevokeBroker,
                  Broadcast, Act, company
    <3> QED BY <3>1, <3>2
  <2>2. asked' \in Seq([record : DOMAIN BROKER_RECORDS, answer : Answers])
    <3>1. asked \in Seq([record : DOMAIN BROKER_RECORDS, answer : Answers])
      BY <1>2 DEF ScriptTyped
    <3>2. CASE Rests
      BY <3>1, <3>2 DEF Rests
    <3>3. ASSUME NEW answer \in Answers, NEW i \in DOMAIN BROKER_RECORDS,
                 NEW threshold, Submits(i, threshold, answer)
          PROVE  asked' \in Seq([record : DOMAIN BROKER_RECORDS, answer : Answers])
      BY <3>1, <3>3 DEF Submits
    <3> QED BY <1>2, <3>2, <3>3, StepAsksOnce DEF Asks
  <2> QED BY <1>2, <2>1, <2>2 DEF ScriptTyped
<1> QED BY <1>1, <1>2

-----------------------------------------------------------------------------
(* Strangers and other versions.                                           *)

\* The Databank holds a record as long as the owner has deposited and not
\* erased an identity.
Held ==
  /\ value # NoIdentity <=> <<ALICE, identity>> \in records
  /\ value # NoIdentity => value \in known

(***************************************************************************)
(* Only the owner's deposits and erasures touch her record.                *)
(***************************************************************************)
LEMMA HeldAlways ==
  /\ Init => Held
  /\ BankTyped /\ Held /\ [Next]_vars => Held'
<1>1. Init => Held
  BY DEF Init, Bank!Init, Held
<1>2. ASSUME BankTyped, Held, [Next]_vars PROVE Held'
  <2>1. CASE UNCHANGED <<value, known, records>>
    BY <1>2, <2>1 DEF Held
  <2>2. ASSUME NEW i \in Identities, DepositIdentity(i) PROVE Held'
    <3>1. i # NoIdentity
      BY ErasureAssumption
    <3> QED BY <2>2, <3>1 DEF DepositIdentity, Bank!Deposit, Held
  <2>3. CASE EraseIdentity
    BY <2>3 DEF EraseIdentity, Bank!Erase, Held
  <2>4. ASSUME NEW quota \in Quotas, GrantBroker(quota) PROVE Held'
    BY <2>1, <2>4 DEF GrantBroker, Bank!Grant, Bank!own
  <2>5. CASE RevokeBroker
    BY <2>1, <2>5 DEF RevokeBroker, Bank!Revoke, Bank!own
  <2>6. ASSUME NEW i, NEW threshold, NEW answer \in Answers, Submits(i, threshold, answer)
        PROVE  Held'
    <3>1. UNCHANGED records
      BY <1>2, <2>6, SubmitsEffect
    <3> QED BY <2>1, <2>6, <3>1 DEF Submits, owner
  <2>7. CASE Script
    BY <2>1, <2>6, <2>7 DEF Script, Select, Compare, Ask, Probe, bank, owner
  <2>8. CASE Broadcast \/ UNCHANGED vars
    BY <2>1, <2>8 DEF Broadcast, vars, bank, owner
  <2> QED BY <1>2, <2>2, <2>3, <2>4, <2>5, <2>7, <2>8 DEF Next
<1> QED BY <1>1, <1>2

(***************************************************************************)
(* What an answer "true" says: the Databank holds an identity, of the      *)
(* band and the version of the candidate, and as similar as is required.   *)
(***************************************************************************)
LEMMA TrueMatches ==
  ASSUME BankTyped, Held, NEW i, NEW threshold, Submits(i, threshold, "true")
  PROVE  /\ version = CANONICALISATION_VERSION
         /\ value \in known /\ SameBand(i, value) /\ MayMatch(i, value)
<1>1. /\ Bank!Executed(query)
      /\ "true" \in Outcomes(value, canonical(version, i), salt, threshold)
  BY SubmitsEffect DEF Answers
<1>2. value \in known
  BY <1>1 DEF Bank!Executed, Bank!Holds, query, Held
<1>3. /\ fingerprint(canonicalise_identity(value), salt, FINGERPRINT_BITS)
           = fingerprint(canonical(version, i), salt, FINGERPRINT_BITS)
      /\ TRUE \in Comparisons(canonicalise_identity(value), canonical(version, i))
      /\ version = CANONICALISATION_VERSION
  <2>1. /\ fingerprint(canonicalise_identity(value), salt, FINGERPRINT_BITS)
             = fingerprint(canonical(version, i), salt, FINGERPRINT_BITS)
        /\ TRUE \in Comparisons(canonicalise_identity(value), canonical(version, i))
    BY <1>1, OutcomesAre
  <2>2. ASSUME version # CANONICALISATION_VERSION PROVE FALSE
    <3>1. Outcomes(value, canonical(version, i), salt, threshold) \subseteq {"refused", "value_error"}
      BY <2>2, OutcomesAre
    <3> QED BY <1>1, <3>1
  <2> QED BY <2>1, <2>2
<1> QED BY <1>2, <1>3 DEF SameBand, MayMatch

(***************************************************************************)
(* A stranger's record survives, for whatever the owner does between       *)
(* broadcast and answer.                                                   *)
(***************************************************************************)
THEOREM StrangersAlwaysSurvive == Spec => []StrangersSurvive
<1> DEFINE Inv == BankTyped /\ ScriptTyped /\ Held /\ StrangersSurvive
<1>1. Init => Inv
  <2>1. Init => StrangersSurvive
    BY DEF Init, StrangersSurvive
  <2> QED BY <2>1, InitBankTyped, ScriptTypedAlways, HeldAlways
<1>2. Inv /\ [Next]_vars => Inv'
  <2> SUFFICES ASSUME BankTyped, ScriptTyped, Held, StrangersSurvive, [Next]_vars
               PROVE  StrangersSurvive'
    BY NextBankTyped, ScriptTypedAlways, HeldAlways
  <2>1. CASE Rests
    BY <2>1 DEF Rests, StrangersSurvive, SameBand, MayMatch
  <2>2. ASSUME NEW answer \in Answers, NEW i \in DOMAIN BROKER_RECORDS,
               NEW threshold, Submits(i, threshold, answer),
               deleted' = deleted \/ (answer = "true" /\ deleted' = deleted \cup {i})
        PROVE  StrangersSurvive'
    <3>1. UNCHANGED <<salt, version, known>>
      BY <2>2 DEF Submits, owner
    <3>2. ASSUME answer = "true"
          PROVE  value \in known /\ SameBand(i, value) /\ MayMatch(i, value)
      BY <2>2, <3>2, TrueMatches
    <3>3. \A k \in deleted' : \E j \in known : SameBand(k, j) /\ MayMatch(k, j)
      BY <2>2, <3>2 DEF StrangersSurvive
    <3> QED BY <3>1, <3>3 DEF StrangersSurvive, SameBand, MayMatch
  <2> QED BY <2>1, <2>2, StepAsksOnce DEF Asks
<1>3. Inv => StrangersSurvive
  OBVIOUS
<1> QED BY <1>1, <1>2, <1>3, PTL DEF Spec

(***************************************************************************)
(* A company on another version of canonicalisation learns nothing and     *)
(* deletes nothing, whatever its fingerprints collide with.                *)
(***************************************************************************)
THEOREM OtherVersionsRefused == Spec => []RefusedNotGuessed
<1> DEFINE Inv == BankTyped /\ ScriptTyped /\ RefusedNotGuessed
<1>1. Init => Inv
  <2>1. Init => RefusedNotGuessed
    BY DEF Init, RefusedNotGuessed
  <2> QED BY <2>1, InitBankTyped, ScriptTypedAlways
<1>2. Inv /\ [Next]_vars => Inv'
  <2> SUFFICES ASSUME BankTyped, ScriptTyped, RefusedNotGuessed, [Next]_vars,
                      version' # CANONICALISATION_VERSION
               PROVE  /\ deleted' = {}
                      /\ \A n \in DOMAIN asked' : asked'[n].answer \notin {"true", "false"}
    BY NextBankTyped, ScriptTypedAlways DEF RefusedNotGuessed
  <2>1. CASE Rests
    BY <2>1 DEF Rests, RefusedNotGuessed
  <2>2. ASSUME NEW answer \in Answers, NEW i \in DOMAIN BROKER_RECORDS,
               NEW threshold, Submits(i, threshold, answer),
               deleted' = deleted \/ (answer = "true" /\ deleted' = deleted \cup {i})
        PROVE  /\ deleted' = {}
               /\ \A n \in DOMAIN asked' : asked'[n].answer \notin {"true", "false"}
    <3>1. version' = version /\ asked' = Append(asked, [record |-> i, answer |-> answer])
      BY <2>2 DEF Submits
    <3>2. answer \notin {"true", "false"}
      <4>1. \/ answer \in Outcomes(value, canonical(version, i), salt, threshold)
            \/ answer = "none"
        BY <2>2, SubmitsEffect
      <4>2. Outcomes(value, canonical(version, i), salt, threshold) \subseteq {"refused", "value_error"}
        BY <3>1, OutcomesAre
      <4> QED BY <4>1, <4>2
    <3>3. /\ deleted = {}
          /\ \A n \in DOMAIN asked : asked[n].answer \notin {"true", "false"}
      BY <3>1 DEF RefusedNotGuessed
    <3>4. asked \in Seq([record : DOMAIN BROKER_RECORDS, answer : Answers])
      BY DEF ScriptTyped
    <3>5. \A n \in DOMAIN asked' : asked'[n].answer \notin {"true", "false"}
      BY <3>1, <3>2, <3>3, <3>4
    <3> QED BY <2>2, <3>2, <3>3, <3>5
  <2> QED BY <2>1, <2>2, StepAsksOnce DEF Asks
<1>3. Inv => RefusedNotGuessed
  OBVIOUS
<1> QED BY <1>1, <1>2, <1>3, PTL DEF Spec

-----------------------------------------------------------------------------
(* The statement.                                                          *)

\* The queries logged up to the n-th.
LoggedTo(n) == {m \in Logged : m <= n}

\* The entries of the statement are those of the queries, in order; a refusal
\* is entered as denied.
Recorded ==
  /\ Len(audit) = Cardinality(Logged)
  /\ \A n \in Logged :
       LET entry == audit[Cardinality(LoggedTo(n))]
       IN  /\ entry.decision = "allow" <=> asked[n].answer \in {"true", "false"}
           /\ asked[n].answer = "refused" => entry.decision = "deny"

(***************************************************************************)
(* Every query that was logged has a place on the statement.               *)
(***************************************************************************)
LEMMA LoggedFinite ==
  ASSUME ScriptTyped
  PROVE  /\ Logged \subseteq 1..Len(asked)
         /\ IsFiniteSet(Logged) /\ Cardinality(Logged) \in Nat
         /\ \A n \in Logged : Cardinality(LoggedTo(n)) \in 1..Cardinality(Logged)
<1>1. /\ DOMAIN asked = 1..Len(asked) /\ Len(asked) \in Nat
      /\ Logged \subseteq 1..Len(asked)
  BY DEF ScriptTyped, Logged
<1>2. IsFiniteSet(Logged) /\ Cardinality(Logged) \in Nat
  <2>1. IsFiniteSet(1..Len(asked))
    BY <1>1, FS_Interval
  <2> QED BY <1>1, <2>1, FS_Subset, FS_CardinalityType
<1>3. ASSUME NEW n \in Logged
      PROVE  Cardinality(LoggedTo(n)) \in 1..Cardinality(Logged)
  <2>1. LoggedTo(n) \subseteq Logged /\ n \in LoggedTo(n)
    BY <1>1 DEF LoggedTo
  <2>2. /\ IsFiniteSet(LoggedTo(n)) /\ Cardinality(LoggedTo(n)) \in Nat
        /\ Cardinality(LoggedTo(n)) <= Cardinality(Logged)
    BY <1>2, <2>1, FS_Subset, FS_CardinalityType
  <2>3. Cardinality(LoggedTo(n)) # 0
    BY <2>1, <2>2, FS_EmptySet
  <2> QED BY <1>2, <2>2, <2>3
<1> QED BY <1>1, <1>2, <1>3

(***************************************************************************)
(* A query adds its entry at the end of the statement, or none at all when *)
(* it ends in an exception.                                                *)
(***************************************************************************)
LEMMA SubmitsRecorded ==
  ASSUME BankTyped, ScriptTyped, Recorded, NEW i \in DOMAIN BROKER_RECORDS, NEW threshold,
         NEW answer \in Answers, Submits(i, threshold, answer)
  PROVE  Recorded'
<1>k. PICK k \in Nat : k = Len(asked) + 1
  BY DEF ScriptTyped
<1>1. /\ asked \in Seq([record : DOMAIN BROKER_RECORDS, answer : Answers])
      /\ asked' = Append(asked, [record |-> i, answer |-> answer])
  BY DEF ScriptTyped, Submits
<1>2. /\ Len(asked) \in Nat /\ DOMAIN asked' = 1..k /\ DOMAIN asked = 1..Len(asked)
      /\ \A n \in 1..Len(asked) : asked'[n] = asked[n]
      /\ asked'[k].answer = answer
  BY <1>1, <1>k
<1>3. /\ Logged \subseteq 1..Len(asked)
      /\ IsFiniteSet(Logged) /\ Cardinality(Logged) \in Nat
      /\ \A n \in Logged : Cardinality(LoggedTo(n)) \in 1..Cardinality(Logged)
  BY LoggedFinite
<1>4. audit \in Seq(Bank!AuditEntry) /\ Len(audit) = Cardinality(Logged)
  BY DEF BankTyped, Recorded
<1>5. CASE answer = "value_error"
  <2>1. audit' = audit
    BY <1>5, SubmitsEffect
  <2>2. Logged' = Logged
    <3>1. DOMAIN asked' = DOMAIN asked \cup {k} /\ k \notin DOMAIN asked
      BY <1>2, <1>k
    <3> QED BY <1>2, <1>5, <3>1 DEF Logged
  <2>3. \A n : LoggedTo(n)' = LoggedTo(n)
    BY <2>2 DEF LoggedTo
  <2>4. \A n \in Logged : asked'[n] = asked[n]
    BY <1>2, <1>3
  <2> QED BY <2>1, <2>2, <2>3, <2>4 DEF Recorded
<1>6. CASE answer # "value_error"
  <2>1. PICK e \in Bank!AuditEntry :
          /\ audit' = Append(audit, e)
          /\ e.decision = "allow" <=> answer \in {"true", "false"}
          /\ answer = "refused" => e.decision = "deny"
    BY <1>6, SubmitsEffect DEF Entered
  <2>2. /\ Len(audit') = Len(audit) + 1
        /\ \A n \in 1..Len(audit) : audit'[n] = audit[n]
        /\ audit'[Len(audit) + 1] = e
    BY <1>4, <2>1
  <2>3. Logged' = Logged \cup {k}
    BY <1>2, <1>6, <1>k DEF Logged
  <2>4. Cardinality(Logged') = Cardinality(Logged) + 1
    <3>1. k \notin Logged
      BY <1>2, <1>3, <1>k
    <3> QED BY <1>3, <2>3, <3>1, FS_AddElement
  <2>5. ASSUME NEW n \in Logged PROVE LoggedTo(n)' = LoggedTo(n)
    <3>1. n \in Nat /\ n <= Len(asked) /\ ~ (k <= n)
      BY <1>2, <1>3, <1>k
    <3> QED BY <2>3, <3>1 DEF LoggedTo
  <2>6. LoggedTo(k)' = Logged'
    <3>1. \A m \in Logged : m <= k
      BY <1>2, <1>3, <1>k
    <3>2. k <= k
      BY <1>2
    <3> QED BY <2>3, <3>1, <3>2 DEF LoggedTo
  <2>7. ASSUME NEW n \in Logged'
        PROVE  LET entry == audit'[Cardinality(LoggedTo(n)')]
               IN  /\ entry.decision = "allow" <=> asked'[n].answer \in {"true", "false"}
                   /\ asked'[n].answer = "refused" => entry.decision = "deny"
    <3>1. CASE n \in Logged
      <4>1. asked'[n] = asked[n] /\ Cardinality(LoggedTo(n)) \in 1..Len(audit)
        BY <1>2, <1>3, <1>4, <3>1
      <4>2. audit'[Cardinality(LoggedTo(n)')] = audit[Cardinality(LoggedTo(n))]
        BY <2>2, <2>5, <3>1, <4>1
      <4> QED BY <3>1, <4>1, <4>2 DEF Recorded
    <3>2. CASE n = k
      <4>1. Cardinality(LoggedTo(n)') = Len(audit) + 1
        BY <1>4, <2>4, <2>6, <3>2
      <4>2. audit'[Cardinality(LoggedTo(n)')] = e
        BY <2>2, <4>1
      <4> QED BY <1>2, <2>1, <3>2, <4>2
    <3> QED BY <2>3, <3>1, <3>2
  <2> QED BY <1>4, <2>2, <2>4, <2>7 DEF Recorded
<1> QED BY <1>5, <1>6

(***************************************************************************)
(* The statement keeps up with the queries.                                *)
(***************************************************************************)
LEMMA RecordedAlways ==
  /\ Init => Recorded
  /\ BankTyped /\ ScriptTyped /\ Recorded /\ [Next]_vars => Recorded'
<1>1. ASSUME Init PROVE Recorded
  <2>1. asked = <<>> /\ audit = <<>>
    BY <1>1 DEF Init, Bank!Init
  <2>2. Logged = {}
    BY <2>1 DEF Logged
  <2>3. Cardinality(Logged) = 0 /\ Len(audit) = 0
    BY <2>1, <2>2, FS_EmptySet
  <2> QED BY <2>2, <2>3 DEF Recorded
<1>2. ASSUME BankTyped, ScriptTyped, Recorded, [Next]_vars PROVE Recorded'
  <2>1. CASE Rests
    <3>1. audit' = audit
      BY <2>1 DEF Rests
    <3>2. asked' = asked
      BY <2>1 DEF Rests
    <3>3. Logged' = Logged
      BY <3>2 DEF Logged
    <3>4. \A n : LoggedTo(n)' = LoggedTo(n)
      BY <3>3 DEF LoggedTo
    <3>5. Recorded
      BY <1>2
    <3> QED BY <3>1, <3>2, <3>3, <3>4, <3>5 DEF Recorded
  <2>2. CASE Asks
    BY <1>2, <2>2, SubmitsRecorded DEF Asks
  <2> QED BY <1>2, <2>1, <2>2, StepAsksOnce
<1> QED BY <1>1, <1>2

(***************************************************************************)
(* The owner's statement shows every query about her that did not end in   *)
(* an exception, in order, and tells those that were answered from those   *)
(* that were not.                                                          *)
(***************************************************************************)
THEOREM StatementIsComplete == Spec => []StatementShowsQueries
<1> DEFINE Inv == BankTyped /\ ScriptTyped /\ Recorded
<1>1. Init => Inv
  BY InitBankTyped, ScriptTypedAlways, RecordedAlways
<1>2. Inv /\ [Next]_vars => Inv'
  BY NextBankTyped, ScriptTypedAlways, RecordedAlways
<1>3. Inv => StatementShowsQueries
  BY DEF Recorded, StatementShowsQueries, LoggedTo
<1> QED BY <1>1, <1>2, <1>3, PTL DEF Spec

-----------------------------------------------------------------------------
(* A script that is left alone.                                            *)

\* Every charge is for a query that was asked, and there are no more of those
\* than records, until the probes.
Within ==
  /\ usage[Counter] <= Len(asked)
  /\ phase \in {"before", "broadcast"} => asked = <<>>
  /\ phase = "asking" => Len(asked) + Cardinality(in_band) <= Len(BROKER_RECORDS)
  /\ phase = "comparing" => Len(asked) <= Len(BROKER_RECORDS)
  /\ phase = "probing" => Len(asked) <= Len(BROKER_RECORDS) + 1

\* As long as the owner leaves the script alone, what was broadcast is the band
\* of the identity that is held.
Calm ==
  ~disturbed /\ phase # "before" =>
    /\ value # NoIdentity
    /\ band = fingerprint(canonicalise_identity(value), salt, FINGERPRINT_BITS)

(***************************************************************************)
(* A step of the script changes neither the owner's side nor the           *)
(* broadcast.                                                              *)
(***************************************************************************)
LEMMA ScriptKeeps ==
  ASSUME BankTyped, Script
  PROVE  /\ UNCHANGED <<owner, salt, band, version, grants>>
         /\ phase \notin {"before", "done", "failed"}
<1>1. ASSUME NEW i, NEW threshold, NEW answer \in Answers, Submits(i, threshold, answer)
      PROVE  UNCHANGED <<owner, salt, band, version, grants>>
  BY <1>1, SubmitsEffect DEF Submits
<1> QED BY <1>1 DEF Script, Select, Compare, Ask, Probe, bank

(***************************************************************************)
(* A query adds one answer and at most one charge.                         *)
(***************************************************************************)
LEMMA SubmitsWithin ==
  ASSUME BankTyped, ScriptTyped, Within, NEW i \in DOMAIN BROKER_RECORDS, NEW threshold,
         NEW answer \in Answers, Submits(i, threshold, answer)
  PROVE  /\ Len(asked) \in Nat /\ Len(asked') = Len(asked) + 1
         /\ usage'[Counter] <= Len(asked')
         /\ \A n \in 1..Len(asked) : asked'[n] = asked[n]
         /\ asked'[Len(asked')].answer = answer
         /\ DOMAIN asked' = 1..Len(asked')
<1>1. /\ asked \in Seq([record : DOMAIN BROKER_RECORDS, answer : Answers])
      /\ asked' = Append(asked, [record |-> i, answer |-> answer])
  BY DEF ScriptTyped, Submits
<1>2. /\ Len(asked) \in Nat /\ Len(asked') = Len(asked) + 1
      /\ \A n \in 1..Len(asked) : asked'[n] = asked[n]
      /\ asked'[Len(asked) + 1].answer = answer
      /\ DOMAIN asked' = 1..Len(asked) + 1
  BY <1>1
<1>3. /\ usage[Counter] \in Nat /\ usage'[Counter] \in Nat
      /\ usage'[Counter] <= usage[Counter] + 1 /\ usage[Counter] <= Len(asked)
  BY CounterExists, SubmitsEffect DEF BankTyped, Within
<1> QED BY <1>2, <1>3

(***************************************************************************)
(* The candidates are among the records, and each is asked about once.     *)
(***************************************************************************)
LEMMA WithinAlways ==
  /\ Init => Within
  /\ BankTyped /\ ScriptTyped /\ Within /\ [Next]_vars => Within'
<1>0. /\ IsFiniteSet(DOMAIN BROKER_RECORDS)
      /\ Len(BROKER_RECORDS) \in Nat
      /\ Cardinality(DOMAIN BROKER_RECORDS) = Len(BROKER_RECORDS)
  <2>1. BROKER_RECORDS \in Seq(Identity)
    BY ErasureAssumption
  <2>2. DOMAIN BROKER_RECORDS = 1..Len(BROKER_RECORDS) /\ Len(BROKER_RECORDS) \in Nat
    BY <2>1
  <2>3. IsFiniteSet(1..Len(BROKER_RECORDS))
        /\ Cardinality(1..Len(BROKER_RECORDS)) = Len(BROKER_RECORDS)
    <3> DEFINE n == Len(BROKER_RECORDS)
    <3>1. n \in Nat
      BY <2>2
    <3> HIDE DEF n
    <3>2. IsFiniteSet(1..n) /\ Cardinality(1..n) = n
      BY <3>1, FS_Interval
    <3> QED BY <3>2 DEF n
  <2> QED BY <2>2, <2>3
<1>1. ASSUME Init PROVE Within
  <2>1. asked = <<>> /\ usage = [c \in Bank!Key |-> 0] /\ phase = "before"
    BY <1>1 DEF Init, Bank!Init, Bank!Ledger!Init, Bank!Key, Bank!Request,
               Bank!Ledger!Key, Bank!Ledger!Request
  <2>2. usage[Counter] = 0 /\ Len(asked) = 0
    BY <2>1, CounterExists
  <2> QED BY <2>1, <2>2 DEF Within
<1>2. ASSUME BankTyped, ScriptTyped, Within, [Next]_vars PROVE Within'
  <2>0. /\ IsFiniteSet(in_band) /\ Cardinality(in_band) \in Nat
        /\ Len(asked) \in Nat /\ usage[Counter] <= Len(asked)
    BY <1>0, <1>2, FS_Subset, FS_CardinalityType DEF ScriptTyped, Within
  <2>1. CASE UNCHANGED <<asked, usage, phase, in_band>>
    <3>1. Within
      BY <1>2
    <3> QED BY <2>1, <3>1 DEF Within, Counter, Asked, query, Bank!RequestOf
  <2>2. CASE Broadcast
    <3>1. asked = <<>> /\ UNCHANGED <<asked, usage>> /\ phase' = "broadcast"
      BY <1>2, <2>2 DEF Broadcast, bank, Within
    <3> QED BY <2>0, <3>1 DEF Within, Counter, Asked, query, Bank!RequestOf
  <2>3. CASE Select
    <3>1. asked = <<>> /\ UNCHANGED <<asked, usage>> /\ phase' = "asking"
          /\ in_band' \subseteq DOMAIN BROKER_RECORDS
      BY <1>2, <2>3 DEF Select, Candidates, bank, Within
    <3>2. Cardinality(in_band') <= Len(BROKER_RECORDS) /\ Cardinality(in_band') \in Nat
      BY <1>0, <3>1, FS_Subset, FS_CardinalityType
    <3>3. Len(asked) = 0
      BY <3>1
    <3> QED BY <1>0, <2>0, <3>1, <3>2, <3>3 DEF Within, Counter, Asked, query, Bank!RequestOf
  <2>4. ASSUME NEW answer \in Answers, Ask(answer) PROVE Within'
    <3>1. /\ Submits(Candidate, NoThreshold, answer)
          /\ in_band' = in_band \ {Candidate}
          /\ phase = "asking" /\ phase' \in {"asking", "failed"}
          /\ Candidate \in in_band /\ Candidate \in DOMAIN BROKER_RECORDS
      BY <1>2, <2>4, CandidateExists DEF Ask, Rest
    <3>2. Len(asked') = Len(asked) + 1 /\ usage'[Counter] <= Len(asked')
      BY <1>2, <3>1, SubmitsWithin
    <3>3. Cardinality(in_band') = Cardinality(in_band) - 1
      BY <2>0, <3>1, FS_RemoveElement
    <3>4. Len(asked) + Cardinality(in_band) <= Len(BROKER_RECORDS)
      BY <1>2, <3>1 DEF Within
    <3> QED BY <1>0, <2>0, <3>1, <3>2, <3>3, <3>4
            DEF Within, Counter, Asked, query, Bank!RequestOf
  <2>5. CASE Compare
    <3>1. /\ UNCHANGED <<asked, usage>> /\ phase' \in {"comparing", "failed"}
          /\ phase = "asking" /\ in_band = {}
      BY <2>5 DEF Compare, bank
    <3>2. Cardinality(in_band) = 0
      BY <3>1, FS_EmptySet
    <3>3. Len(asked) <= Len(BROKER_RECORDS)
      BY <1>0, <1>2, <2>0, <3>1, <3>2 DEF Within
    <3> QED BY <2>0, <3>1, <3>3 DEF Within, Counter, Asked, query, Bank!RequestOf
  <2>6. ASSUME NEW answer \in Answers, NEW i \in DOMAIN BROKER_RECORDS, NEW threshold,
               \/ Probe(i, threshold, "comparing", "probing", answer)
               \/ Probe(i, threshold, "probing", "done", answer)
        PROVE  Within'
    <3>1. /\ Submits(i, threshold, answer)
          /\ \/ phase = "comparing" /\ phase' \in {"probing", "failed"}
             \/ phase = "probing" /\ phase' \in {"done", "failed"}
      BY <2>6 DEF Probe
    <3>2. Len(asked') = Len(asked) + 1 /\ usage'[Counter] <= Len(asked')
      BY <1>2, <3>1, SubmitsWithin
    <3>3. phase = "comparing" => Len(asked) <= Len(BROKER_RECORDS)
      BY <1>2 DEF Within
    <3> QED BY <1>0, <2>0, <3>1, <3>2, <3>3 DEF Within, Counter, Asked, query, Bank!RequestOf
  <2>7. CASE Script
    BY <2>3, <2>4, <2>5, <2>6, <2>7, ErasureAssumption DEF Script
  <2>8. CASE \/ \E i \in Identities : DepositIdentity(i)
             \/ EraseIdentity
             \/ \E quota \in Quotas : GrantBroker(quota)
             \/ RevokeBroker
    BY <1>2, <2>1, <2>8, ActsKeepBank DEF Act, company
  <2>9. CASE UNCHANGED vars
    BY <2>1, <2>9 DEF vars, bank, company
  <2> QED BY <1>2, <2>2, <2>7, <2>8, <2>9 DEF Next
<1> QED BY <1>1, <1>2

(***************************************************************************)
(* The broadcast stays that of the identity held until the owner acts.     *)
(***************************************************************************)
LEMMA CalmAlways ==
  /\ Init => Calm
  /\ BankTyped /\ Calm /\ [Next]_vars => Calm'
<1>1. Init => Calm
  BY DEF Init, Calm
<1>2. ASSUME BankTyped, Calm, [Next]_vars PROVE Calm'
  <2>1. CASE Broadcast
    BY <2>1 DEF Broadcast, owner, Calm
  <2>2. CASE Script
    <3>1. UNCHANGED <<value, disturbed, salt, band>> /\ phase # "before"
      BY <1>2, <2>2, ScriptKeeps DEF owner
    <3>2. Calm
      BY <1>2
    <3> QED BY <3>1, <3>2 DEF Calm
  <2>3. CASE \/ \E i \in Identities : DepositIdentity(i)
             \/ EraseIdentity
             \/ \E quota \in Quotas : GrantBroker(quota)
             \/ RevokeBroker
    <3>1. phase' = phase /\ disturbed' = (phase # "before")
      BY <1>2, <2>3, ActsKeepBank DEF Act, company
    <3> QED BY <3>1 DEF Calm
  <2>4. CASE UNCHANGED vars
    <3>1. Calm
      BY <1>2
    <3> QED BY <2>4, <3>1 DEF vars, company, owner, Calm
  <2> QED BY <1>2, <2>1, <2>2, <2>3, <2>4 DEF Next
<1> QED BY <1>1, <1>2

-----------------------------------------------------------------------------
(* What the script comes to.                                               *)

\* The n-th query was refused.
Refusal(n) == n \in DOMAIN asked /\ asked[n].answer = "refused"

\* Between records of one version nothing ends in an exception.
Comparable ==
  version = CANONICALISATION_VERSION =>
    \A n \in DOMAIN asked : asked[n].answer # "value_error"

\* While candidates are asked about, left alone: all are in the band, all that
\* were asked about were answered, and what must match is yet to be asked about
\* or deleted.
AskingSettled ==
  Undisturbed /\ phase = "asking" =>
    /\ \A i \in in_band : SameBand(i, value)
    /\ \A n \in DOMAIN asked : asked[n].answer \in {"true", "false"}
    /\ \A i \in DOMAIN BROKER_RECORDS :
         SameBand(i, value) /\ MustMatch(i, value) => i \in in_band \cup deleted

\* The probes, left alone, were refused; or the script ended before them, or
\* the unrelated record is in the band.
ProbesSettled ==
  Undisturbed =>
    /\ phase = "probing" => Refusal(Len(asked))
    /\ phase = "done" => Refusal(Len(asked) - 1) /\ Refusal(Len(asked))
    /\ phase = "failed" => deleted = {} \/ SameBand(Unrelated, value)

IInv ==
  /\ BankTyped /\ ScriptTyped /\ Held /\ Recorded /\ Within /\ Calm
  /\ Comparable /\ AskingSettled /\ ProbesSettled

(***************************************************************************)
(* With a permission that suffices, left alone, a query reaches the        *)
(* algorithm.                                                              *)
(***************************************************************************)
LEMMA AdmittedUndisturbed ==
  ASSUME BankTyped, Held, Calm, Undisturbed, phase # "before", usage[Counter] < MaxQueries
  PROVE  Bank!Executed(query)
<1> DEFINE list == grants[ALICE]
<1>1. /\ list \in Seq({Permission(quota) : quota \in Quotas}) /\ list # <<>>
      /\ list[1].quota_per_year = NoQuota \/ list[1].quota_per_year >= MaxQueries
  BY DEF BankTyped, Undisturbed
<1> HIDE DEF list
<1>2. /\ DOMAIN list = 1..Len(list) /\ Len(list) \in Nat /\ 1 \in DOMAIN list
      /\ \A n \in DOMAIN list : list[n] \in {Permission(quota) : quota \in Quotas}
  BY <1>1
<1>3. \A n \in DOMAIN list : Bank!Ledger!Covers(list[n], Asked)
  <2> SUFFICES ASSUME NEW n \in DOMAIN list PROVE Bank!Ledger!Covers(list[n], Asked)
    OBVIOUS
  <2>1. PICK quota \in Quotas : list[n] = Permission(quota)
    BY <1>2
  <2> QED BY <2>1 DEF Permission, Bank!Ledger!Covers, Asked, Bank!RequestOf, query
<1>4. Bank!Ledger!Matches(ALICE, Asked) = DOMAIN list
  BY <1>3 DEF Bank!Ledger!Matches, list
<1>5. Bank!Ledger!Matching(ALICE, Asked) = list[1]
  <2>1. \A n \in DOMAIN list : 1 <= n
    BY <1>2
  <2>2. (CHOOSE i \in DOMAIN list : \A j \in DOMAIN list : i <= j) = 1
    <3>1. \A i \in DOMAIN list : (\A j \in DOMAIN list : i <= j) <=> i = 1
      BY <1>2
    <3> QED BY <1>2, <3>1
  <2> QED BY <1>4, <2>2 DEF Bank!Ledger!Matching, list
<1>6. Bank!Ledger!Admits(list[1], usage[Counter])
  <2>1. PICK quota \in Quotas : list[1] = Permission(quota)
    BY <1>2
  <2>2. list[1].quota_per_year = quota
    BY <2>1 DEF Permission
  <2>3. quota \in Nat \cup {NoQuota} /\ usage[Counter] \in Nat
    BY ErasureAssumption, CounterExists DEF BankTyped
  <2>4. MaxQueries \in Nat
    <3>1. BROKER_RECORDS \in Seq(Identity)
      BY ErasureAssumption
    <3>2. Len(BROKER_RECORDS) \in Nat
      BY <3>1
    <3> QED BY <3>2 DEF MaxQueries
  <2> QED BY <1>1, <2>2, <2>3, <2>4 DEF Bank!Ledger!Admits
<1>7. Bank!Permission(query) = "allow"
  <2>1. Bank!Year(query) = 0 /\ query.owner_id = ALICE
    BY CounterExists DEF BankTyped, query
  <2> QED BY <1>2, <1>4, <1>5, <1>6, <2>1
          DEF Bank!Permission, Bank!Ledger!Decision, Counter, Asked
<1>8. Bank!Applicable(query)
  BY DEF Bank!Applicable, Bank!Registered, query
<1>9. Bank!Holds(query)
  BY DEF Bank!Holds, query, Held, Calm, Undisturbed
<1> QED BY <1>7, <1>8, <1>9, NoBudget DEF Bank!Executed, Bank!Permitted

(***************************************************************************)
(* What the version, the band and the threshold of a query, left alone,    *)
(* make of it.                                                             *)
(***************************************************************************)
LEMMA AnswerUndisturbed ==
  ASSUME IInv, Undisturbed, phase \in {"asking", "comparing", "probing"},
         usage[Counter] < MaxQueries,
         NEW i, NEW threshold, NEW answer \in Answers, Submits(i, threshold, answer)
  PROVE  /\ threshold # NoThreshold => answer = "refused"
         /\ ~SameBand(i, value) => answer = "refused"
         /\ SameBand(i, value) /\ threshold = NoThreshold => answer \in {"true", "false"}
         /\ SameBand(i, value) /\ threshold = NoThreshold /\ MustMatch(i, value) =>
              answer = "true"
<1>1. Bank!Executed(query)
  BY AdmittedUndisturbed DEF IInv
<1>2. answer \in Outcomes(value, canonical(version, i), salt, threshold)
  BY <1>1, SubmitsEffect DEF IInv
<1>3. version = CANONICALISATION_VERSION
  BY DEF Undisturbed
<1>4. threshold # NoThreshold => answer = "refused"
  BY <1>2, OutcomesAre
<1>5. SameBand(i, value) <=>
        fingerprint(canonicalise_identity(value), salt, FINGERPRINT_BITS)
          = fingerprint(canonical(version, i), salt, FINGERPRINT_BITS)
  BY DEF SameBand
<1>6. ~SameBand(i, value) => answer = "refused"
  <2> SUFFICES ASSUME ~SameBand(i, value) PROVE answer = "refused"
    OBVIOUS
  <2>1. Outcomes(value, canonical(version, i), salt, threshold) = {"refused"}
    BY <1>5, OutcomesAre
  <2> QED BY <1>2, <2>1
<1>7. ASSUME SameBand(i, value), threshold = NoThreshold
      PROVE  /\ answer \in {"true", "false"}
             /\ MustMatch(i, value) => answer = "true"
  <2>1. /\ Outcomes(value, canonical(version, i), salt, threshold) \subseteq {"true", "false"}
        /\ Comparisons(canonicalise_identity(value), canonical(version, i)) = {TRUE} =>
             Outcomes(value, canonical(version, i), salt, threshold) = {"true"}
    BY <1>3, <1>5, <1>7, OutcomesAre
  <2> QED BY <1>2, <2>1 DEF MustMatch
<1> QED BY <1>4, <1>6, <1>7

(***************************************************************************)
(* No query between records of one version ends in an exception.           *)
(***************************************************************************)
LEMMA NextComparable == IInv /\ [Next]_vars => Comparable'
<1> SUFFICES ASSUME IInv, [Next]_vars, version' = CANONICALISATION_VERSION
             PROVE  \A n \in DOMAIN asked' : asked'[n].answer # "value_error"
  BY DEF Comparable
<1>1. CASE Rests
  BY <1>1 DEF Rests, IInv, Comparable
<1>2. ASSUME NEW answer \in Answers, NEW i \in DOMAIN BROKER_RECORDS, NEW threshold,
             Submits(i, threshold, answer)
      PROVE  \A n \in DOMAIN asked' : asked'[n].answer # "value_error"
  <2>1. version = CANONICALISATION_VERSION
    BY <1>2 DEF Submits
  <2>2. "value_error" \notin Outcomes(value, canonical(version, i), salt, threshold)
    BY <2>1, OutcomesAre
  <2>3. answer # "value_error"
    BY <1>2, <2>2, SubmitsEffect DEF IInv
  <2>4. \A n \in DOMAIN asked : asked[n].answer # "value_error"
    BY <2>1 DEF IInv, Comparable
  <2>5. /\ asked \in Seq([record : DOMAIN BROKER_RECORDS, answer : Answers])
        /\ asked' = Append(asked, [record |-> i, answer |-> answer])
    BY <1>2 DEF IInv, ScriptTyped, Submits
  <2> QED BY <2>3, <2>4, <2>5
<1> QED BY <1>1, <1>2, StepAsksOnce DEF IInv, Asks

(***************************************************************************)
(* What is left alone and in which band does not change under the script.  *)
(***************************************************************************)
LEMMA ScriptKeepsBands ==
  ASSUME BankTyped, Script
  PROVE  /\ Undisturbed' <=> Undisturbed
         /\ \A i : SameBand(i, value)' <=> SameBand(i, value)
         /\ \A i : MustMatch(i, value)' <=> MustMatch(i, value)
         /\ phase \in {"broadcast", "asking", "comparing", "probing"}
<1>1. UNCHANGED <<value, disturbed, salt, version, grants>>
  BY ScriptKeeps DEF owner
<1>2. phase \in {"broadcast", "asking", "comparing", "probing"}
  BY DEF Script, Select, Ask, Compare, Probe
<1> QED BY <1>1, <1>2 DEF Undisturbed, SameBand, MustMatch

(***************************************************************************)
(* The candidates are the records in the band of the identity held.        *)
(***************************************************************************)
LEMMA SelectSettles ==
  ASSUME IInv, Select
  PROVE  AskingSettled'
<1> SUFFICES ASSUME Undisturbed'
             PROVE  /\ \A i \in in_band' : SameBand(i, value)'
                    /\ \A n \in DOMAIN asked' : asked'[n].answer \in {"true", "false"}
                    /\ \A i \in DOMAIN BROKER_RECORDS :
                         SameBand(i, value)' => i \in in_band'
  BY DEF AskingSettled
<1>1. Script
  BY DEF Script
<1>2. Undisturbed /\ \A i : SameBand(i, value)' <=> SameBand(i, value)
  BY <1>1, ScriptKeepsBands DEF IInv
<1>3. band = fingerprint(canonicalise_identity(value), salt, FINGERPRINT_BITS)
  BY <1>2 DEF Undisturbed, Select, IInv, Calm
<1>4. \A i \in DOMAIN BROKER_RECORDS : i \in in_band' <=> SameBand(i, value)
  BY <1>3 DEF Select, Candidates, Selected, SameBand
<1>5. in_band' \subseteq DOMAIN BROKER_RECORDS
  BY DEF Select, Candidates
<1>6. asked' = <<>>
  BY DEF Select, IInv, Within
<1> QED BY <1>2, <1>4, <1>5, <1>6

(***************************************************************************)
(* Until the probes are over the quota of a permission that suffices is    *)
(* not spent.                                                              *)
(***************************************************************************)
LEMMA UnspentWhileAsking ==
  ASSUME BankTyped, ScriptTyped, Within,
         \/ phase = "asking" /\ in_band # {}
         \/ phase \in {"comparing", "probing"}
  PROVE  usage[Counter] < MaxQueries
<1>1. /\ usage[Counter] \in Nat /\ Len(asked) \in Nat
      /\ usage[Counter] <= Len(asked)
  BY CounterExists DEF BankTyped, ScriptTyped, Within
<1>2. IsFiniteSet(DOMAIN BROKER_RECORDS) /\ Len(BROKER_RECORDS) \in Nat
  <2>1. BROKER_RECORDS \in Seq(Identity)
    BY ErasureAssumption
  <2>2. DOMAIN BROKER_RECORDS = 1..Len(BROKER_RECORDS) /\ Len(BROKER_RECORDS) \in Nat
    BY <2>1
  <2>3. IsFiniteSet(1..Len(BROKER_RECORDS))
    BY <2>2, FS_Interval
  <2> QED BY <2>2, <2>3
<1>3. Cardinality(in_band) \in Nat
  BY <1>2, FS_Subset, FS_CardinalityType DEF ScriptTyped
<1>4. Len(asked) <= Len(BROKER_RECORDS) + 1
  BY <1>1, <1>2, <1>3 DEF Within
<1> QED BY <1>1, <1>2, <1>4 DEF MaxQueries

(***************************************************************************)
(* A candidate is answered, and deleted if it must match.                  *)
(***************************************************************************)
LEMMA AskSettles ==
  ASSUME IInv, NEW answer \in Answers, Ask(answer)
  PROVE  AskingSettled' /\ ProbesSettled'
<1> DEFINE c == Candidate
<1>1. /\ phase = "asking" /\ Submits(c, NoThreshold, answer)
      /\ in_band' = in_band \ {c}
      /\ deleted' = IF Scored /\ answer = "true" THEN deleted \cup {c} ELSE deleted
      /\ phase' = IF Scored /\ answer # "value_error" THEN phase ELSE "failed"
      /\ c \in in_band /\ c \in DOMAIN BROKER_RECORDS
  BY CandidateExists DEF Ask, Rest, Deletes, IInv
<1>2. Script
  BY DEF Script
<1>3. /\ Undisturbed' <=> Undisturbed
      /\ \A i : SameBand(i, value)' <=> SameBand(i, value)
      /\ \A i : MustMatch(i, value)' <=> MustMatch(i, value)
  BY <1>2, ScriptKeepsBands DEF IInv
<1> HIDE DEF c
<1>4. ASSUME Undisturbed
      PROVE  /\ Scored
             /\ answer \in {"true", "false"}
             /\ MustMatch(c, value) => answer = "true"
             /\ \A i \in in_band : SameBand(i, value)
             /\ \A n \in DOMAIN asked : asked[n].answer \in {"true", "false"}
             /\ \A i \in DOMAIN BROKER_RECORDS :
                  SameBand(i, value) /\ MustMatch(i, value) => i \in in_band \cup deleted
  <2>1. /\ \A i \in in_band : SameBand(i, value)
        /\ \A n \in DOMAIN asked : asked[n].answer \in {"true", "false"}
        /\ \A i \in DOMAIN BROKER_RECORDS :
             SameBand(i, value) /\ MustMatch(i, value) => i \in in_band \cup deleted
    BY <1>1, <1>4 DEF IInv, AskingSettled
  <2>2. usage[Counter] < MaxQueries
    BY <1>1, UnspentWhileAsking DEF IInv
  <2>3. Scored
    BY <1>4 DEF Undisturbed, Scored
  <2> QED BY <1>1, <1>4, <2>1, <2>2, <2>3, AnswerUndisturbed
<1>5. ASSUME Undisturbed
      PROVE  \A n \in DOMAIN asked' : asked'[n].answer \in {"true", "false"}
  <2>1. /\ asked \in Seq([record : DOMAIN BROKER_RECORDS, answer : Answers])
        /\ asked' = Append(asked, [record |-> c, answer |-> answer])
    BY <1>1 DEF IInv, ScriptTyped, Submits
  <2> QED BY <1>4, <1>5, <2>1
<1>6. AskingSettled'
  BY <1>1, <1>3, <1>4, <1>5 DEF AskingSettled
<1>7. ProbesSettled'
  BY <1>1, <1>3, <1>4 DEF ProbesSettled
<1> QED BY <1>6, <1>7

(***************************************************************************)
(* The assertion of the script holds after a probe exactly if it was       *)
(* refused, and it was, with a threshold or outside the band.              *)
(***************************************************************************)
LEMMA ProbeSettles ==
  ASSUME IInv, NEW answer \in Answers, NEW i \in DOMAIN BROKER_RECORDS,
         NEW threshold, NEW from \in {"comparing", "probing"}, NEW to \in {"probing", "done"},
         Probe(i, threshold, from, to, answer), Undisturbed
  PROVE  /\ phase' = IF answer = "refused" THEN to ELSE "failed"
         /\ threshold # NoThreshold \/ ~SameBand(i, value) => answer = "refused"
         /\ Refusal(Len(asked)) => Refusal(Len(asked) - 1)'
         /\ answer = "refused" => Refusal(Len(asked))'
<1>1. /\ Submits(i, threshold, answer) /\ phase \in {"comparing", "probing"}
      /\ phase' = IF answer # "value_error" /\ Last(audit').decision = "deny"
                  THEN to ELSE "failed"
  BY DEF Probe
<1>2. usage[Counter] < MaxQueries
  BY <1>1, UnspentWhileAsking DEF IInv
<1>3. /\ threshold # NoThreshold => answer = "refused"
      /\ ~SameBand(i, value) => answer = "refused"
      /\ SameBand(i, value) /\ threshold = NoThreshold => answer \in {"true", "false"}
  BY <1>1, <1>2, AnswerUndisturbed
<1>4. answer \in {"refused", "true", "false"}
  BY <1>3
<1>5. Last(audit').decision = "deny" <=> answer = "refused"
  <2>1. Entered(answer)
    BY <1>1, <1>4, SubmitsEffect DEF IInv
  <2>2. PICK e \in Bank!AuditEntry :
          /\ audit' = Append(audit, e)
          /\ e.decision = "allow" <=> answer \in {"true", "false"}
          /\ answer = "refused" => e.decision = "deny"
    BY <2>1 DEF Entered
  <2>3. audit \in Seq(Bank!AuditEntry)
    BY DEF IInv, BankTyped
  <2>4. Last(audit') = e
    BY <2>2, <2>3 DEF Last
  <2> QED BY <1>4, <2>2, <2>4
<1>6. /\ Len(asked) \in Nat /\ Len(asked') = Len(asked) + 1
      /\ \A n \in 1..Len(asked) : asked'[n] = asked[n]
      /\ asked'[Len(asked')].answer = answer
      /\ DOMAIN asked' = 1..Len(asked')
      /\ DOMAIN asked = 1..Len(asked)
  BY <1>1, SubmitsWithin DEF IInv, ScriptTyped
<1>7. Refusal(Len(asked)) => Refusal(Len(asked) - 1)'
  BY <1>6 DEF Refusal
<1>8. answer = "refused" => Refusal(Len(asked))'
  BY <1>6 DEF Refusal
<1> QED BY <1>1, <1>3, <1>4, <1>5, <1>6, <1>7, <1>8

(***************************************************************************)
(* Every step keeps what the script comes to.                              *)
(***************************************************************************)
LEMMA NextSettled == IInv /\ [Next]_vars => AskingSettled' /\ ProbesSettled'
<1> SUFFICES ASSUME IInv, [Next]_vars PROVE AskingSettled' /\ ProbesSettled'
  OBVIOUS
<1>1. CASE Script
  <2>1. /\ Undisturbed' <=> Undisturbed
        /\ \A i : SameBand(i, value)' <=> SameBand(i, value)
    BY <1>1, ScriptKeepsBands DEF IInv
  <2>2. CASE Select
    <3>1. AskingSettled'
      BY <2>2, SelectSettles
    <3>2. phase' = "asking"
      BY <2>2 DEF Select
    <3> QED BY <3>1, <3>2 DEF ProbesSettled
  <2>3. CASE Compare
    BY <2>3 DEF Compare, AskingSettled, ProbesSettled
  <2>4. ASSUME NEW answer \in Answers, Ask(answer)
        PROVE  AskingSettled' /\ ProbesSettled'
    BY <2>4, AskSettles
  <2>5. ASSUME NEW answer \in Answers, Probe(Probed, "0.5", "comparing", "probing", answer)
        PROVE  AskingSettled' /\ ProbesSettled'
    <3>1. Undisturbed => phase' = "probing" /\ Refusal(Len(asked))'
      BY <2>5, ProbeSettles, ErasureAssumption
    <3>2. phase' \in {"probing", "failed"}
      BY <2>5 DEF Probe
    <3> QED BY <2>1, <3>1, <3>2 DEF AskingSettled, ProbesSettled
  <2>6. ASSUME NEW answer \in Answers, Probe(Unrelated, NoThreshold, "probing", "done", answer)
        PROVE  AskingSettled' /\ ProbesSettled'
    <3>1. phase = "probing" /\ phase' \in {"done", "failed"}
      BY <2>6 DEF Probe
    <3>2. Undisturbed => Refusal(Len(asked))
      BY <3>1 DEF IInv, ProbesSettled
    <3>3. Undisturbed =>
            /\ phase' = IF answer = "refused" THEN "done" ELSE "failed"
            /\ ~SameBand(Unrelated, value) => answer = "refused"
            /\ Refusal(Len(asked)) => Refusal(Len(asked) - 1)'
            /\ answer = "refused" => Refusal(Len(asked))'
      BY <2>6, ProbeSettles, ErasureAssumption
    <3> QED BY <2>1, <3>1, <3>2, <3>3 DEF AskingSettled, ProbesSettled
  <2> QED BY <1>1, <2>2, <2>3, <2>4, <2>5, <2>6 DEF Script
<1>2. CASE Broadcast
  BY <1>2 DEF Broadcast, AskingSettled, ProbesSettled
<1>3. CASE \/ \E i \in Identities : DepositIdentity(i)
           \/ EraseIdentity
           \/ \E quota \in Quotas : GrantBroker(quota)
           \/ RevokeBroker
  <2>1. phase' = phase /\ disturbed' = (phase # "before")
    BY <1>3, ActsKeepBank DEF IInv, Act, company
  <2> QED BY <2>1 DEF Undisturbed, AskingSettled, ProbesSettled
<1>4. CASE UNCHANGED vars
  <2>1. UNCHANGED <<value, disturbed, salt, version, grants, phase, asked, in_band, deleted>>
    BY <1>4 DEF vars, bank, company, owner
  <2>2. AskingSettled /\ ProbesSettled
    BY DEF IInv
  <2> QED BY <2>1, <2>2 DEF AskingSettled, ProbesSettled, Undisturbed, SameBand, MustMatch, Refusal
<1> QED BY <1>1, <1>2, <1>3, <1>4 DEF Next

(***************************************************************************)
(* The invariant is inductive.                                             *)
(***************************************************************************)
LEMMA IInvInductive ==
  /\ Init => IInv
  /\ IInv /\ [Next]_vars => IInv'
<1>1. Init => Comparable /\ AskingSettled /\ ProbesSettled
  BY DEF Init, Comparable, AskingSettled, ProbesSettled
<1>2. Init => IInv
  BY <1>1, InitBankTyped, ScriptTypedAlways, HeldAlways, RecordedAlways, WithinAlways,
     CalmAlways DEF IInv
<1>3. IInv /\ [Next]_vars => IInv'
  BY NextBankTyped, ScriptTypedAlways, HeldAlways, RecordedAlways, WithinAlways,
     CalmAlways, NextComparable, NextSettled DEF IInv
<1> QED BY <1>2, <1>3

(***************************************************************************)
(* The invariant of the script, the owner and the Databank.                *)
(***************************************************************************)
THEOREM ErasureInvariant == Spec => []IInv
BY IInvInductive, PTL DEF Spec

(***************************************************************************)
(* Left alone and with a permission that suffices, the company deletes     *)
(* every record of the band that clears the threshold.                     *)
(***************************************************************************)
THEOREM OwnRecordsGo == Spec => []OwnRecordsDeleted
<1>1. IInv => OwnRecordsDeleted
  BY DEF IInv, AskingSettled, OwnRecordsDeleted
<1> QED BY <1>1, ErasureInvariant, PTL

(***************************************************************************)
(* Left alone and with a permission that suffices, a company that asks     *)
(* about what it selected is always answered.                              *)
(***************************************************************************)
THEOREM HonestAlwaysAnswered == Spec => []HonestNotRefused
<1>1. IInv => HonestNotRefused
  BY DEF IInv, AskingSettled, HonestNotRefused
<1> QED BY <1>1, ErasureInvariant, PTL

(***************************************************************************)
(* The assertions of the script about its two probes hold, and the         *)
(* refusals are on the statement, in the last two places, as denials.      *)
(***************************************************************************)
THEOREM ProbesAlwaysRefused == Spec => []ProbesRefused
<1>1. IInv => ProbesRefused
  <2> SUFFICES ASSUME IInv PROVE ProbesRefused
    OBVIOUS
  <2>1. Undisturbed /\ phase = "failed" => deleted = {} \/ SameBand(Unrelated, value)
    BY DEF IInv, ProbesSettled
  <2>2. ASSUME Undisturbed, phase = "done", NEW n \in Len(asked) - 1..Len(asked)
        PROVE  asked[n].answer = "refused" /\ audit[n].decision = "deny"
    <3>1. /\ DOMAIN asked = 1..Len(asked) /\ Len(asked) \in Nat
          /\ Refusal(Len(asked) - 1) /\ Refusal(Len(asked))
      BY <2>2 DEF IInv, ScriptTyped, ProbesSettled
    <3>2. Len(asked) - 1 \in 1..Len(asked) /\ Len(asked) \in 1..Len(asked)
      BY <3>1 DEF Refusal
    <3>3. n = Len(asked) - 1 \/ n = Len(asked)
      <4>1. \A m \in Nat : n \in m - 1..m => n = m - 1 \/ n = m
        OBVIOUS
      <4> QED BY <2>2, <3>1, <4>1
    <3>4. n \in 1..Len(asked) /\ asked[n].answer = "refused"
      BY <3>1, <3>2, <3>3 DEF Refusal
    <3>5. Logged = 1..Len(asked)
      BY <2>2, <3>1 DEF Undisturbed, IInv, Comparable, Logged
    <3>6. LoggedTo(n) = 1..n
      BY <3>1, <3>4, <3>5 DEF LoggedTo
    <3>7. Cardinality(LoggedTo(n)) = n
      <4>1. n \in Nat /\ n >= 1
        BY <3>4
      <4> QED BY <3>6, <4>1, FS_Interval
    <3>8. audit[n].decision = "deny"
      BY <3>4, <3>5, <3>7 DEF IInv, Recorded
    <3> QED BY <3>4, <3>8
  <2> QED BY <2>1, <2>2 DEF ProbesRefused
<1> QED BY <1>1, ErasureInvariant, PTL

-----------------------------------------------------------------------------
(* What is settled when the script ends.                                   *)

\* How far the loop over the candidates is.
Looped ==
  /\ phase \in {"before", "broadcast"} => deleted = {}
  /\ version = CANONICALISATION_VERSION =>
       /\ phase = "asking" =>
            /\ in_band \subseteq Candidates
            /\ Seen(asked, Len(asked)) = Candidates \ in_band
            /\ Len(asked) + Cardinality(in_band) = Cardinality(Candidates)
            /\ deleted = Matched(asked, Len(asked))
       /\ phase \in {"comparing", "probing", "done", "failed"} => AllSettled
  /\ version # CANONICALISATION_VERSION =>
       /\ phase = "asking" => in_band = Candidates /\ asked = <<>> /\ deleted = {}
       /\ phase \notin {"comparing", "probing", "done"}
       /\ phase = "failed" => AllSettled

(***************************************************************************)
(* There are finitely many candidates.                                     *)
(***************************************************************************)
LEMMA CandidatesFinite ==
  /\ Candidates \subseteq DOMAIN BROKER_RECORDS
  /\ IsFiniteSet(Candidates) /\ Cardinality(Candidates) \in Nat
  /\ Candidates # {} => Cardinality(Candidates) # 0
<1>1. BROKER_RECORDS \in Seq(Identity)
  BY ErasureAssumption
<1>2. DOMAIN BROKER_RECORDS = 1..Len(BROKER_RECORDS) /\ Len(BROKER_RECORDS) \in Nat
  BY <1>1
<1>3. IsFiniteSet(DOMAIN BROKER_RECORDS)
  BY <1>2, FS_Interval
<1>4. Candidates \subseteq DOMAIN BROKER_RECORDS
  BY DEF Candidates
<1> QED BY <1>3, <1>4, FS_Subset, FS_CardinalityType, FS_EmptySet

(***************************************************************************)
(* A query adds its record, and nothing to what was asked before.          *)
(***************************************************************************)
LEMMA SubmitsSeen ==
  ASSUME ScriptTyped, NEW i \in DOMAIN BROKER_RECORDS, NEW threshold, NEW answer \in Answers,
         Submits(i, threshold, answer)
  PROVE  /\ Len(asked) \in Nat /\ Len(asked') = Len(asked) + 1
         /\ \A n \in Nat : n <= Len(asked) =>
              Seen(asked', n) = Seen(asked, n) /\ Matched(asked', n) = Matched(asked, n)
         /\ Seen(asked', Len(asked')) = Seen(asked, Len(asked)) \cup {i}
         /\ Matched(asked', Len(asked'))
              = IF answer = "true" THEN Matched(asked, Len(asked)) \cup {i}
                ELSE Matched(asked, Len(asked))
<1>1. /\ asked \in Seq([record : DOMAIN BROKER_RECORDS, answer : Answers])
      /\ asked' = Append(asked, [record |-> i, answer |-> answer])
  BY DEF ScriptTyped, Submits
<1>2. PICK l \in Nat : l = Len(asked)
  BY <1>1
<1>3. /\ Len(asked') = l + 1
      /\ \A k \in 1..l : asked'[k] = asked[k]
      /\ asked'[l + 1].record = i /\ asked'[l + 1].answer = answer
  BY <1>1, <1>2
<1>4. ASSUME NEW n \in Nat, n <= l
      PROVE  Seen(asked', n) = Seen(asked, n) /\ Matched(asked', n) = Matched(asked, n)
  <2>1. \A k \in 1..n : asked'[k] = asked[k]
    BY <1>3, <1>4
  <2> QED BY <2>1 DEF Seen, Matched
<1>5. 1..l + 1 = 1..l \cup {l + 1}
  OBVIOUS
<1>6. Seen(asked', l + 1) = Seen(asked, l) \cup {i}
  BY <1>3, <1>5 DEF Seen
<1>7. CASE answer = "true"
  <2>1. {m \in 1..l + 1 : asked'[m].answer = "true"}
          = {m \in 1..l : asked[m].answer = "true"} \cup {l + 1}
    BY <1>3, <1>5, <1>7
  <2>2. Matched(asked', l + 1) = Matched(asked, l) \cup {i}
    BY <1>3, <2>1 DEF Matched
  <2> QED BY <1>2, <1>3, <1>4, <1>6, <1>7, <2>2
<1>8. CASE answer # "true"
  <2>1. {m \in 1..l + 1 : asked'[m].answer = "true"} = {m \in 1..l : asked[m].answer = "true"}
    BY <1>3, <1>5, <1>8
  <2>2. Matched(asked', l + 1) = Matched(asked, l)
    BY <1>3, <2>1 DEF Matched
  <2> QED BY <1>2, <1>3, <1>4, <1>6, <1>8, <2>2
<1> QED BY <1>7, <1>8

(***************************************************************************)
(* A probe comes after the loop and settles nothing more.                  *)
(***************************************************************************)
LEMMA ProbeLooped ==
  ASSUME BankTyped, ScriptTyped, Looped,
         NEW answer \in Answers, NEW i \in DOMAIN BROKER_RECORDS, NEW threshold,
         NEW from \in {"comparing", "probing"}, NEW to \in {"probing", "done"},
         Probe(i, threshold, from, to, answer)
  PROVE  Looped'
<1>1. /\ Submits(i, threshold, answer) /\ phase \in {"comparing", "probing"}
      /\ phase' \in {"probing", "done", "failed"} /\ deleted' = deleted
      /\ UNCHANGED <<salt, band, version>>
  BY DEF Probe, Submits
<1>2. version = CANONICALISATION_VERSION /\ AllSettled
  BY <1>1 DEF Looped
<1>3. Candidates' = Candidates
  BY <1>1 DEF Candidates
<1>4. PICK n \in Nat : n = Cardinality(Candidates)
  BY CandidatesFinite
<1>5. /\ n <= Len(asked) /\ Candidates = Seen(asked, n) /\ deleted = Matched(asked, n)
  BY <1>2, <1>4 DEF AllSettled
<1>6. /\ n <= Len(asked') /\ Candidates = Seen(asked', n) /\ deleted = Matched(asked', n)
  <2>1. /\ Len(asked) \in Nat /\ Len(asked') = Len(asked) + 1
        /\ Seen(asked', n) = Seen(asked, n) /\ Matched(asked', n) = Matched(asked, n)
    BY <1>1, <1>5, SubmitsSeen
  <2> QED BY <1>5, <2>1
<1>7. AllSettled'
  BY <1>1, <1>2, <1>3, <1>4, <1>6 DEF AllSettled
<1> QED BY <1>1, <1>2, <1>7 DEF Looped

(***************************************************************************)
(* A match query moves one candidate from those to be asked about to those *)
(* asked about; between two versions it is the first and the last.         *)
(***************************************************************************)
LEMMA AskLooped ==
  ASSUME IInv, Looped, Comparable', NEW answer \in Answers, Ask(answer)
  PROVE  Looped'
<1> DEFINE c == Candidate
<1>1. /\ phase = "asking" /\ Submits(c, NoThreshold, answer)
      /\ in_band' = in_band \ {c}
      /\ deleted' = IF Scored /\ answer = "true" THEN deleted \cup {c} ELSE deleted
      /\ phase' = IF Scored /\ answer # "value_error" THEN phase ELSE "failed"
      /\ c \in in_band /\ c \in DOMAIN BROKER_RECORDS
      /\ UNCHANGED <<salt, band, version>>
  BY CandidateExists DEF Ask, Rest, Deletes, IInv, Submits
<1> HIDE DEF c
<1>2. Candidates' = Candidates
  BY <1>1 DEF Candidates
<1>3. /\ Len(asked) \in Nat /\ Len(asked') = Len(asked) + 1
      /\ Seen(asked', Len(asked')) = Seen(asked, Len(asked)) \cup {c}
      /\ Matched(asked', Len(asked'))
           = IF answer = "true" THEN Matched(asked, Len(asked)) \cup {c}
             ELSE Matched(asked, Len(asked))
  BY <1>1, SubmitsSeen DEF IInv
<1>4. CASE version = CANONICALISATION_VERSION
  <2>1. answer # "value_error"
    <3>1. asked' = Append(asked, [record |-> c, answer |-> answer])
          /\ asked \in Seq([record : DOMAIN BROKER_RECORDS, answer : Answers])
      BY <1>1 DEF Submits, IInv, ScriptTyped
    <3>2. Len(asked') \in DOMAIN asked' /\ asked'[Len(asked')].answer = answer
      BY <1>1, <3>1
    <3>3. version' = CANONICALISATION_VERSION
      BY <1>1, <1>4
    <3> QED BY <3>2, <3>3 DEF Comparable
  <2>2. phase' = "asking" /\ Scored
    BY <1>1, <1>4, <2>1 DEF Scored
  <2>3. /\ in_band \subseteq Candidates
        /\ Seen(asked, Len(asked)) = Candidates \ in_band
        /\ Len(asked) + Cardinality(in_band) = Cardinality(Candidates)
        /\ deleted = Matched(asked, Len(asked))
    BY <1>1, <1>4 DEF Looped
  <2>4. Cardinality(in_band') = Cardinality(in_band) - 1 /\ Cardinality(in_band) \in Nat
    <3>1. IsFiniteSet(in_band)
      BY <2>3, CandidatesFinite, FS_Subset
    <3> QED BY <1>1, <3>1, FS_RemoveElement, FS_CardinalityType
  <2>5. Len(asked') + Cardinality(in_band') = Cardinality(Candidates)
    BY <1>3, <2>3, <2>4
  <2>6. Seen(asked', Len(asked')) = Candidates \ in_band'
    BY <1>1, <1>3, <2>3
  <2>7. deleted' = Matched(asked', Len(asked'))
    BY <1>1, <1>3, <2>2, <2>3
  <2>8. in_band' \subseteq Candidates
    BY <1>1, <2>3
  <2> QED BY <1>1, <1>2, <1>4, <2>2, <2>5, <2>6, <2>7, <2>8 DEF Looped
<1>5. CASE version # CANONICALISATION_VERSION
  <2>1. in_band = Candidates /\ asked = <<>> /\ deleted = {}
    BY <1>1, <1>5 DEF Looped
  <2>2. Cardinality(Candidates) # 0
    BY <1>1, <2>1, CandidatesFinite
  <2>3. phase' = "failed" /\ deleted' = {}
    BY <1>1, <1>5, <2>1 DEF Scored
  <2>4. Len(asked') = 1
    BY <1>3, <2>1
  <2>5. AllSettled'
    BY <1>1, <1>2, <1>5, <2>2, <2>3, <2>4 DEF AllSettled
  <2> QED BY <1>1, <1>5, <2>3, <2>5 DEF Looped
<1> QED BY <1>4, <1>5

(***************************************************************************)
(* Once no candidate is left, all is settled.                              *)
(***************************************************************************)
LEMMA CompareLooped ==
  ASSUME IInv, Looped, Compare
  PROVE  Looped'
<1>1. /\ phase = "asking" /\ in_band = {}
      /\ phase' = IF deleted = {} THEN "failed" ELSE "comparing"
      /\ UNCHANGED <<salt, band, version, deleted, asked>>
  BY DEF Compare
<1>2. Candidates' = Candidates
  BY <1>1 DEF Candidates
<1>3. Cardinality(in_band) = 0
  BY <1>1, FS_EmptySet
<1>4. CASE version = CANONICALISATION_VERSION
  <2>1. /\ Seen(asked, Len(asked)) = Candidates /\ Len(asked) = Cardinality(Candidates)
        /\ deleted = Matched(asked, Len(asked))
    <3>1. Len(asked) \in Nat
      BY DEF IInv, ScriptTyped
    <3> QED BY <1>1, <1>3, <1>4, <3>1 DEF Looped
  <2>2. Cardinality(Candidates) <= Len(asked)
    BY <2>1, CandidatesFinite
  <2>3. AllSettled'
    BY <1>1, <1>2, <1>4, <2>1, <2>2 DEF AllSettled
  <2> QED BY <1>1, <1>4, <2>3 DEF Looped
<1>5. CASE version # CANONICALISATION_VERSION
  <2>1. Candidates = {} /\ asked = <<>> /\ deleted = {}
    BY <1>1, <1>5 DEF Looped
  <2>2. AllSettled'
    BY <1>1, <1>2, <1>3, <1>5, <2>1 DEF AllSettled
  <2> QED BY <1>1, <1>5, <2>1, <2>2 DEF Looped
<1> QED BY <1>4, <1>5

(***************************************************************************)
(* The loop is as far as its invariant says.                               *)
(***************************************************************************)
LEMMA LoopedAlways ==
  /\ Init => Looped
  /\ IInv /\ Looped /\ [Next]_vars => Looped'
<1>1. Init => Looped
  BY DEF Init, Looped
<1>2. ASSUME IInv, Looped, [Next]_vars PROVE Looped'
  <2>1. CASE UNCHANGED company
    <3>1. UNCHANGED <<salt, band, version, in_band, deleted, phase, asked>>
      BY <2>1 DEF company
    <3>2. Candidates' = Candidates
      BY <3>1 DEF Candidates
    <3>3. AllSettled' <=> AllSettled
      BY <3>1, <3>2 DEF AllSettled
    <3> QED BY <1>2, <3>1, <3>2, <3>3 DEF Looped
  <2>2. CASE Broadcast
    BY <1>2, <2>2 DEF Broadcast, Looped
  <2>3. CASE Select
    <3>1. /\ phase = "broadcast" /\ phase' = "asking" /\ in_band' = Candidates
          /\ UNCHANGED <<salt, band, version, deleted, asked>>
      BY <2>3 DEF Select
    <3>2. Candidates' = Candidates
      BY <3>1 DEF Candidates
    <3>3. asked = <<>> /\ deleted = {}
      BY <1>2, <3>1 DEF IInv, Within, Looped
    <3>4. Len(asked) = 0 /\ Seen(asked, 0) = {} /\ Matched(asked, 0) = {}
      BY <3>3 DEF Seen, Matched
    <3>5. Len(asked) + Cardinality(Candidates) = Cardinality(Candidates)
      BY <3>4, CandidatesFinite
    <3> QED BY <3>1, <3>2, <3>3, <3>4, <3>5 DEF Looped
  <2>4. ASSUME NEW answer \in Answers, Ask(answer) PROVE Looped'
    <3>1. Comparable'
      BY <1>2, NextComparable
    <3> QED BY <1>2, <2>4, <3>1, AskLooped
  <2>5. CASE Compare
    BY <1>2, <2>5, CompareLooped
  <2>6. ASSUME NEW answer \in Answers,
               \/ Probe(Probed, "0.5", "comparing", "probing", answer)
               \/ Probe(Unrelated, NoThreshold, "probing", "done", answer)
        PROVE  Looped'
    BY <1>2, <2>6, ProbeLooped, ErasureAssumption DEF IInv
  <2>7. CASE Script
    BY <2>3, <2>4, <2>5, <2>6, <2>7 DEF Script
  <2>8. CASE \/ \E i \in Identities : DepositIdentity(i)
             \/ EraseIdentity
             \/ \E quota \in Quotas : GrantBroker(quota)
             \/ RevokeBroker
    BY <1>2, <2>1, <2>8, ActsKeepBank DEF IInv, Act
  <2>9. CASE UNCHANGED vars
    BY <2>1, <2>9 DEF vars
  <2> QED BY <1>2, <2>2, <2>7, <2>8, <2>9 DEF Next
<1> QED BY <1>1, <1>2

(***************************************************************************)
(* The script never ends unsettled: in whatever order the owner acts and   *)
(* the company asks, it has asked about every candidate, and deleted those *)
(* for which the answer was "true" and no other.  (That it ends is         *)
(* liveness, the rest of EveryCandidateSettled.)                           *)
(***************************************************************************)
EndsSettled == phase \in {"done", "failed"} => AllSettled

THEOREM ScriptEndsSettled == Spec => []EndsSettled
<1>1. Looped => EndsSettled
  BY DEF Looped, EndsSettled
<1> QED BY <1>1, IInvInductive, LoopedAlways, PTL DEF Spec

-----------------------------------------------------------------------------
(* How near a record has to be.                                            *)

\* The identities the owner deposits, and the records the company deletes.
Deposited ==
  /\ known \subseteq Identities /\ deleted \subseteq DOMAIN BROKER_RECORDS

LEMMA DepositedAlways ==
  /\ Init => Deposited
  /\ BankTyped /\ ScriptTyped /\ Deposited /\ [Next]_vars => Deposited'
<1>1. Init => Deposited
  BY DEF Init, Deposited
<1>2. ASSUME BankTyped, ScriptTyped, Deposited, [Next]_vars PROVE Deposited'
  <2>1. known' \subseteq Identities
    <3>1. CASE UNCHANGED known
      BY <1>2, <3>1 DEF Deposited
    <3>2. ASSUME NEW i \in Identities, DepositIdentity(i) PROVE known' \subseteq Identities
      BY <1>2, <3>2 DEF DepositIdentity, Deposited
    <3>3. CASE EraseIdentity \/ RevokeBroker \/ \E quota \in Quotas : GrantBroker(quota)
      BY <3>1, <3>3 DEF EraseIdentity, RevokeBroker, GrantBroker
    <3>4. CASE Script
      BY <3>1, <3>4 DEF Script, Select, Compare, Ask, Probe, Submits, owner
    <3>5. CASE Broadcast \/ UNCHANGED vars
      BY <3>1, <3>5 DEF Broadcast, vars, owner
    <3> QED BY <1>2, <3>2, <3>3, <3>4, <3>5 DEF Next
  <2>2. deleted' \subseteq DOMAIN BROKER_RECORDS
    <3>1. CASE Rests
      BY <1>2, <3>1 DEF Rests, Deposited
    <3>2. CASE Asks
      BY <1>2, <3>2 DEF Asks, Deposited
    <3> QED BY <1>2, <3>1, <3>2, StepAsksOnce
  <2> QED BY <2>1, <2>2 DEF Deposited
<1> QED BY <1>1, <1>2

\* Record i and identity j as they are compared.
Of(j) == canonicalise_identity(j)
Theirs(i) == canonical(version, i)

(***************************************************************************)
(* Both are records of texts.                                              *)
(***************************************************************************)
LEMMA ComparedAreTexts ==
  ASSUME Deposited, NEW i \in DOMAIN BROKER_RECORDS, NEW j \in Identities
  PROVE  AreTexts(Of(j), Chars) /\ AreTexts(Theirs(i), Chars)
<1>1. j \in Identity /\ BROKER_RECORDS[i] \in Identity
  BY ErasureAssumption
<1> QED BY <1>1, CanonicalTexts DEF Of, Theirs, canonicalise_identity, canonical

\* At most fourteen letters in fifteen of the given name are wrong, two in five
\* of the family name, seven in ten of the address, seven in fifteen of the
\* postcode.
Near(i, j) ==
  /\ 15 * edit_distance(Of(j).given_name, Theirs(i).given_name)
       <= 14 * Longest(Of(j).given_name, Theirs(i).given_name)
  /\ 5 * edit_distance(Of(j).family_name, Theirs(i).family_name)
       <= 2 * Longest(Of(j).family_name, Theirs(i).family_name)
  /\ 10 * edit_distance(Of(j).address, Theirs(i).address)
       <= 7 * Longest(Of(j).address, Theirs(i).address)
  /\ 15 * edit_distance(Of(j).postcode, Theirs(i).postcode)
       <= 7 * Longest(Of(j).postcode, Theirs(i).postcode)

\* The record is the identity's but for fewer than two letters in five of the
\* family name.
Misspelt(i, j) ==
  /\ Theirs(i).given_name = Of(j).given_name
  /\ Theirs(i).address = Of(j).address
  /\ Theirs(i).postcode = Of(j).postcode
  /\ 5 * edit_distance(Of(j).family_name, Theirs(i).family_name)
       < 2 * Longest(Of(j).family_name, Theirs(i).family_name)

(***************************************************************************)
(* What may match is near; what is misspelt and nothing else must match.   *)
(***************************************************************************)
LEMMA NearOrNot ==
  ASSUME Deposited, NEW i \in DOMAIN BROKER_RECORDS, NEW j \in Identities
  PROVE  /\ MayMatch(i, j) => Near(i, j)
         /\ Misspelt(i, j) => MustMatch(i, j)
<1> DEFINE a == Of(j)
           b == Theirs(i)
           n(f) == FieldLongest(a, b, f)
           d(f) == FieldDistance(a, b, f)
<1>1. AreTexts(a, Chars) /\ AreTexts(b, Chars)
  BY ComparedAreTexts
<1>2. /\ MayMatch(i, j) <=> TRUE \in Comparisons(a, b)
      /\ MustMatch(i, j) <=> Comparisons(a, b) = {TRUE}
  BY DEF MayMatch, MustMatch, Of, Theirs
<1>3. /\ n(2) = Longest(a.family_name, b.family_name)
      /\ n(3) = Longest(a.address, b.address)
      /\ n(4) = Longest(a.postcode, b.postcode)
      /\ d(2) = edit_distance(a.family_name, b.family_name)
      /\ d(3) = edit_distance(a.address, b.address)
      /\ d(4) = edit_distance(a.postcode, b.postcode)
  BY DEF FieldLongest, FieldDistance, parts
<1>4. /\ n(1) = Longest(a.given_name, b.given_name)
      /\ d(1) = edit_distance(a.given_name, b.given_name)
  BY DEF FieldLongest, FieldDistance, parts
<1>5. \A f \in 1..4 : n(f) \in Nat /\ d(f) \in Nat
  BY <1>1, ScoreIs
<1>6. FIELD_WEIGHTS[1] = 15 /\ FIELD_WEIGHTS[2] = 35 /\ FIELD_WEIGHTS[3] = 20 /\ FIELD_WEIGHTS[4] = 30
  BY DEF FIELD_WEIGHTS
<1>7. /\ parts(a)[1] = a.given_name /\ parts(b)[1] = b.given_name
      /\ parts(a)[3] = a.address /\ parts(b)[3] = b.address
      /\ parts(a)[4] = a.postcode /\ parts(b)[4] = b.postcode
  BY DEF parts
<1>8. ASSUME MayMatch(i, j) PROVE Near(i, j)
  <2>1. \A f \in 1..4 : FIELD_WEIGHTS[f] * d(f) <= 14 * n(f)
    BY <1>1, <1>2, <1>8, ThresholdPerField
  <2>2. /\ 15 * d(1) <= 14 * n(1) /\ 35 * d(2) <= 14 * n(2)
        /\ 20 * d(3) <= 14 * n(3) /\ 30 * d(4) <= 14 * n(4)
    BY <1>6, <2>1
  <2>3. n(2) \in Nat /\ n(3) \in Nat /\ n(4) \in Nat /\ d(2) \in Nat /\ d(3) \in Nat /\ d(4) \in Nat
    BY <1>5
  <2> HIDE DEF n, d, a, b
  <2>4. 5 * d(2) <= 2 * n(2) /\ 10 * d(3) <= 7 * n(3) /\ 15 * d(4) <= 7 * n(4)
    BY <2>2, <2>3
  <2> QED BY <1>3, <1>4, <2>2, <2>4 DEF Near, a, b
<1>9. ASSUME Misspelt(i, j) PROVE MustMatch(i, j)
  <2>1. 5 * d(2) < 2 * n(2)
    BY <1>3, <1>9 DEF Misspelt
  <2>2. n(2) \in Nat /\ d(2) \in Nat
    BY <1>5
  <2>3. 35 * d(2) < 14 * n(2)
    <3> HIDE DEF n, d
    <3> QED BY <2>1, <2>2
  <2>4. \A g \in 1..4 \ {2} : parts(a)[g] = parts(b)[g]
    <3>1. \A g \in 1..4 \ {2} : g = 1 \/ g = 3 \/ g = 4
      OBVIOUS
    <3> QED BY <1>7, <1>9, <3>1 DEF Misspelt
  <2>5. FIELD_WEIGHTS[2] * d(2) < 14 * n(2)
    BY <1>6, <2>3
  <2>6. 2 \in 1..4
    OBVIOUS
  <2> QED BY <1>1, <1>2, <2>4, <2>5, <2>6, ThresholdPerField
<1> QED BY <1>8, <1>9

(***************************************************************************)
(* What the threshold of 0.86 protects a stranger by: a deleted record is  *)
(* in the band of an identity the owner deposited, and differs from it in  *)
(* at most two letters in five of the family name, seven in ten of the     *)
(* address and seven in fifteen of the postcode, as the program compares   *)
(* them; and even the given name, the cheapest field, is not all another.  *)
(***************************************************************************)
DeletedAreNear ==
  \A i \in deleted : \E j \in known : SameBand(i, j) /\ Near(i, j)

(***************************************************************************)
(* No other record is ever deleted: from StrangersSurvive and what the     *)
(* threshold comes to in each field.                                       *)
(***************************************************************************)
THEOREM OnlyNearRecordsGo == Spec => []DeletedAreNear
<1> DEFINE Inv == BankTyped /\ ScriptTyped /\ Deposited
<1>1. Init => Inv
  BY InitBankTyped, ScriptTypedAlways, DepositedAlways
<1>2. Inv /\ [Next]_vars => Inv'
  BY NextBankTyped, ScriptTypedAlways, DepositedAlways
<1>3. Inv /\ StrangersSurvive => DeletedAreNear
  <2> SUFFICES ASSUME Deposited, StrangersSurvive, NEW i \in deleted
               PROVE  \E j \in known : SameBand(i, j) /\ Near(i, j)
    BY DEF DeletedAreNear
  <2>1. PICK j \in known : SameBand(i, j) /\ MayMatch(i, j)
    BY DEF StrangersSurvive
  <2>2. i \in DOMAIN BROKER_RECORDS /\ j \in Identities
    BY DEF Deposited
  <2>3. Near(i, j)
    BY <2>1, <2>2, NearOrNot
  <2> QED BY <2>1, <2>3
<1> QED BY <1>1, <1>2, <1>3, StrangersAlwaysSurvive, PTL DEF Spec

(***************************************************************************)
(* And what it costs the owner: left alone, with a permission that         *)
(* suffices, the request has every record in her band deleted that differs *)
(* from her identity only in the spelling of the family name, by less than *)
(* two letters in five.                                                    *)
(***************************************************************************)
MisspeltAreDeleted ==
  Undisturbed /\ phase = "asking" /\ in_band = {} =>
    \A i \in DOMAIN BROKER_RECORDS : SameBand(i, value) /\ Misspelt(i, value) => i \in deleted

(***************************************************************************)
(* A misspelt family name alone keeps no record of the band: from          *)
(* OwnRecordsDeleted, since such a record clears the threshold of 0.86.    *)
(***************************************************************************)
THEOREM MisspeltRecordsGo == Spec => []MisspeltAreDeleted
<1>1. IInv /\ Deposited /\ OwnRecordsDeleted => MisspeltAreDeleted
  <2> SUFFICES ASSUME IInv, Deposited, OwnRecordsDeleted,
                      Undisturbed, phase = "asking", in_band = {},
                      NEW i \in DOMAIN BROKER_RECORDS, SameBand(i, value), Misspelt(i, value)
               PROVE  i \in deleted
    BY DEF MisspeltAreDeleted
  <2>1. value \in Identities
    BY DEF IInv, Held, Calm, Undisturbed, Deposited
  <2>2. MustMatch(i, value)
    BY <2>1, NearOrNot
  <2> QED BY <2>2 DEF OwnRecordsDeleted
<1>2. Init => Deposited
  BY DepositedAlways
<1>3. IInv /\ Deposited /\ [Next]_vars => Deposited'
  BY DepositedAlways DEF IInv
<1> QED BY <1>1, <1>2, <1>3, IInvInductive, OwnRecordsGo, PTL DEF Spec

===============================================================================
