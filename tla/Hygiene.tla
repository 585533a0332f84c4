------------------------------ MODULE Hygiene -------------------------------
(***************************************************************************)
(* The report on a vault's passwords (hygiene.rs) and the breach check it  *)
(* folds in (breach.rs, cmd_breach of main.rs and the agent's requests for *)
(* them): what is reused, short, old, without a second factor, or known    *)
(* to be leaked.  A breach check asks the agent for prefixes, fetches one  *)
(* bucket for each, some of which may fail, and hands the buckets back;    *)
(* the agent keeps the verdicts until the vault is locked, while records   *)
(* change under them.                                                      *)
(*                                                                         *)
(* A record has one secret field.  A value is a record: its hash prefix,   *)
(* its length, whether it is all digits, and an id.                        *)
(***************************************************************************)
EXTENDS Integers, FiniteSets, FiniteSetsExt

CONSTANTS
    Id,          \* record ids
    Draft,       \* records a user adds: kind, title, field name, value
    Value,       \* values of secret fields
    Corpus,      \* the values in the Pwned Passwords corpus
    Prefix,      \* hash prefixes
    PadTo,       \* PAD_TO
    MinPassphrase, MinAllDigit, MinPin   \* the floors of Policy

VARIABLES
    records,     \* the open vault: each id's record, or Absent
    exposure,    \* OpenVault.exposure: ids whose field has a verdict
    asked,       \* the prefixes a breach check is fetching, {} if none runs
    behind,      \* history: ids whose value changed while a verdict was kept
    judged       \* history: ids whose value was found in its bucket

vars == <<records, exposure, asked, behind, judged>>

Absent == [kind |-> "absent"]
Here == {i \in Id : records[i] # Absent}

----------------------------------------------------------------------------
(* The report.                                                             *)

Passphrases == {"password", "passphrase", "pass", "pw"}
Pins == {"pin", "pin_code", "passcode"}
CheckedFields == {"password", "passphrase", "pin"}
Rotatable == {"login", "api", "ssh", "pgp", "wifi"}
SecondFactorExpected == {"login", "bank"}
NumericPinIsIssued == {"bank", "id"}

\* handles_per_record and cluster_map: who else has the value in a field of the name.
SharedWith(i) ==
    {j \in Here \ {i} : /\ records[j].name = records[i].name /\ records[j].value = records[i].value
                        /\ records[i].value.len > 0}

\* title_map, within a kind.
SameTitle(i) ==
    {j \in Here \ {i} : /\ records[j].kind = records[i].kind
                        /\ records[j].title = records[i].title /\ records[i].title # ""}

\* carries_second_factor, second_factor_anchors and identity_keys, by title.
CarriesSecondFactor(r) == r.kind = "totp" \/ r.name = "totp"
Anchored(i) ==
    \E j \in Here : /\ CarriesSecondFactor(records[j])
                    /\ records[j].title = records[i].title /\ records[i].title # ""

WeakField(r) ==
    CASE r.name \in Passphrases ->
            IF r.value.len > 0 /\ r.value.digits
            THEN {k \in {"WeakPin"} : r.value.len < MinAllDigit}
            ELSE {k \in {"Short"} : r.value.len < MinPassphrase}
      [] r.name \in Pins ->
            {k \in {"WeakPin"} : /\ r.kind \notin NumericPinIsIssued
                                 /\ r.value.digits /\ r.value.len < MinPin}
      [] OTHER -> {}

\* analyse_with_exposure: the issues of a record.
Issues(i) ==
    LET r == records[i] IN
    WeakField(r)
    \cup {k \in {"Reused"} : SharedWith(i) # {}}
    \cup {k \in {"Stale"} : r.kind \in Rotatable /\ r.old}
    \cup {k \in {"NoTotp"} : /\ r.kind \in SecondFactorExpected
                             /\ ~CarriesSecondFactor(r) /\ ~Anchored(i)}
    \cup {k \in {"DuplicateTitle"} : SameTitle(i) # {}}
    \cup {k \in {"Exposed"} : i \in exposure}

Weight(k) == CASE k \in {"Reused", "WeakPin", "Exposed"} -> 5
               [] k = "Short" -> 2
               [] OTHER -> 1

----------------------------------------------------------------------------
(* Records come and go.                                                    *)

Init ==
    /\ records = [i \in Id |-> Absent]
    /\ exposure = {} /\ asked = {} /\ behind = {} /\ judged = {}

Add(i, d) ==
    /\ i \notin Here
    /\ records' = [records EXCEPT ![i] = d]
    /\ UNCHANGED <<exposure, asked, behind, judged>>

\* The value becomes v, as of now.
SetField(i, v) ==
    /\ i \in Here /\ v # records[i].value
    /\ records' = [records EXCEPT ![i].value = v, ![i].old = FALSE]
    /\ judged' = judged \ {i}
    /\ UNCHANGED asked

\* Request::Update: a replaced field loses its verdict.
Update(i, v) ==
    /\ SetField(i, v)
    /\ exposure' = exposure \ {i} /\ behind' = behind \ {i}

\* What the session holds is replaced and the verdict on the old value stays.
KeepsVerdict(i, v) ==
    /\ SetField(i, v)
    /\ exposure' = exposure
    /\ behind' = IF i \in exposure THEN behind \cup {i} ELSE behind

\* Replaced by SecretPut, or by another process and found by refresh.
ReplaceBehind(i, v) == KeepsVerdict(i, v)

\* Request::Update refused half way: apply_to has set the field in the open record when
\* a later field, the TOTP secret or validate stops it, before any verdict is taken back.
UpdateFails(i, v) == KeepsVerdict(i, v)

\* Request::Delete.
Delete(i) ==
    /\ i \in Here
    /\ records' = [records EXCEPT ![i] = Absent]
    /\ exposure' = exposure \ {i} /\ judged' = judged \ {i} /\ behind' = behind \ {i}
    /\ UNCHANGED asked

\* Time passes and nothing is changed.
Age(i) ==
    /\ i \in Here /\ ~records[i].old
    /\ records' = [records EXCEPT ![i].old = TRUE]
    /\ UNCHANGED <<exposure, asked, behind, judged>>

\* Locked and unlocked again.
Lock ==
    /\ exposure # {}
    /\ exposure' = {} /\ judged' = {} /\ behind' = {}
    /\ UNCHANGED <<records, asked>>

----------------------------------------------------------------------------
(* The breach check.                                                       *)

Checked == {i \in Here : records[i].name \in CheckedFields}

\* BreachPrefixes, distinct_prefixes and padded_prefixes: the real ones, and decoys
\* up to the next multiple of PadTo, at least one.
Prefixes(decoys) ==
    LET real == {records[i].value.prefix : i \in Checked}
        target == Max({1, (Cardinality(real) + PadTo - 1) \div PadTo}) * PadTo
    IN /\ asked = {}
       /\ decoys \cap real = {} /\ Cardinality(real \cup decoys) = target
       /\ asked' = real \cup decoys
       /\ UNCHANGED <<records, exposure, behind, judged>>

\* Mutant: a verdict whose bucket did not arrive is dropped.
MatchRangesForgets(arrived) ==
    {i \in Checked : records[i].value.prefix \in arrived /\ records[i].value \in Corpus}

\* match_ranges: a bucket decides, and without one the verdict stays what it was.
MatchRanges(arrived) ==
    {i \in Checked : IF records[i].value.prefix \in arrived THEN records[i].value \in Corpus
                                                            ELSE i \in exposure}

\* Request::BreachMatch with the buckets that could be fetched.
Match(arrived) ==
    LET seen == {i \in Checked : records[i].value.prefix \in arrived} IN
    /\ asked # {}
    /\ asked' = {}
    /\ exposure' = MatchRanges(arrived)
    /\ judged' = (judged \ seen) \cup {i \in seen : records[i].value \in Corpus}
    /\ behind' = (behind \ seen) \cap exposure'
    /\ UNCHANGED records

\* The command is stopped, or the vault is locked when it hands them back.
GiveUp == asked # {} /\ asked' = {} /\ UNCHANGED <<records, exposure, behind, judged>>

Next ==
    \/ \E i \in Id :
        \/ \E d \in Draft : Add(i, d)
        \/ \E v \in Value : Update(i, v) \/ ReplaceBehind(i, v) \/ UpdateFails(i, v)
        \/ Delete(i) \/ Age(i)
    \/ Lock \/ GiveUp
    \/ \E decoys \in SUBSET Prefix : Prefixes(decoys)
    \/ \E arrived \in SUBSET asked : Match(arrived)

----------------------------------------------------------------------------
Demerits(i) == MapThenSumSet(Weight, Issues(i))

\* The report tells the truth about the values the vault holds now.  A password once
\* found in its bucket stays exposed until it is changed, whatever fetches fail; a
\* password called exposed is one, unless it was replaced since by SecretPut, by another
\* process or by an update refused half way; and reuse is mutual: those who share are
\* reported alike.
ReportIsTrue ==
    /\ \A i \in judged : "Exposed" \in Issues(i)
    /\ \A i \in Here \ behind : "Exposed" \in Issues(i) => records[i].value \in Corpus
    /\ \A i \in Here : \A j \in SharedWith(i) : "Reused" \in Issues(j) /\ Demerits(j) >= Weight("Reused")

============================================================================
