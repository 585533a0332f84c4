----------------------------- MODULE MCLibrary -----------------------------
(***************************************************************************)
(* The parts that are called rather than talked to, checked side by side:  *)
(* the audit log, the approvals, the backup log, locked memory, the        *)
(* recipients of a vault file, passkeys, generation, the hygiene report,   *)
(* and export and import.                                                  *)
(* They share nothing, so a behaviour is one of exactly one of them, chosen*)
(* at the start, and the others stay as they began.                        *)
(***************************************************************************)
EXTENDS AuditLog, FiniteSetsExt

CONSTANTS
    Parts,
    Client, Item, Capability,
    Vault, Path, Command, Keep, MaxEpoch, MaxTime, BackupHarm,
    Buf, KeyBuf, SlabBytes, Page, MaxLen, MaxSlabs, MaxFailed,
    Passphrase, Label, MaxDraw, FileHarm,
    Id, PadTo, MinPassphrase, MinAllDigit, MinPin,
    Width, MaxLength, MaxTries,
    Records,
    Hosts, Suffixes,
    Draft, FieldValue, Corpus, Prefix

VARIABLES
    part,
    granted, lockdown, trusted,
    vault, copy, aside, backups, cmd, now, harm, lost, spoiled, rewound,
    slabs, buf, counters, backing,
    disk, handle, keyfiles, drawn, fileHarm, saved, who,
    cred, minted, signed,
    request, symbols, tries, outcome,
    records, exposure, asked, behind, judged,
    record, format, stage, reader, imported, entered

ASSUME PasskeyAssumption == Hosts \subseteq Seq(STRING) /\ Suffixes \subseteq Seq(STRING)
ASSUME BackupAssumption == MaxEpoch \in Nat \ {0} /\ MaxTime \in Nat \ {0}
ASSUME MemoryAssumption ==
    SlabBytes \in Nat \ {0} /\ Page \in Nat \ {0} /\ MaxLen \in Nat /\ KeyBuf \notin Buf
ASSUME HygieneAssumption ==
    Draft \subseteq [kind : STRING, title : STRING, name : STRING, value : FieldValue, old : {FALSE}]

----------------------------------------------------------------------------
(* Hosts, from the top level down, and the public suffixes among them.     *)

SomeHosts == {
    <<"localhost">>, <<"localhost", "a">>, <<"portal">>,
    <<"com">>, <<"com", "shop">>, <<"com", "shop", "a">>, <<"com", "shop", "a", "b">>,
    <<"com", "bank">>, <<"com", "bank", "a">>,
    <<"uk">>, <<"uk", "co">>, <<"uk", "co", "shop">>, <<"uk", "co", "bank">>, <<"uk", "co", "bank", "a">>,
    <<"com", "cloud">>, <<"com", "cloud", "x">>, <<"com", "cloud", "y">>,
    <<"com", "cloud", "x", "a">>, <<"com", "cloud", "x", "b">>}
SomeSuffixes == {<<"uk", "co">>, <<"com", "cloud", "*">>}
AlgorithmLists == {<<>>, <<"RS256", "Ed25519">>, <<"RS256">>}

(* Two values that share a prefix and one that does not, and three records.*)
Monkey == [id |-> "monkey", prefix |-> "p", len |-> 2, digits |-> FALSE]
Horse == [id |-> "horse battery", prefix |-> "p", len |-> 5, digits |-> FALSE]
Digits4 == [id |-> "1234", prefix |-> "q", len |-> 3, digits |-> TRUE]
DraftOf(kind, title, name, value) ==
    [kind |-> kind, title |-> title, name |-> name, value |-> value, old |-> FALSE]
Drafts == {DraftOf("login", "mail", "password", Monkey), DraftOf("totp", "mail", "secret", Horse),
           DraftOf("bank", "", "pin", Digits4)}
Values == {Monkey, Horse, Digits4}
Leaked == {Monkey, Digits4}
SomePrefixes == {"p", "q", "r"}

----------------------------------------------------------------------------
(* Values that are hard to carry, and records that hold them.              *)

Hard == {<<"a", ",", "\"">>, <<"\\", "n">>, <<"nl", "kind", ":", " ", "note">>,
         <<"=", "a">>, <<"cr", "nl">>, <<"'", "=">>, <<"a", " ">>}
Rec(kind, title, tags, attrs, fields, notes) ==
    [kind |-> kind, title |-> title, tags |-> tags, attrs |-> attrs, fields |-> fields,
     notes |-> notes, totp |-> {}, passkey |-> {}]
Code(issuer, account) == {[issuer |-> issuer, account |-> account, other |-> "sha256"]}

Logins == {Rec("login", <<"t">>, << <<"work">> >>, << <<"username", u>>, <<"comment", c>> >>,
               << <<"password", p>>, <<"pin", s>> >>, <<"x">>) :
             u \in {<<"a">>, <<"=", "a">>}, c \in Hard, p \in Hard, s \in Hard}
Networks == {Rec("wifi", t, tags, << <<"account", <<"me">> >> >>,
                 << <<"passphrase", p>>, <<"pin", <<"b">> >> >>, n) :
               t \in {<<"=", "a">>, <<"a", "nl">>}, tags \in {<<>>, << <<"a", "/", "b">>, <<",">> >>},
               p \in Hard, n \in {<<>>, <<"\"">>, <<"a", "[black-bag]">>, <<"a", "nl", "b">>}}
KeyRecords ==
    LET raw == <<"raw">> IN
    {[Rec("passkey", <<"t">>, <<>>, << <<"url", <<"x">> >> >>, << <<"private_key", raw>> >>, <<>>)
        EXCEPT !.passkey = {"config"}],
     [Rec("totp", <<"t">>, <<>>, <<>>, << <<"totp", raw>> >>, <<>>) EXCEPT !.totp = Code(<<"i">>, <<>>)],
     [Rec("totp", <<"t">>, <<>>, <<>>, << <<"password", <<"p">> >>, <<"totp", raw>> >>, <<>>)
        EXCEPT !.totp = Code(<<"i">>, <<"me">>)],
     [Rec("login", <<"t">>, <<>>, << <<"username", <<"u">> >> >>,
          << <<"password", <<"p">> >>, <<"totp", raw>> >>, <<>>) EXCEPT !.totp = Code(<<"i", ":", "j">>, <<"me">>)],
     Rec("note", <<"t">>, <<>>, <<>>, << <<"body", <<"a", "nl">> >> >>, <<>>),
     Rec("ssh", <<"t">>, <<>>, << <<"comment", <<"c">> >> >>,
         << <<"private_key", raw>>, <<"passphrase", <<"p">> >> >>, <<>>),
     Rec("note", <<"t">>, <<>>, <<>>, <<>>, <<"a">>)}
AllRecords == Logins \cup Networks \cup KeyRecords
Neighbour == Rec("login", <<"t">>, <<>>, << <<"username", <<"z">> >> >>, << <<"password", <<"z", ",">> >> >>, <<>>)

Custom(value) == [name : {"pin", "password", "totp", "custom_pin"}, hidden : BOOLEAN, value : {value}]
Customs == {<<>>} \cup {<<f>> : f \in Custom(<<"s1">>)} \cup {<<f, g>> : f \in Custom(<<"s1">>), g \in Custom(<<"s2">>)}
BitwardenCells == <<
    << <<"username", <<"u">> >>, <<"password", <<"p">> >>, <<"uri", <<"x">> >>, <<"totp", <<"raw">> >> >>,
    <<>>,
    << <<"brand", <<"b">> >>, <<"number", <<"p">> >>, <<"code", <<"q">> >> >>,
    << <<"passportNumber", <<"p">> >>, <<"ssn", <<"q">> >> >> >>
CsvCells(user, pass) ==
    << <<"name", <<"n">> >>, <<user, <<"me">> >>, <<pass, <<"p">> >>, <<"url", <<"x">> >>,
       <<"room", <<"q">> >>, <<"otp", <<"bad">> >> >>
ForeignItems ==
    {[program |-> "bitwarden", type |-> t, name |-> <<"t">>, notes |-> <<"n">>, tags |-> << <<"favorite">> >>,
      cells |-> BitwardenCells[t], custom |-> c] : t \in 1 .. 4, c \in Customs}
    \cup {[program |-> p, cells |-> CsvCells("username", "password")] : p \in {"firefox", "chrome", "csv"}}
    \cup {[program |-> "csv", cells |-> CsvCells(u, w)] : u \in {"username", "user"}, w \in {"password", "pass"}}

----------------------------------------------------------------------------
Pol == INSTANCE Policy
Back == INSTANCE Backup WITH log <- backups, MaxHarm <- BackupHarm
Mem == INSTANCE SecMem
Keys == INSTANCE Recipients WITH harm <- fileHarm, MaxHarm <- FileHarm
Pass == INSTANCE Passkeys WITH Domain <- Hosts, Rules <- Suffixes, Offers <- AlgorithmLists
Gen == INSTANCE Generate WITH
    drawn <- symbols, Class <- {{"a", "l"}, {"A"}, {"0", "2"}}, Words <- {"able", "acre", "adapt", "afraid"},
    Digits <- {"0", "2"}, Ambiguous <- {"l", "0"}
Hyg == INSTANCE Hygiene WITH Value <- FieldValue
Exch == INSTANCE Exchange WITH kept <- entered, After <- Neighbour, Items <- ForeignItems

polVars == <<granted, lockdown, trusted>>
backVars == <<vault, copy, aside, backups, cmd, now, harm, lost, spoiled, rewound>>
memVars == <<slabs, buf, counters, backing>>
keyVars == <<disk, handle, keyfiles, drawn, fileHarm, saved, who>>
passVars == <<cred, minted, signed>>
genVars == <<request, symbols, tries, outcome>>
hygVars == <<records, exposure, asked, behind, judged>>
exchVars == <<record, format, stage, reader, imported, entered>>
auditVars == vars
libraryVars == <<part, auditVars, polVars, backVars, memVars, keyVars, passVars, genVars, hygVars, exchVars>>

LibraryInit ==
    /\ part \in Parts
    /\ Init /\ Pol!Init /\ Back!Init /\ Mem!Init /\ Keys!Init /\ Pass!Init /\ Hyg!Init
    /\ IF part = "generate" THEN Gen!Init
       ELSE request = "none" /\ symbols = <<>> /\ tries = "none" /\ outcome = "none"
    /\ IF part = "exchange" THEN Exch!Init
       ELSE /\ record = "none" /\ format = "none" /\ stage = "none" /\ reader = "none"
            /\ imported = <<>> /\ entered = <<>>

LibraryNext ==
    /\ UNCHANGED part
    /\ \/ part = "audit" /\ Next
          /\ UNCHANGED <<polVars, backVars, memVars, keyVars, passVars, genVars, hygVars, exchVars>>
       \/ part = "approvals" /\ Pol!Next
          /\ UNCHANGED <<auditVars, backVars, memVars, keyVars, passVars, genVars, hygVars, exchVars>>
       \/ part = "backup" /\ Back!Next
          /\ UNCHANGED <<auditVars, polVars, memVars, keyVars, passVars, genVars, hygVars, exchVars>>
       \/ part = "memory" /\ Mem!Next
          /\ UNCHANGED <<auditVars, polVars, backVars, keyVars, passVars, genVars, hygVars, exchVars>>
       \/ part = "recipients" /\ Keys!Next
          /\ UNCHANGED <<auditVars, polVars, backVars, memVars, passVars, genVars, hygVars, exchVars>>
       \/ part = "passkeys" /\ Pass!Next
          /\ UNCHANGED <<auditVars, polVars, backVars, memVars, keyVars, genVars, hygVars, exchVars>>
       \/ part = "generate" /\ Gen!Next
          /\ UNCHANGED <<auditVars, polVars, backVars, memVars, keyVars, passVars, hygVars, exchVars>>
       \/ part = "hygiene" /\ Hyg!Next
          /\ UNCHANGED <<auditVars, polVars, backVars, memVars, keyVars, passVars, genVars, exchVars>>
       \/ part = "exchange" /\ Exch!Next
          /\ UNCHANGED <<auditVars, polVars, backVars, memVars, keyVars, passVars, genVars, hygVars>>

LibrarySpec == LibraryInit /\ [][LibraryNext]_libraryVars

----------------------------------------------------------------------------
\* The properties, each stated and explained in its module; that of the audit log is
\* VerdictIsTrue.

\* Lockdown makes no exception, whatever the comment on the switch says.
LockdownDeniesAll == Pol!LockdownDeniesAll

\* Nothing but an explicit yes makes an approval.
YesIsExplicit == Pol!YesIsExplicit

\* An epoch the backup log calls backed up is in a copy, at its path or moved aside,
\* unless the copy or the vault was replaced where no size tells.
BackedUpIsTrue == Back!BackedUpIsTrue

\* Buffers do not overlap, keep their bytes and leave none behind, and the report on
\* locked memory is true.
ArenaIsSound == Mem!ArenaIsSound

\* Whoever is to open the vault file opens it.
HoldersOpen == Keys!HoldersOpen

\* What opens is a file some save wrote.
OpenedWasSaved == Keys!OpenedWasSaved

\* A credential signs for one owner of a domain only.
OneOwner == Pass!OneOwner

\* The strength that is shown is the strength the generator gives.
FigureIsExact == part = "generate" => Gen!FigureIsExact

\* A verdict in the hygiene report is about the value in the vault.
ReportIsTrue == Hyg!ReportIsTrue

\* A record comes back from an export as it was.
RoundTrip == part = "exchange" => Exch!RoundTrip

\* What an import takes for a secret of another program's item stays one.
ForeignKept == part = "exchange" => Exch!ForeignKept

\* An own export is a backup that can be restored.
RestoreIsWhole == part = "exchange" => Exch!RestoreIsWhole

============================================================================
