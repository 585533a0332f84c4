------------------------------ MODULE Exchange ------------------------------
(***************************************************************************)
(* Export and import (import.rs, and the drafts of session.rs by which an  *)
(* import reaches a running agent).  One record, followed by another, is   *)
(* written in one of the three formats, the file is read back and the      *)
(* records enter a vault, through the agent if it holds the vault open and *)
(* straight into the file otherwise.  Or another program's file is read.   *)
(*                                                                         *)
(* A text is a sequence of tokens: single characters where a conversion    *)
(* looks at them, whole words elsewhere, and "raw" for a byte that is not  *)
(* UTF-8.  Names of attributes and fields are words.  The JSON libraries   *)
(* give back what they were given.                                         *)
(***************************************************************************)
EXTENDS Integers, Sequences, SequencesExt, FiniteSets, FiniteSetsExt

CONSTANTS
    Records,     \* the records that may be exported
    After,       \* the record that follows in the same file
    Items        \* the items of other programs' exports

VARIABLES
    record,      \* what is exported, or the other program's item
    format,      \* "json", "cxf" or "keepassxc", or the other program
    stage,       \* "vault", "file", "parsed", "stored" or "refused"
    reader,      \* the CSV reader: rest, field, row, rows, quoted and started
    imported,    \* Imported::records
    kept         \* what has reached the vault

vars == <<record, format, stage, reader, imported, kept>>

----------------------------------------------------------------------------
(* Texts.                                                                  *)

Q == "\""
NL == "nl"
CR == "cr"
Blank == {" ", NL, CR}

Trim(s) ==
    LET at == {i \in DOMAIN s : s[i] \notin Blank}
    IN IF at = {} THEN <<>> ELSE SubSeq(s, Min(at), Max(at))
TrimEnd(s) == SubSeq(s, 1, Max({0} \cup {i \in DOMAIN s : s[i] \notin Blank}))
Utf8(s) == \A i \in DOMAIN s : s[i] # "raw"

\* Where token c first is; past the end if it is nowhere.
Find(s, c) == Min({Len(s) + 1} \cup {i \in DOMAIN s : s[i] = c})

Split(s, c) ==
    LET cuts == SetToSortSeq({0, Len(s) + 1} \cup {i \in DOMAIN s : s[i] = c}, <)
    IN [k \in 1 .. Len(cuts) - 1 |-> SubSeq(s, cuts[k] + 1, cuts[k + 1] - 1)]
Join(texts, c) == FlattenSeq([i \in DOMAIN texts |-> (IF i = 1 THEN <<>> ELSE <<c>>) \o texts[i]])
Each(s, F(_)) == FlattenSeq([i \in DOMAIN s |-> F(s[i])])

csv_quote(s) ==
    IF Range(s) \cap {",", Q, NL, CR} = {} THEN s
    ELSE <<Q>> \o Each(s, LAMBDA c : IF c = Q THEN <<Q, Q>> ELSE <<c>>) \o <<Q>>

Escaped(c) == CASE c = "\\" -> <<"\\", "\\">> [] c = NL -> <<"\\", "n">>
                [] c = CR -> <<"\\", "r">> [] OTHER -> <<c>>

\* Mutant: only line ends are escaped.
MetaEscapeLines(s) == Each(s, LAMBDA c : IF c = "\\" THEN <<c>> ELSE Escaped(c))

\* meta_escape: keeps a value on one line of the block.
MetaEscape(s) == Each(s, Escaped)

MetaUnescape(s) ==
    LET from[i \in 1 .. Len(s) + 2] ==
            IF i > Len(s) THEN <<>>
            ELSE IF s[i] # "\\" \/ i = Len(s) THEN <<s[i]>> \o from[i + 1]
            ELSE (CASE s[i + 1] = "\\" -> <<"\\">> [] s[i + 1] = "n" -> <<NL>>
                    [] s[i + 1] = "r" -> <<CR>> [] OTHER -> <<"\\", s[i + 1]>>) \o from[i + 2]
    IN from[1]

\* What a spreadsheet takes for a formula.
Formula == {"=", "+", "-", "@", "tab", CR}
Defang(s) == IF s # <<>> /\ s[1] \in Formula THEN <<"'">> \o s ELSE s
Undefang(s) == IF Len(s) > 1 /\ s[1] = "'" /\ s[2] \in Formula THEN Tail(s) ELSE s

----------------------------------------------------------------------------
(* Records.  Of a one-time code: its issuer, its account and the other     *)
(* parameters; of a passkey: its configuration.  Both are sets of at most  *)
(* one element.                                                            *)

Blank0(kind, title) == [kind |-> kind, title |-> title, tags |-> <<>>, attrs |-> << >>,
                        fields |-> <<>>, notes |-> <<>>, totp |-> {}, passkey |-> {}]

Value(pairs, name) ==
    LET at == {i \in DOMAIN pairs : pairs[i][1] = name}
    IN IF at = {} THEN <<>> ELSE pairs[Min(at)][2]
Has(pairs, name) == \E i \in DOMAIN pairs : pairs[i][1] = name
Put(pairs, name, value) ==
    IF Has(pairs, name)
    THEN [i \in DOMAIN pairs |-> IF pairs[i][1] = name THEN <<name, value>> ELSE pairs[i]]
    ELSE Append(pairs, <<name, value>>)

SetAttrIf(r, name, v) ==
    IF Trim(v) = <<>> THEN r ELSE [r EXCEPT !.attrs = Put(@, name, Trim(v))]
SetSecretIf(r, name, v) == IF v = <<>> THEN r ELSE [r EXCEPT !.fields = Put(@, name, v)]
SetNotesIf(r, v) == IF Trim(v) = <<>> THEN r ELSE [r EXCEPT !.notes = Trim(v)]
SetAttrsIf(r, pairs) == FoldLeft(LAMBDA s, p : SetAttrIf(s, p[1], p[2]), r, pairs)
SetSecretsIf(r, pairs) == FoldLeft(LAMBDA s, p : SetSecretIf(s, p[1], p[2]), r, pairs)

primary_field_for(kind) ==
    CASE kind = "wifi" -> "passphrase" [] kind = "note" -> "body"
      [] kind \in {"ssh", "passkey"} -> "private_key" [] OTHER -> "password"

\* host_of: the host is the word a URL is.
HostOf(url) == IF Trim(url) = <<>> THEN <<"(untitled)">> ELSE Trim(url)
login(title, username, password, url, notes) ==
    LET named == IF Trim(title) = <<>> THEN HostOf(url) ELSE Trim(title)
        r == SetAttrIf(SetAttrIf(Blank0("login", named), "username", username), "url", url)
    IN SetNotesIf(SetSecretIf(r, "password", password), notes)

----------------------------------------------------------------------------
(* One-time codes: the URI carries issuer and account in its label and the *)
(* issuer, if there is one, once more.                                     *)

UriOf(r, username) ==
    LET c == CHOOSE c \in r.totp : TRUE
        Or(a, b) == IF a = <<>> THEN b ELSE a
    IN [label |-> Or(c.issuer, r.title) \o <<":">> \o Or(c.account, username),
        issuer |-> c.issuer, other |-> c.other, secret |-> Value(r.fields, "totp")]

parse_otpauth(uri) ==
    LET colon == Find(uri.label, ":")
        first == IF colon > Len(uri.label) THEN <<>> ELSE Trim(SubSeq(uri.label, 1, colon - 1))
        rest == IF colon > Len(uri.label) THEN uri.label ELSE SubSeq(uri.label, colon + 1, Len(uri.label))
    IN [issuer |-> IF uri.issuer # <<>> THEN uri.issuer ELSE first,
        account |-> Trim(rest), other |-> uri.other]

\* attach_totp: from a URI, or from a bare secret in base32; "bad" is not base32, and only
\* reported.
AttachTotp(r, uri) == [r EXCEPT !.fields = Put(@, "totp", uri.secret), !.totp = {parse_otpauth(uri)}]
AttachSecret(r, secret) ==
    IF secret \in {<<>>, <<"bad">>} THEN r
    ELSE [r EXCEPT !.fields = Put(@, "totp", secret),
                   !.totp = {[issuer |-> r.title, account |-> Value(r.attrs, "username"), other |-> "default"]}]

----------------------------------------------------------------------------
(* The KeePassXC file.                                                     *)

Columns == <<"Group", "Title", "Username", "Password", "URL", "Notes", "TOTP">>
Marker == "[black-bag]"

\* The field that goes into the Password column; none of them is 0.
Primary(r) ==
    LET named == {i \in DOMAIN r.fields : r.fields[i][1] = primary_field_for(r.kind)}
    IN IF named # {} THEN Min(named) ELSE IF r.fields = <<>> THEN 0 ELSE 1

Username(r) == IF Has(r.attrs, "username") THEN Value(r.attrs, "username") ELSE Value(r.attrs, "account")

\* What has no column: the kind, the other attributes, the other secrets.
MetaLines(r) ==
    LET attrs == SelectSeq(r.attrs, LAMBDA p : p[1] \notin {"username", "url", "account"})
        fields == {i \in DOMAIN r.fields :
                      r.fields[i][1] # "totp" /\ i # Primary(r) /\ Utf8(r.fields[i][2])}
        order == SetToSortSeq(fields, <)
        Line(word, p) == <<word, " ", p[1], ":", " ">> \o MetaEscape(p[2])
    IN (IF r.kind = "login" THEN <<>> ELSE << <<"kind", ":", " ", r.kind>> >>)
       \o [i \in DOMAIN attrs |-> Line("attr", attrs[i])]
       \o [i \in DOMAIN order |-> Line("secret", r.fields[order[i]])]

CellsOf(r) ==
    LET meta == MetaLines(r)
        own == IF Utf8(r.notes) THEN r.notes ELSE <<>>
        block == IF meta = <<>> THEN <<>> ELSE <<Marker, NL>> \o Join(meta, NL)
        p == Primary(r)
    IN << Defang(Join(<< <<"Root">> >> \o r.tags, "/")), Defang(r.title), Defang(Username(r)),
          IF p = 0 \/ ~Utf8(r.fields[p][2]) THEN <<>> ELSE r.fields[p][2],
          Defang(Value(r.attrs, "url")),
          Defang(Join(SelectSeq(<<own, block>>, LAMBDA t : t # <<>>), NL)),
          IF r.totp # {} /\ Has(r.fields, "totp") THEN <<"otpauth">> ELSE <<>> >>

render_keepassxc(rs) ==
    LET Quoted(cells) == Join([i \in DOMAIN cells |-> csv_quote(cells[i])], ",")
        header == Join([i \in DOMAIN Columns |-> <<Q, Columns[i], Q>>], ",")
    IN header \o <<NL>> \o FlattenSeq([i \in DOMAIN rs |-> Quoted(CellsOf(rs[i])) \o <<NL>>])

----------------------------------------------------------------------------
(* Reading CSV, a character at a time.                                     *)

Opened(text) == [rest |-> text, field |-> <<>>, row |-> <<>>, rows |-> <<>>,
                 quoted |-> FALSE, started |-> FALSE]
EndField(s) == [s EXCEPT !.row = Append(@, s.field), !.field = <<>>, !.started = FALSE]
EndRow(s) == [EndField(s) EXCEPT !.rows = Append(@, EndField(s).row), !.row = <<>>]

\* One turn of parse_csv's loop.
Step(s) ==
    LET c == Head(s.rest)
        t == [s EXCEPT !.rest = Tail(@)]
        Follows(d) == t.rest # <<>> /\ Head(t.rest) = d
        skip == [t EXCEPT !.rest = Tail(@)]
    IN CASE s.quoted /\ c = Q /\ Follows(Q) -> [skip EXCEPT !.field = Append(@, Q)]
         [] s.quoted /\ c = Q /\ ~Follows(Q) -> [t EXCEPT !.quoted = FALSE]
         [] s.quoted /\ c # Q -> [t EXCEPT !.field = Append(@, c)]
         [] ~s.quoted /\ c = Q /\ (~s.started \/ s.field = <<>>) ->
                [t EXCEPT !.quoted = TRUE, !.started = TRUE]
         [] ~s.quoted /\ c = "," -> EndField(t)
         [] ~s.quoted /\ c = CR -> EndRow(IF Follows(NL) THEN skip ELSE t)
         [] ~s.quoted /\ c = NL -> EndRow(t)
         [] OTHER -> [t EXCEPT !.field = Append(@, c), !.started = TRUE]

\* The end of parse_csv, and header_and_rows: the rows below the header with anything in them.
Rows(s) ==
    LET all == (IF s.started \/ s.row # <<>> THEN EndRow(s) ELSE s).rows
    IN SelectSeq(SubSeq(all, 2, Len(all)),
                 LAMBDA row : \E i \in DOMAIN row : Trim(row[i]) # <<>>)

\* split_meta: the user's notes, and what the exporter put after the marker.
SplitMeta(notes) ==
    LET at == Find(notes, Marker)
        tail == Split(SubSeq(notes, at, Len(notes)), NL)
        lines == [i \in 1 .. Len(tail) - 1 |-> TrimEnd(tail[i + 1])]
        Says(word) == SelectSeq(lines, LAMBDA l :
            Len(l) >= 5 /\ <<l[1], l[2], l[4], l[5]>> = <<word, " ", ":", " ">>)
        Pairs(ls) == [i \in DOMAIN ls |-> <<ls[i][3], MetaUnescape(SubSeq(ls[i], 6, Len(ls[i])))>>]
        kinds == SelectSeq(lines, LAMBDA l : Len(l) = 4 /\ SubSeq(l, 1, 3) = <<"kind", ":", " ">>)
    IN IF at > Len(notes) THEN [kind |-> "none", attrs |-> <<>>, secrets |-> <<>>, notes |-> notes]
       ELSE [kind |-> IF kinds = <<>> THEN "none" ELSE Last(kinds)[4],
             attrs |-> Pairs(Says("attr")), secrets |-> Pairs(Says("secret")),
             notes |-> TrimEnd(SubSeq(notes, 1, at - 1))]

\* keepassxc: the record of a row.
KeepassxcRecord(cells, uri) ==
    LET Get(c) == LET i == CHOOSE i \in DOMAIN Columns : Columns[i] = c
                  IN IF i > Len(cells) THEN <<>> ELSE cells[i]
        title == Undefang(Get("Title"))
        user == Undefang(Get("Username"))
        url == Undefang(Get("URL"))
        pass == Get("Password")
        meta == SplitMeta(Undefang(Get("Notes")))
        other == SetAttrIf(SetAttrIf(Blank0(meta.kind, title), "username", user), "url", url)
        begun == IF meta.kind \notin {"none", "login"}
                 THEN SetNotesIf(SetSecretIf(other, primary_field_for(meta.kind), pass), meta.notes)
                 ELSE IF user = <<>> /\ pass = <<>> /\ url = <<>> /\ meta.secrets = <<>>
                      THEN SetSecretIf(Blank0("note", title), "body", meta.notes)
                      ELSE login(title, user, pass, url, meta.notes)
        groups == Split(Get("Group"), "/")
        tags == SelectSeq([i \in DOMAIN groups |-> Trim(groups[i])],
                          LAMBDA t : t \notin {<<>>, <<"Root">>})
        whole == [SetSecretsIf(SetAttrsIf(begun, meta.attrs), meta.secrets) EXCEPT !.tags = tags]
    IN IF Get("TOTP") = <<>> THEN whole ELSE AttachTotp(whole, uri)

----------------------------------------------------------------------------
(* The JSON formats.                                                       *)

\* export_item_json and record_from_export_item: all but what trimming takes.
JsonRecord(r) ==
    LET begun == [r EXCEPT !.attrs = << >>, !.notes = <<>>]
    IN SetNotesIf(SetAttrsIf(begun, r.attrs), IF Utf8(r.notes) THEN r.notes ELSE <<>>)

\* cxf_credential, and record_from_cxf_item without our own extension; an ssh key or a
\* passkey is not imported.
CxfRecords(r) ==
    LET first == IF r.fields = <<>> THEN <<>> ELSE r.fields[1][2]
        auth == SetAttrIf(SetAttrIf(Blank0("login", r.title), "username", Value(r.attrs, "username")),
                          "url", Value(r.attrs, "url"))
        Code(c) == [Blank0("totp", r.title) EXCEPT
                       !.fields = << <<"totp", Value(r.fields, "totp")>> >>,
                       !.totp = {[c EXCEPT !.other = "default"]}]
    IN CASE r.kind \in {"login", "wifi"} -> <<SetSecretIf(auth, "password", IF Utf8(first) THEN first ELSE <<>>)>>
         [] r.kind = "note" -> <<SetNotesIf(Blank0("note", r.title), r.notes)>>
         [] r.kind = "totp" -> <<Code(CHOOSE c \in r.totp : TRUE)>>
         [] OTHER -> <<>>

----------------------------------------------------------------------------
(* Other programs' files.                                                  *)

First(cells, names) ==
    LET some == SelectSeq(names, LAMBDA n : Trim(Value(cells, n)) # <<>>)
    IN IF some = <<>> THEN <<>> ELSE Value(cells, some[1])

TITLE == <<"title", "name">>
USER == <<"username", "user">>
PASS == <<"password", "pass">>
URL == <<"url", "website">>
NOTES == <<"notes", "note">>
TOTP == <<"totp", "otp">>

CsvRecord(program, cells) ==
    LET Get(n) == Value(cells, n)
        others == SelectSeq(cells, LAMBDA p : p[1] \notin Range(TITLE \o USER \o PASS \o URL \o NOTES \o TOTP))
        all == login(First(cells, TITLE), First(cells, USER), First(cells, PASS), First(cells, URL),
                     First(cells, NOTES))
    IN CASE program = "firefox" -> login(<<>>, Get("username"), Get("password"), Get("url"), <<>>)
         [] program = "chrome" -> login(Get("name"), Get("username"), Get("password"), Get("url"), Get("note"))
         [] program = "csv" -> AttachSecret(SetAttrsIf(all, others), First(cells, TOTP))

\* Mutant: a custom field takes any name.
CustomKeyFree(r, name) == name

\* A custom field may not overwrite what the item's own type has put there.
CustomKey(r, name) ==
    IF name = "totp" \/ Has(r.fields, name) \/ Has(r.attrs, name) THEN "custom_" \o name ELSE name

BitwardenRecord(item) ==
    LET Get(n) == Value(item.cells, n)
        ids == SelectSeq(<<"passportNumber", "licenseNumber", "ssn">>, LAMBDA n : Get(n) # <<>>)
        begun == CASE item.type = 1 -> AttachSecret(login(item.name, Get("username"), Get("password"),
                                                          Get("uri"), item.notes), Get("totp"))
                   [] item.type = 2 -> SetSecretIf(Blank0("note", item.name), "body", item.notes)
                   [] item.type = 3 -> SetNotesIf(SetSecretsIf(SetAttrIf(Blank0("bank", item.name), "institution", Get("brand")),
                          << <<"account_number", Get("number")>>, <<"security_code", Get("code")>> >>), item.notes)
                   [] item.type = 4 -> SetNotesIf(IF ids = <<>> THEN Blank0("id", item.name)
                          ELSE SetSecretIf(SetAttrIf(Blank0("id", item.name), "id_type", <<ids[1]>>),
                                           "number", Get(ids[1])), item.notes)
        Custom(r, f) == IF f.hidden THEN SetSecretIf(r, CustomKey(r, f.name), f.value)
                        ELSE SetAttrIf(r, CustomKey(r, f.name), f.value)
    IN [FoldLeft(Custom, begun, item.custom) EXCEPT !.tags = item.tags]

----------------------------------------------------------------------------
(* By way of the agent.                                                    *)

\* RecordDraft::of: texts only, and nothing of a passkey but its kind.
DraftOf(r) ==
    [r EXCEPT !.fields = SelectSeq(@, LAMBDA f : f[1] # "totp" /\ Utf8(f[2])),
              !.notes = IF Utf8(@) THEN @ ELSE <<>>,
              !.passkey = {}]

\* into_record: a code's secret comes back with the code, if there is one.
Accepts(r) == r.totp = {} \/ Value(r.fields, "totp") # <<>>
IntoRecord(r) ==
    LET texts == SetSecretsIf([DraftOf(r) EXCEPT !.fields = <<>>], DraftOf(r).fields)
    IN IF r.totp = {} THEN texts
       ELSE [texts EXCEPT !.fields = Put(@, "totp", Value(r.fields, "totp"))]

----------------------------------------------------------------------------
Own == {"json", "cxf", "cxf_relayed", "keepassxc"}
Programs == {"bitwarden", "firefox", "chrome", "csv"}

Init ==
    /\ \/ format \in Own /\ record \in Records
       \/ \E item \in Items : format = item.program /\ record = item
    /\ stage = "vault" /\ reader = Opened(<<>>) /\ imported = <<>> /\ kept = <<>>

\* cmd_export.  A CXF file may come back from another manager without our extension.
Export ==
    /\ stage = "vault" /\ format \in Own
    /\ stage' = "file"
    /\ reader' = IF format = "keepassxc" THEN Opened(render_keepassxc(<<record, After>>)) ELSE reader
    /\ UNCHANGED <<record, format, imported, kept>>

Read ==
    /\ stage = "file" /\ reader.rest # <<>>
    /\ reader' = Step(reader)
    /\ UNCHANGED <<record, format, stage, imported, kept>>

\* The end of the file: parse returns.
Parse ==
    LET rows == Rows(reader)
        UriFor(r) == IF r.totp = {} THEN [secret |-> <<>>] ELSE UriOf(r, Username(r))
        Row(i) == KeepassxcRecord(rows[i], UriFor(IF i = 1 THEN record ELSE After))
    IN /\ \/ stage = "file" /\ reader.rest = <<>>
          \/ stage = "vault" /\ format \in Programs
       /\ imported' = CASE format = "keepassxc" -> [i \in DOMAIN rows |-> Row(i)]
                        [] format \in {"json", "cxf"} -> <<JsonRecord(record), JsonRecord(After)>>
                        [] format = "cxf_relayed" -> CxfRecords(record) \o CxfRecords(After)
                        [] format = "bitwarden" -> <<BitwardenRecord(record)>>
                        [] OTHER -> <<CsvRecord(format, record.cells)>>
       /\ stage' = IF reader.quoted \/ imported' = <<>> THEN "refused" ELSE "parsed"
       /\ reader' = Opened(<<>>)
       /\ UNCHANGED <<record, format, kept>>

\* cmd_import with the vault locked: straight into the file.
Store ==
    /\ stage = "parsed"
    /\ stage' = "stored" /\ kept' = imported
    /\ UNCHANGED <<record, format, reader, imported>>

\* cmd_import with the vault open: AddMany, which takes all drafts or none.
AddMany ==
    /\ stage = "parsed"
    /\ IF \A i \in DOMAIN imported : Accepts(imported[i])
       THEN stage' = "added" /\ kept' = [i \in DOMAIN imported |-> IntoRecord(imported[i])]
       ELSE stage' = "refused" /\ UNCHANGED kept
    /\ UNCHANGED <<record, format, reader, imported>>

Next == Export \/ Read \/ Parse \/ Store \/ AddMany

----------------------------------------------------------------------------
Home == stage \in {"stored", "added"}

Same(a, b) ==
    /\ <<a.kind, a.title, a.tags, a.notes, a.totp, a.passkey>>
         = <<b.kind, b.title, b.tags, b.notes, b.totp, b.passkey>>
    /\ Range(a.attrs) = Range(b.attrs) /\ Range(a.fields) = Range(b.fields)

Tidy(s) == s # <<>> /\ s = Trim(s)
TidyAttrs(r) == \A i \in DOMAIN r.attrs : Tidy(r.attrs[i][2])

\* What the JSON formats carry.
Carried(r) == TidyAttrs(r) /\ r.notes = Trim(r.notes) /\ Utf8(r.notes)

\* What a draft carries.
Draftable(r) ==
    /\ r.passkey = {}
    /\ \A i \in DOMAIN r.fields : r.fields[i][2] # <<>> /\ (r.fields[i][1] = "totp" \/ Utf8(r.fields[i][2]))
    /\ Has(r.fields, "totp") <=> r.totp # {}

\* What a KeePassXC file carries: the rest it renames, trims, splits or drops.
Columnar(r) ==
    LET Safe(s) == Undefang(s) = s IN
    /\ Carried(r) /\ Draftable(r)
    /\ Tidy(r.title) /\ Safe(r.title) /\ Safe(r.notes) /\ Safe(Username(r)) /\ Safe(Value(r.attrs, "url"))
    /\ ~Has(r.attrs, "account")
    /\ Find(r.notes, Marker) > Len(r.notes)
    /\ \A i \in DOMAIN r.tags : Tidy(r.tags[i]) /\ Find(r.tags[i], "/") > Len(r.tags[i])
    /\ \A i \in DOMAIN r.fields : i # Primary(r) => Tidy(r.fields[i][2])
    /\ r.fields # <<>> /\ r.fields[Primary(r)][1] = primary_field_for(r.kind)
    /\ \A c \in r.totp : Tidy(c.issuer) /\ Tidy(c.account) /\ Find(c.issuer, ":") > Len(c.issuer)

\* A record exported and imported again is the record it was, whatever quotes, commas,
\* line ends, backslashes and formula signs its values hold, unless it holds what the
\* format or the way through the agent cannot carry; and whatever it holds, the record
\* after it in the same file comes back untouched.
RoundTrip ==
    Home /\ format \in Own \ {"cxf_relayed"} =>
        LET fits == IF format = "keepassxc" THEN Columnar(record) ELSE Carried(record)
        IN /\ Len(kept) = 2 /\ Same(kept[2], After)
           /\ fits /\ (stage = "added" => Draftable(record)) => Same(kept[1], record)

\* What the import takes for a secret in another program's item: the password, the code's
\* secret, a card's number and code, the first of an identity's three numbers, and the
\* hidden custom fields.  An identity's other numbers and a code's secret in a CSV file that
\* cannot be decoded are not kept; a secret in a column the import does not know, or in a
\* custom field that is not hidden, becomes an attribute in plain sight.
SecretsOf(item) ==
    IF item.program # "bitwarden" THEN {First(item.cells, PASS)}
    ELSE LET hidden == {i \in DOMAIN item.custom : item.custom[i].hidden}
             own == CASE item.type = 1 -> {"password", "totp"} [] item.type = 3 -> {"number", "code"}
                      [] OTHER -> {}
             number == IF item.type # 4 THEN <<>>
                       ELSE First(item.cells, <<"passportNumber", "licenseNumber", "ssn">>)
         IN {Value(item.cells, n) : n \in own} \cup {number} \cup {item.custom[i].value : i \in hidden}

\* Two custom fields may end under one name: called alike, or one as the other is renamed.
Alike(item) ==
    item.program = "bitwarden" /\ \E i, j \in DOMAIN item.custom :
        i # j /\ item.custom[i].name \in {item.custom[j].name, "custom_" \o item.custom[j].name}

\* What the import takes for a secret (SecretsOf) stays one: it is a secret field of the
\* record made of the item and no attribute, and no custom field overwrites it, whatever
\* the custom fields are called, unless two of them end under one name (import.rs: "A
\* custom field may not overwrite what the item's own type already put there").  It does
\* not say that all an item keeps secret is taken for a secret.
ForeignKept ==
    Home /\ format \in Programs /\ ~Alike(record) =>
        \A s \in SecretsOf(record) \ {<<>>} :
            /\ \E i \in DOMAIN kept[1].fields : kept[1].fields[i][2] = s
            /\ \A i \in DOMAIN kept[1].attrs : kept[1].attrs[i][2] # s

\* import.rs: "An export you cannot import is a backup you cannot restore."  Whatever the
\* program's own JSON can hold comes back, by whichever way the records enter the vault.
RestoreIsWhole == Home /\ format \in {"json", "cxf"} => Same(kept[1], record)

============================================================================
