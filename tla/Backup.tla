------------------------------- MODULE Backup -------------------------------
(***************************************************************************)
(* Copies of a vault (blackbag-core/src/backup.rs and cmd_backup of        *)
(* blackbag-cli/src/main.rs) and the claim made from them: a passkey says  *)
(* it is backed up (the BS flag) when some recorded copy that still looks  *)
(* right was taken at or after the epoch the passkey was written in.       *)
(*                                                                         *)
(* A copy is what it holds: the vault and its epoch, and with it the       *)
(* passkeys up to that epoch.  Padding gives copies one size.  No command  *)
(* takes a lock: it loads the log first and saves it last.                 *)
(***************************************************************************)
EXTENDS Integers, Sequences, FiniteSets

CONSTANTS
    Vault,       \* vault files, each with its id
    Path,        \* where copies go
    Command,     \* backup commands, each run once
    Keep,        \* KEEP
    MaxEpoch,    \* bound on saves of a vault
    MaxTime,     \* bound on the clock, in seconds
    MaxHarm      \* bound on what happens to the copies, the vault and the clock

VARIABLES
    vault,       \* the epoch of each vault file; every save adds a passkey
    copy,        \* what lies at each path
    aside,       \* what was moved from each path, by the second it was moved in
    log,         \* backups.json, the newest first
    cmd,         \* each command: where it is and what it holds
    now,         \* the clock
    harm,        \* how often something was harmed
    lost,        \* history: paths whose file was deleted or replaced
    spoiled,     \* history: paths where the log cannot tell what became of a copy
    rewound      \* history: vaults put back to an older copy

vars == <<vault, copy, aside, log, cmd, now, harm, lost, spoiled, rewound>>

NoFile == [what |-> "none"]
Junk(size) == [what |-> "junk", size |-> size]
CopyOf(v) == [what |-> "copy", size |-> "same", vault |-> v, epoch |-> vault[v]]
NoCmd == [at |-> "none"]

Init ==
    /\ vault = [v \in Vault |-> 1]
    /\ copy = [p \in Path |-> NoFile]
    /\ aside = [p \in Path |-> [t \in 1 .. MaxTime |-> NoFile]]
    /\ log = <<>> /\ cmd = [c \in Command |-> NoCmd]
    /\ now = 1 /\ harm = 0
    /\ lost = {} /\ spoiled = {} /\ rewound = {}

----------------------------------------------------------------------------
(* The log.                                                                *)

\* Entry.state == Present: a file of the recorded size is there.
StillPresent(e) == copy[e.path] # NoFile /\ copy[e.path].size = "same"

LiveFor(v) == {i \in DOMAIN log : log[i].vault = v /\ StillPresent(log[i])}

\* backed_up_through; 0 is None.
BackedUpThrough(v) ==
    LET epochs == {0} \cup {log[i].epoch : i \in LiveFor(v)} IN
    CHOOSE e \in epochs : \A f \in epochs : f <= e

\* The entries at the places in S, in their order.
Only(entries, S) ==
    [k \in 1 .. Cardinality(S) |-> entries[CHOOSE i \in S : Cardinality({j \in S : j <= i}) = k]]

\* Of the vault of the newest entry, the first Keep.
Trim(entries) ==
    LET Rank(i) == Cardinality({j \in 1 .. i : entries[j].vault = entries[1].vault}) IN
    Only(entries, {i \in DOMAIN entries : entries[i].vault # entries[1].vault \/ Rank(i) <= Keep})

\* Log.push: the entry of an earlier copy to the path goes, and the new one takes
\* its place in a log that is the newest first, behind those of its moment.
Push(entries, e) ==
    LET rest == {i \in DOMAIN entries : ~(entries[i].vault = e.vault /\ entries[i].path = e.path)}
        newer == {i \in rest : entries[i].at >= e.at}
    IN Trim(Only(entries, newer) \o <<e>> \o Only(entries, rest \ newer))

----------------------------------------------------------------------------
(* cmd_backup.                                                             *)

\* Load the log, then read the vault.
Start(c, v, p) ==
    /\ cmd[c] = NoCmd
    /\ cmd' = [cmd EXCEPT ![c] = [at |-> "read", log |-> log, bytes |-> CopyOf(v), path |-> p]]
    /\ UNCHANGED <<vault, copy, aside, log, now, harm, lost, spoiled, rewound>>

\* What is there is renamed; the name has the second in it, and rename replaces.
MoveAside(c) ==
    LET p == cmd[c].path IN
    /\ cmd[c].at = "read"
    /\ IF copy[p] = NoFile THEN UNCHANGED <<copy, aside, spoiled>>
       ELSE /\ aside' = [aside EXCEPT ![p][now] = copy[p]]
            /\ copy' = [copy EXCEPT ![p] = NoFile]
            /\ spoiled' = spoiled \cup {q \in {p} : aside[p][now] # NoFile}
    /\ cmd' = [cmd EXCEPT ![c].at = "clear"]
    /\ UNCHANGED <<vault, log, now, harm, lost, rewound>>

\* write_owner_only: the rename into place also replaces what came there since.
Write(c) ==
    LET p == cmd[c].path IN
    /\ cmd[c].at = "clear"
    /\ copy' = [copy EXCEPT ![p] = cmd[c].bytes]
    /\ spoiled' = spoiled \cup ({p} \cap lost) \cup {q \in {p} : copy[p] # NoFile}
    /\ cmd' = [cmd EXCEPT ![c].at = "written"]
    /\ UNCHANGED <<vault, aside, log, now, harm, lost, rewound>>

\* Read it back; a copy that is not what was read is an error.
Check(c) ==
    /\ cmd[c].at = "written"
    /\ cmd' = [cmd EXCEPT ![c] = IF copy[@.path] = @.bytes THEN [@ EXCEPT !.at = "checked"]
                                                           ELSE [at |-> "failed"]]
    /\ UNCHANGED <<vault, copy, aside, log, now, harm, lost, spoiled, rewound>>

\* Mutant: the epoch is looked up again when the entry is made.
EntryOfNow(c) == [at |-> now, vault |-> cmd[c].bytes.vault,
                  epoch |-> vault[cmd[c].bytes.vault], path |-> cmd[c].path]

EntryOf(c) == [at |-> now, vault |-> cmd[c].bytes.vault, epoch |-> cmd[c].bytes.epoch,
               path |-> cmd[c].path]

\* Record the copy in the log as it was loaded, and save that.
Record(c) ==
    /\ cmd[c].at = "checked"
    /\ log' = Push(cmd[c].log, EntryOf(c))
    /\ cmd' = [cmd EXCEPT ![c] = [at |-> "done"]]
    /\ UNCHANGED <<vault, copy, aside, now, harm, lost, spoiled, rewound>>

----------------------------------------------------------------------------
(* The vault and the world.                                                *)

\* A passkey is created: add_record gives it the epoch the save will have.
Create(v) ==
    /\ vault[v] < MaxEpoch
    /\ vault' = [vault EXCEPT ![v] = @ + 1]
    /\ UNCHANGED <<copy, aside, log, cmd, now, harm, lost, spoiled, rewound>>

Tick ==
    /\ now < MaxTime /\ now' = now + 1
    /\ UNCHANGED <<vault, copy, aside, log, cmd, harm, lost, spoiled, rewound>>

Harm == harm < MaxHarm /\ harm' = harm + 1

\* A command is stopped.
Stop(c) ==
    /\ Harm /\ cmd[c].at \in {"read", "clear", "written", "checked"}
    /\ cmd' = [cmd EXCEPT ![c] = [at |-> "failed"]]
    /\ UNCHANGED <<vault, copy, aside, log, now, lost, spoiled, rewound>>

StepBack ==
    /\ Harm /\ now > 1 /\ now' = now - 1
    /\ UNCHANGED <<vault, copy, aside, log, cmd, lost, spoiled, rewound>>

\* A copy is deleted, or replaced by something of its size or of another.
Replace(p, by) ==
    /\ Harm /\ copy[p] # NoFile
    /\ copy' = [copy EXCEPT ![p] = by] /\ lost' = lost \cup {p}
    /\ spoiled' = spoiled \cup {q \in {p} : by = Junk("same")}
    /\ UNCHANGED <<vault, aside, log, cmd, now, rewound>>

\* The vault file is put back from a copy.
Restore(p) ==
    /\ Harm /\ copy[p].what = "copy"
    /\ vault' = [vault EXCEPT ![copy[p].vault] = copy[p].epoch]
    /\ rewound' = rewound \cup {copy[p].vault}
    /\ UNCHANGED <<copy, aside, log, cmd, now, lost, spoiled>>

Next ==
    \/ \E c \in Command :
        \/ \E v \in Vault, p \in Path : Start(c, v, p)
        \/ MoveAside(c) \/ Write(c) \/ Check(c) \/ Record(c) \/ Stop(c)
    \/ \E v \in Vault : Create(v)
    \/ \E p \in Path : Restore(p) \/ \E by \in {NoFile, Junk("same"), Junk("other")} : Replace(p, by)
    \/ Tick \/ StepBack

----------------------------------------------------------------------------
Holds(file, v, k) == file.what = "copy" /\ file.vault = v /\ k <= file.epoch

\* A passkey that says it is backed up (base_flags, from backed_up_through) is in
\* a copy, at its path or moved aside from it, however the commands, the saves and
\* the crashes interleave.  The exceptions are the ones nobody can see by size: the
\* copy was replaced by something as long, or deleted before an older one came; two
\* commands met between exists and rename or within one second of the clock; or the
\* vault itself was put back.
BackedUpIsTrue ==
    \A v \in Vault \ rewound : \A k \in 2 .. vault[v] :
        k <= BackedUpThrough(v) =>
            \/ \E p \in Path : \/ Holds(copy[p], v, k)
                               \/ \E t \in 1 .. MaxTime : Holds(aside[p][t], v, k)
            \/ \E i \in LiveFor(v) : log[i].epoch >= k /\ log[i].path \in spoiled

============================================================================
