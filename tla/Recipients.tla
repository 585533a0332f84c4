----------------------------- MODULE Recipients -----------------------------
(***************************************************************************)
(* Who can open a vault file (the Header, Recipient and RecoveryKey of     *)
(* vault.rs, crypto.rs, and the init, rekey and recovery commands of       *)
(* main.rs): one passphrase recipient, any number of recovery recipients,  *)
(* each with the data key sealed for it, and a MAC over all of it.         *)
(*                                                                         *)
(* Cryptography is symbolic: a sealed value names its key, and opens under *)
(* no other; a random value is a number nobody drew before.  The commands  *)
(* hold the vault's lock, so one handle is open at a time; the races of    *)
(* several writers are the subject of VaultStore.                          *)
(***************************************************************************)
EXTENDS Integers, Sequences, FiniteSetsExt, SequencesExt

CONSTANTS
    Passphrase,  \* passphrases a user may choose
    Label,       \* names a user may give a recovery key
    MaxDraw,     \* bound on what is drawn at random, and so on saves
    MaxHarm      \* bound on crashes and on what happens to the file

VARIABLES
    disk,        \* the vault file
    handle,      \* the open vault of a command, or Closed
    keyfiles,    \* the recovery keys that were written out
    drawn,       \* how much was drawn
    harm,        \* how often something went wrong
    saved,       \* history: every file a save wrote, with who was to open it
    who          \* history: the passphrase and the recovery keys in force

vars == <<disk, handle, keyfiles, drawn, harm, saved, who>>

Closed == [open |-> FALSE]

----------------------------------------------------------------------------
(* Sealing.                                                                *)

\* crypto::seal and crypto::open: what is sealed opens under its key alone.
Seal(key, text) == [key |-> key, text |-> text]
Opens(key, sealed) == sealed.key = key

\* derive_kek, and combine_shared of both halves of a recovery key with an
\* encapsulation made for it.
DeriveKek(passphrase, salt) == <<"kek", passphrase, salt>>
CombineShared(id, ephemeral) == <<"hybrid", id, ephemeral>>

PassphraseRecipient(passphrase, salt, dek) ==
    [label |-> "passphrase", kind |-> "passphrase", salt |-> salt,
     sealed |-> Seal(DeriveKek(passphrase, salt), dek)]

WrapHybrid(label, id, ephemeral, dek) ==
    [label |-> label, kind |-> "hybrid", public |-> id, salt |-> ephemeral,
     sealed |-> Seal(CombineShared(id, ephemeral), dek)]

\* Mutant: the payload is not bound to the header.
MacInputHeaderOnly(epoch, recipients, payload) == <<epoch, recipients>>

MacInput(epoch, recipients, payload) == <<epoch, recipients, payload>>

\* The file a save writes: the payload sealed, the header over it.
FileOf(epoch, recipients, dek, records) ==
    LET payload == Seal(dek, records) IN
    [epoch |-> epoch, recipients |-> recipients, payload |-> payload,
     mac |-> <<dek, MacInput(epoch, recipients, payload)>>]

----------------------------------------------------------------------------
(* Unlocking.                                                              *)

Refused == Closed

\* finish_unlock: the header's MAC and the payload under the data key.
FinishUnlock(file, dek, method) ==
    IF /\ file.mac = <<dek, MacInput(file.epoch, file.recipients, file.payload)>>
       /\ Opens(dek, file.payload)
    THEN [open |-> TRUE, epoch |-> file.epoch, recipients |-> file.recipients, dek |-> dek,
          records |-> file.payload.text, method |-> method, owed |-> 0]
    ELSE Refused

\* The first recipient that opens decides.
UnlockAt(file, at, method) ==
    IF at = {} THEN Refused ELSE FinishUnlock(file, file.recipients[Min(at)].sealed.text, method)

\* Vault::unlock.
Unlock(file, passphrase) ==
    UnlockAt(file, {i \in DOMAIN file.recipients :
                      LET r == file.recipients[i] IN
                      r.kind = "passphrase" /\ Opens(DeriveKek(passphrase, r.salt), r.sealed)},
             "passphrase")

\* Vault::unlock_with_recovery; there is one vault, so the key is this vault's.
UnlockWithRecovery(file, key) ==
    UnlockAt(file, {i \in DOMAIN file.recipients :
                      LET r == file.recipients[i] IN
                      /\ r.kind = "hybrid" /\ r.label = key.label
                      /\ Opens(CombineShared(key.id, r.salt), r.sealed)},
             "recovery")

----------------------------------------------------------------------------
Init ==
    \E p \in Passphrase :
        /\ who = [passphrase |-> p, keys |-> {}]
        /\ disk = FileOf(1, <<PassphraseRecipient(p, 1, 1)>>, 1, 1)
        /\ saved = {[file |-> disk, who |-> who]}
        /\ handle = Closed /\ keyfiles = {} /\ drawn = 1 /\ harm = 0

Draw == drawn < MaxDraw /\ drawn' = drawn + 1

\* Vault::save of the handle as changed, by which w are to open it.
Save(recipients, dek, records, w, owed) ==
    LET file == FileOf(handle.epoch + 1, recipients, dek, records) IN
    /\ disk' = file /\ who' = w
    /\ saved' = saved \cup {[file |-> file, who |-> w]}
    /\ handle' = [handle EXCEPT !.epoch = @ + 1, !.recipients = recipients, !.dek = dek,
                                !.records = records, !.owed = owed]

\* A command unlocks the vault; who opens a file that was put back is who could
\* then.
Open(result) ==
    /\ ~handle.open /\ result.open
    /\ handle' = result
    /\ who' = (CHOOSE s \in saved : s.file.epoch = disk.epoch /\ s.file.recipients = disk.recipients).who
    /\ UNCHANGED <<disk, keyfiles, drawn, harm, saved>>

OpenAny == \/ \E p \in Passphrase : Open(Unlock(disk, p))
           \/ \E k \in keyfiles : Open(UnlockWithRecovery(disk, k))

\* Free to work: unlocked by the passphrase, and no key file owed.
Working == handle.open /\ handle.method = "passphrase" /\ handle.owed = 0

Write ==
    /\ Working /\ Draw
    /\ Save(handle.recipients, handle.dek, drawn', who, 0)
    /\ UNCHANGED <<keyfiles, harm>>

\* Mutant: recovery recipients are not wrapped again.
RewrappedStale(r, p, n) ==
    IF r.kind = "passphrase" THEN PassphraseRecipient(p, n, n) ELSE r

\* What rekey makes of a recipient: a new salt, a new encapsulation to the same
\* public key, the new data key.
Rewrapped(r, p, n) ==
    IF r.kind = "passphrase" THEN PassphraseRecipient(p, n, n)
    ELSE WrapHybrid(r.label, r.public, n, n)

\* Vault::rekey: by cmd_rekey, and always after a recovery key opened the vault.
Rekey(p) ==
    /\ handle.open /\ handle.owed = 0 /\ Draw
    /\ Save([i \in DOMAIN handle.recipients |-> Rewrapped(handle.recipients[i], p, drawn')],
            drawn', handle.records, [who EXCEPT !.passphrase = p], 0)
    /\ UNCHANGED <<keyfiles, harm>>

Labels == {handle.recipients[i].label : i \in DOMAIN handle.recipients}

\* add_recovery_recipient: the vault is saved before the key is written anywhere.
AddRecovery(l) ==
    /\ Working /\ l \notin Labels /\ Draw
    /\ Save(Append(handle.recipients, WrapHybrid(l, drawn', drawn', handle.dek)),
            handle.dek, handle.records,
            [who EXCEPT !.keys = @ \cup {[label |-> l, id |-> drawn']}], drawn')
    /\ UNCHANGED <<keyfiles, harm>>

\* ... and the key file, which may fail to be written.
KeyFile(written) ==
    /\ handle.open /\ handle.owed # 0
    /\ keyfiles' = IF written
                   THEN keyfiles \cup {k \in who.keys : k.id = handle.owed} ELSE keyfiles
    /\ written \/ harm < MaxHarm
    /\ harm' = IF written THEN harm ELSE harm + 1
    /\ handle' = Closed
    /\ UNCHANGED <<disk, drawn, saved, who>>

\* remove_recipient keeps the data key; no two recipients have one label, so the
\* first that has it is all that goes.
RemoveRecipient(l) ==
    /\ Working /\ l # "passphrase" /\ l \in Labels /\ Draw
    /\ Save(RemoveFirstMatch(handle.recipients, LAMBDA r : r.label = l), handle.dek, handle.records,
            [who EXCEPT !.keys = {k \in @ : k.label # l}], 0)
    /\ UNCHANGED <<keyfiles, harm>>

\* The command ends, or is killed.
Close ==
    /\ handle.open /\ handle.owed = 0 /\ handle' = Closed
    /\ UNCHANGED <<disk, keyfiles, drawn, harm, saved, who>>

\* An older file is put back, or parts of two files end up in one.
Replace(file) ==
    /\ ~handle.open /\ harm < MaxHarm /\ file # disk
    /\ disk' = file /\ harm' = harm + 1
    /\ UNCHANGED <<handle, keyfiles, drawn, saved, who>>

Mixed(v, w) == {v, [v EXCEPT !.payload = w.payload], [v EXCEPT !.recipients = w.recipients],
                [v EXCEPT !.epoch = w.epoch]}

Next ==
    \/ OpenAny \/ Write \/ Close
    \/ \E p \in Passphrase : Rekey(p)
    \/ \E l \in Label : AddRecovery(l) \/ RemoveRecipient(l)
    \/ \E b \in BOOLEAN : KeyFile(b)
    \/ \E s, t \in saved : \E file \in Mixed(s.file, t.file) : Replace(file)

----------------------------------------------------------------------------
\* Of a file that a save wrote, the passphrase chosen last and the key files of the
\* recipients on its list open it, and nothing else does: not a passphrase or a key
\* from before a re-key or a removal, nor an old key file whose label was used
\* again.  An older file opens for those who could open it then.
HoldersOpen ==
    \A s \in saved :
        /\ {p \in Passphrase : Unlock(s.file, p).open} = {s.who.passphrase}
        /\ {k \in keyfiles : UnlockWithRecovery(s.file, k).open} = keyfiles \cap s.who.keys

\* What a handle works from is one version that one save wrote, whole: no mix of a
\* header with the payload, the recipients or the epoch of another version opens.
OpenedWasSaved ==
    \A h \in {Unlock(disk, p) : p \in Passphrase} \cup {UnlockWithRecovery(disk, k) : k \in keyfiles} :
        h.open => \E s \in saved : /\ s.file.epoch = h.epoch /\ s.file.recipients = h.recipients
                                   /\ s.file.payload = Seal(h.dek, h.records)

============================================================================
