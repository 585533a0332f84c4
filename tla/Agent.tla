------------------------------- MODULE Agent -------------------------------
(***************************************************************************)
(* The session agent (session.rs): one thread that owns the open vault,    *)
(* the approvals, the consent desk and the pending prompts, and serves one *)
(* connection at a time.                                                   *)
(*                                                                         *)
(* Between the loop's checks (expire_if_idle, drain_lock_signals) and the  *)
(* request it dispatches lies a window in which the peer is still writing: *)
(* time passes, the host announces a suspend and the CLI writes the vault  *)
(* there.  A request is one action, taken when its line has been read; the *)
(* collection of a passkey is two, because it takes the answer from the    *)
(* desk before it looks at the session, and a request that writes the      *)
(* vault is two when another process holds the vault's lock: the agent's   *)
(* one thread then waits for it, and nothing bounds the wait.              *)
(*                                                                         *)
(* The vault's contents are the set of items it holds; how they reach the  *)
(* disk is VaultStore's subject.  Requests that only read and reply        *)
(* (Status, List, Detail, Hygiene, BreachPrefixes, BreachMatch, SecretList,*)
(* SshIdentities) do to the agent what Read does.                          *)
(***************************************************************************)
EXTENDS Integers, Sequences, FiniteSets

CONSTANTS
    Process,     \* processes that connect
    Identified,  \* those whose /proc/<pid>/stat can be read (PeerId::of)
    NoName,      \* ... whose program cannot be named
    Name,        \* program name of a process, or NoName
    Login,       \* records with a TOTP secret
    Key,         \* SSH keys, by fingerprint
    Svc,         \* Secret Service items
    Asked,       \* capabilities a request for a secret or a code may name
    Reason,      \* reasons for which the host asks for a lock (LockReason)
    LongHolds,   \* whether another process may keep the vault's lock
    Idle,        \* Agent.idle
    MaxSession,  \* Agent.max_session
    MaxSignals,  \* bound on undelivered host events
    MaxFaults    \* bound on failed writes of status.json

CONSTANTS Nonce, Unknown, Cred, NoCred, TTL, MaxPending, MaxAttempts, MaxNow

VARIABLES
    now,             \* Instant::now and Utc::now
    phase,           \* where the serve loop is
    peer,            \* the process being served
    open,            \* Agent.open.is_some()
    deadline,        \* OpenVault.deadline
    ceiling,         \* OpenVault.ceiling
    granted, lockdown, trusted,   \* Agent.approvals
    desk, proved, taken,          \* Agent.consent
    sshPending,      \* Agent.ssh_pending
    secretPending,   \* Agent.secret_pending
    signals,         \* the lock_signals channel
    lockFile,        \* another process holds the vault's lock file
    records,         \* what the vault file holds
    rekeyed,         \* refresh() would fail: the file no longer opens with the
                     \* held key, or cannot be read at all
    published,       \* the last status.json
    faults,          \* how many writes of it have failed
    paid,            \* history: what the passphrase has been typed for since
                     \* the last lock, and not been withdrawn
    out,             \* history: what the last request handed out, to whom
    held             \* the answered ceremony PasskeyCollect is working on

Items == Login \cup Key \cup Svc \cup Cred

\* The key an approval is remembered under (ClientKey::for_peer): the program's
\* name, or the pid when it has none, which is 0 when the peer could not be
\* identified at all.
PidZero == "pid:0"
SshClient == "ssh-agent"
SecretClient == "secret-service"

KeyOf(p) ==
    IF p \notin Identified THEN PidZero
    ELSE IF Name[p] = NoName THEN p ELSE Name[p]

Owner(p) == IF p \in Identified THEN p ELSE Unknown

Clients == {KeyOf(p) : p \in Process} \cup {SshClient, SecretClient}
Capabilities == Asked \cup {"ssh-sign", "secret-service"}

\* What PasskeyBegin may register: the binding is checked before the desk sees it.
Bindings == {{"hash"}, {"origin", "challenge"}}
Ceremonies == [op : {"create", "assert"}, choices : SUBSET Cred, binding : Bindings]

Desk == INSTANCE Consent WITH Peer <- Identified, Request <- Ceremonies
Approvals == INSTANCE Policy WITH Client <- Clients, Item <- Items,
                                  Capability <- Capabilities

\* What the desk assumes, and that deadlines are times.  A passkey is not asked
\* for by a capability, but through the desk (policy.rs: Capability).
ASSUME AgentAssumption ==
    /\ Desk!ConsentAssumption
    /\ Asked \subseteq {"reveal", "copy", "ssh-sign", "secret-service"}
    /\ LongHolds \in BOOLEAN
    /\ Idle \in Nat /\ MaxSession \in Nat /\ MaxNow \in Nat

sessionVars == <<open, deadline, ceiling>>
policyVars == <<granted, lockdown, trusted>>
deskVars == <<desk, proved, taken>>
promptVars == <<sshPending, secretPending>>
fileVars == <<records, rekeyed>>
statusVars == <<published, faults>>
vars == <<now, phase, peer, sessionVars, policyVars, deskVars, promptVars,
          signals, lockFile, fileVars, statusVars, paid, out, held>>

----------------------------------------------------------------------------
\* Replies.  Only what leaves the agent matters: a secret, a code or a
\* signature.
Nothing == [use |-> "none", who |-> NoName, item |-> NoName,
            capability |-> "none", fresh |-> TRUE]

\* Whether the session was still good when the request was dispatched.
Unexpired == open /\ now < deadline /\ now < ceiling

Serve(use, p, i, k) ==
    out' = [use |-> use, who |-> p, item |-> i, capability |-> k,
            fresh |-> Unexpired]

Quiet == out' = Nothing

\* What a correct passphrase was typed for.
Payment(c, i, k) == [client |-> c, item |-> i, capability |-> k]

NoCeremony == [nonce |-> NoName, op |-> "none", chosen |-> NoName]

\* publish(): status.json becomes the snapshot of the new state, or the write
\* fails and the caller gets the error.
Snapshot ==
    [ unlocked |-> open,
      passkeys |-> IF open THEN Desk!Summaries ELSE {},
      ssh      |-> IF open THEN sshPending ELSE {},
      secret   |-> IF open THEN secretPending ELSE {},
      ok       |-> TRUE ]

PublishOk ==
    /\ published' = Snapshot'
    /\ UNCHANGED faults

PublishFails ==
    /\ faults < MaxFaults
    /\ faults' = faults + 1
    /\ published' = [published EXCEPT !.ok = FALSE]

Publish == PublishOk \/ PublishFails

\* Mutant: a lock that forgets to clear the prompts.
LockKeepsPrompts ==
    /\ open' = FALSE /\ deadline' = 0 /\ ceiling' = 0
    /\ Approvals!ClearApprovals
    /\ Desk!Clear
    /\ UNCHANGED promptVars /\ paid' = {}

\* Mutant: a lock begins the approvals anew, lockdown and all.
LockLiftsLockdown ==
    /\ open' = FALSE /\ deadline' = 0 /\ ceiling' = 0
    /\ granted' = {} /\ trusted' = {} /\ lockdown' = FALSE
    /\ Desk!Clear
    /\ sshPending' = {}
    /\ secretPending' = {}
    /\ paid' = {}

\* lock(): the session ends and everything authorized in it is forgotten.
Lock ==
    /\ open' = FALSE /\ deadline' = 0 /\ ceiling' = 0
    /\ Approvals!ClearApprovals
    /\ Desk!Clear
    /\ sshPending' = {}
    /\ secretPending' = {}
    /\ paid' = {}

\* touch(): the deadline slides, the ceiling does not.
Touch ==
    /\ deadline' = IF open THEN now + Idle ELSE deadline
    /\ UNCHANGED <<open, ceiling>>

\* Mutant: only the idle deadline ends a session.
LapsedByIdleOnly == open /\ now >= deadline

\* expire_if_idle() finds the session over.
Lapsed == open /\ (now >= ceiling \/ now >= deadline)

\* Mutant: opened() trusts the check the loop made.
OpenedUnchecked == open /\ ~rekeyed

\* opened() succeeds: the session is good and the file still opens.
Opened == open /\ ~Lapsed /\ ~rekeyed


\* opened() fails: the vault is locked, or is locked now because the session
\* lapsed or the file was re-keyed; the request ends in an error.
OpenedFails ==
    \/ /\ ~open
       /\ UNCHANGED <<sessionVars, policyVars, deskVars, promptVars, paid, statusVars>>
    \/ /\ open /\ (Lapsed \/ rekeyed)
       /\ Lock
       /\ Publish

Reading(p) == phase = "reading" /\ peer = p

\* open_lock() has returned: no other process holds the vault's lock file.
HasLock(p) == phase \in {"reading", "waiting"} /\ peer = p /\ ~lockFile

\* The reply is written and the connection ends.
Done ==
    /\ phase' = "loop"
    /\ peer' = NoName
    /\ held' = NoCeremony
    /\ UNCHANGED <<now, signals, lockFile>>

----------------------------------------------------------------------------
Init ==
    /\ now = 0
    /\ phase = "loop" /\ peer = NoName
    /\ open = FALSE /\ deadline = 0 /\ ceiling = 0
    /\ Approvals!Init
    /\ Desk!Init
    /\ sshPending = {} /\ secretPending = {}
    /\ signals = <<>> /\ lockFile = FALSE
    /\ records = Login \cup Key \cup Svc
    /\ rekeyed = FALSE
    /\ published = Snapshot
    /\ faults = 0
    /\ paid = {}
    /\ out = Nothing
    /\ held = NoCeremony

\* The host and the CLI, at any time.
Tick ==
    /\ now < MaxNow
    /\ now' = now + 1
    /\ UNCHANGED <<phase, peer, sessionVars, policyVars, deskVars, promptVars,
                   signals, lockFile, fileVars, statusVars, paid, out, held>>

HostEvent(reason) ==
    /\ Len(signals) < MaxSignals
    /\ signals' = Append(signals, reason)
    /\ UNCHANGED <<now, phase, peer, sessionVars, policyVars, deskVars, promptVars,
                   lockFile, fileVars, statusVars, paid, out, held>>

\* Another process re-keys the vault file under the agent, or it becomes
\* unreadable, which opened() takes for the same thing.
CliRekey ==
    /\ open /\ ~rekeyed
    /\ rekeyed' = TRUE
    /\ UNCHANGED <<now, phase, peer, sessionVars, policyVars, deskVars, promptVars,
                   signals, lockFile, records, statusVars, paid, out, held>>

\* Another process adds or removes a record.
CliWrite(i) ==
    /\ records' = IF i \in records THEN records \ {i} ELSE records \cup {i}
    /\ UNCHANGED <<now, phase, peer, sessionVars, policyVars, deskVars, promptVars,
                   signals, lockFile, rekeyed, statusVars, paid, out, held>>

\* Another process takes the vault's lock and keeps it, as cmd_rekey does while its
\* human types (main.rs: cmd_rekey, recipients), and gives it up, or never does.
CliHolds ==
    /\ LongHolds
    /\ lockFile' = ~lockFile
    /\ UNCHANGED <<now, phase, peer, sessionVars, policyVars, deskVars, promptVars,
                   signals, fileVars, statusVars, paid, out, held>>

\* Mutant: the loop drains the channel and does not lock.
LoopPassDrainsOnly ==
    /\ phase = "loop"
    /\ signals' = <<>>
    /\ Quiet
    /\ UNCHANGED <<now, lockFile, fileVars, peer, held>>
    /\ \/ /\ Lapsed
          /\ Lock
          /\ PublishOk /\ phase' = "accept"
       \/ /\ ~Lapsed
          /\ phase' = "accept"
          /\ UNCHANGED <<sessionVars, policyVars, deskVars, promptVars, paid, statusVars>>

\* The serve loop: expire_if_idle, drain_lock_signals.  A status document that
\* cannot be written there ends the process, and the key with it.
LoopPass ==
    /\ phase = "loop"
    /\ signals' = <<>>
    /\ Quiet
    /\ UNCHANGED <<now, lockFile, fileVars, peer, held>>
    /\ \/ /\ open /\ (Lapsed \/ signals # <<>>)
          /\ Lock
          /\ \/ PublishOk /\ phase' = "accept"
             \/ PublishFails /\ phase' = "exited"
       \/ /\ ~open \/ (~Lapsed /\ signals = <<>>)
          /\ phase' = "accept"
          /\ UNCHANGED <<sessionVars, policyVars, deskVars, promptVars, paid, statusVars>>

\* accept(): nobody is there, or a process of this uid is.
Accept ==
    /\ phase = "accept"
    /\ \/ phase' = "loop" /\ UNCHANGED peer
       \/ phase' = "reading" /\ \E p \in Process : peer' = p
    /\ UNCHANGED <<now, sessionVars, policyVars, deskVars, promptVars, signals,
                   lockFile, fileVars, statusVars, paid, out, held>>

\* The peer sent nothing usable within PEER_IO_TIMEOUT, or a request that is
\* refused before it touches anything.
Dropped ==
    /\ phase = "reading"
    /\ Done /\ Quiet
    /\ UNCHANGED <<sessionVars, policyVars, deskVars, promptVars, fileVars,
                   statusVars, paid>>

----------------------------------------------------------------------------
\* Unlock with the right passphrase: a new OpenVault replaces whatever was
\* there.  A wrong one changes nothing (Dropped).
Unlock(p) ==
    /\ Reading(p)
    /\ Done /\ Quiet
    /\ open' = TRUE /\ deadline' = now + Idle /\ ceiling' = now + MaxSession
    /\ rekeyed' = FALSE
    /\ UNCHANGED <<policyVars, deskVars, promptVars, records, paid>>
    /\ Publish

LockRequest(p) ==
    /\ Reading(p)
    /\ Done /\ Quiet
    /\ Lock
    /\ UNCHANGED fileVars
    /\ Publish

\* Touch does not look at the deadline it moves.
TouchRequest(p) ==
    /\ Reading(p)
    /\ Done /\ Quiet
    /\ Touch
    /\ UNCHANGED <<policyVars, deskVars, promptVars, fileVars, statusVars, paid>>

\* Any request that goes through opened() when that fails.
NotOpen(p) ==
    /\ Reading(p) \/ HasLock(p)
    /\ Done /\ Quiet
    /\ UNCHANGED fileVars
    /\ OpenedFails

\* A request that opened() admits and that then only reads, or fails: the list
\* and report requests, a missing record, a save that is refused.
Read(p) ==
    /\ Reading(p) \/ HasLock(p)
    /\ Opened
    /\ Done /\ Quiet
    /\ Touch
    /\ UNCHANGED <<policyVars, deskVars, promptVars, fileVars, statusVars, paid>>

\* A request that writes the vault asks for the vault's lock before anything else,
\* and waits while another process has it (vault.rs: open_lock).  Which one it is
\* shows only when it goes on.
WaitForLock(p) ==
    /\ Reading(p) /\ lockFile
    /\ phase' = "waiting"
    /\ UNCHANGED <<now, peer, sessionVars, policyVars, deskVars, promptVars, signals,
                   lockFile, fileVars, statusVars, paid, out, held>>

\* A request that changes the vault's contents and saves them, as far as the
\* session is concerned.
Change(p, after) ==
    /\ HasLock(p) /\ Opened
    /\ Done /\ Quiet
    /\ Touch
    /\ records' = after
    /\ UNCHANGED <<rekeyed, policyVars, deskVars, promptVars, paid>>
    /\ Publish

\* Add, AddMany and Update: an update leaves the set of items as it is.
Add(p, i) == Change(p, records \cup {i})

\* Delete takes any record: approvals, prompts and ceremonies that name it stay.
Delete(p, i) == i \in records /\ Change(p, records \ {i})

\* A key pair is new, so its fingerprint is.
SshGenerate(p, f) == f \notin records /\ Change(p, records \cup {f})

\* SecretPut makes an item, or replaces the contents of one it knows.
SecretPut(p, i) == Change(p, records \cup {i})
SecretDelete(p, i) == i \in records /\ Change(p, records \ {i})

----------------------------------------------------------------------------
\* A yes with the passphrase: remembered for this client, item and capability.
Approve(c, i, k) ==
    /\ Approvals!Grant(c, i, k)
    /\ paid' = paid \cup {Payment(c, i, k)}

\* What was allowed is handed out, if the record is there and has such a field.
Answer(use, p, i, k) ==
    \/ i \in records /\ Serve(use, p, i, k)
    \/ Quiet

\* Reveal: opened() first, and no key of a passkey, then the verdict.
Reveal(p, i, k, proof) ==
    LET verdict == Approvals!Consider(KeyOf(p), i, k) IN
    /\ Reading(p) /\ Opened /\ i \notin records \cap Cred
    /\ Done
    /\ Touch
    /\ \/ /\ verdict = "remembered"
          /\ Answer("secret", p, i, k)
          /\ UNCHANGED <<policyVars, paid>>
       \/ /\ verdict = "must-ask" /\ proof = "right"
          /\ Approve(KeyOf(p), i, k)
          /\ Answer("secret", p, i, k)
       \/ /\ verdict = "blocked" \/ (verdict = "must-ask" /\ proof # "right")
          /\ Quiet
          /\ UNCHANGED <<policyVars, paid>>
    /\ UNCHANGED <<deskVars, promptVars, fileVars, statusVars>>

\* Mutant: a code does not ask about the lockdown.
TotpCodeInLockdown(p, i, k, proof) ==
    /\ Reading(p) /\ Opened
    /\ Done
    /\ Touch
    /\ \/ /\ [client |-> KeyOf(p), item |-> i, capability |-> k] \in granted
          /\ Serve("totp", p, i, k)
          /\ UNCHANGED <<policyVars, paid>>
       \/ /\ [client |-> KeyOf(p), item |-> i, capability |-> k] \notin granted
          /\ proof = "right"
          /\ Approve(KeyOf(p), i, k)
          /\ Serve("totp", p, i, k)
    /\ UNCHANGED <<deskVars, promptVars, fileVars, statusVars>>

\* Only a login has a code.
Code(p, i, k) ==
    IF i \in Login THEN Answer("totp", p, i, k) ELSE Quiet

\* TotpCode: the verdict first, then opened().
TotpCode(p, i, k, proof) ==
    LET verdict == Approvals!Consider(KeyOf(p), i, k) IN
    /\ Reading(p)
    /\ Done
    /\ \/ /\ verdict = "remembered" /\ Opened
          /\ Touch
          /\ Code(p, i, k)
          /\ UNCHANGED <<policyVars, paid>>
       \/ /\ verdict = "must-ask" /\ Opened
          /\ Touch
          /\ IF proof = "right"
             THEN /\ Approve(KeyOf(p), i, k)
                  /\ Code(p, i, k)
             ELSE Quiet /\ UNCHANGED <<policyVars, paid>>
       \/ /\ verdict = "blocked"
          /\ Quiet
          /\ UNCHANGED <<sessionVars, policyVars, paid>>
    /\ UNCHANGED <<deskVars, promptVars, fileVars, statusVars>>

\* What stays paid for when an approval is withdrawn: a ceremony's proof is not
\* an approval, whatever the program is called.
Kept(c) == {x \in paid : x.client # c \/ x.capability = "passkey"}
KeptBut(c, i) == Kept(c) \cup {x \in paid : x.item # i}

\* Mutant: withdrawing one item leaves its approvals in force.
WithdrawForgetsItem(p, c, i) ==
    /\ Reading(p)
    /\ Done /\ Quiet
    /\ UNCHANGED policyVars
    /\ paid' = KeptBut(c, i)
    /\ UNCHANGED <<sessionVars, deskVars, promptVars, fileVars>>
    /\ Publish

\* Revoke and Lockdown are served whether or not the vault is open.
Withdraw(p, c, i) ==
    /\ Reading(p)
    /\ Done /\ Quiet
    /\ \/ /\ Approvals!Revoke(c, i)
          /\ paid' = KeptBut(c, i)
       \/ /\ Approvals!RevokeClient(c)
          /\ paid' = Kept(c)
    /\ UNCHANGED <<sessionVars, deskVars, promptVars, fileVars>>
    /\ Publish

Lockdown(p, on) ==
    /\ Reading(p)
    /\ Done /\ Quiet
    /\ Approvals!SetLockdown(on)
    /\ UNCHANGED <<sessionVars, deskVars, promptVars, fileVars, paid>>
    /\ Publish

----------------------------------------------------------------------------
\* SshSign: one client identity for every caller; a first use is put on screen,
\* and published only when it is new.
SshSign(p, f) ==
    LET verdict == Approvals!Consider(SshClient, f, "ssh-sign") IN
    /\ Reading(p) /\ Opened /\ f \in records
    /\ Done
    /\ Touch
    /\ UNCHANGED <<policyVars, deskVars, secretPending, fileVars, paid>>
    /\ \/ /\ verdict = "remembered"
          /\ Serve("signature", p, f, "ssh-sign")
          /\ UNCHANGED <<sshPending, statusVars>>
       \/ /\ verdict = "blocked"
          /\ Quiet
          /\ UNCHANGED <<sshPending, statusVars>>
       \/ /\ verdict = "must-ask"
          /\ Quiet
          /\ sshPending' = sshPending \cup {f}
          /\ IF f \in sshPending THEN UNCHANGED statusVars ELSE Publish

\* SshApprove with the right passphrase (a wrong one is Read).
SshApprove(p, f) ==
    /\ Reading(p) /\ Opened /\ f \in records
    /\ Done /\ Quiet
    /\ Touch
    /\ Approve(SshClient, f, "ssh-sign")
    /\ sshPending' = sshPending \ {f}
    /\ UNCHANGED <<deskVars, secretPending, fileVars>>
    /\ Publish

SshDismiss(p, f) ==
    /\ Reading(p)
    /\ Done /\ Quiet
    /\ sshPending' = sshPending \ {f}
    /\ UNCHANGED <<sessionVars, policyVars, deskVars, secretPending, fileVars, paid>>
    /\ Publish

\* SecretGet: like Reveal under the Secret Service's one identity; a
\* passphrase sent along does not take the item off the list of prompts.
SecretGet(p, i, proof) ==
    LET verdict == Approvals!Consider(SecretClient, i, "secret-service") IN
    /\ Reading(p) /\ Opened /\ i \in records
    /\ Done
    /\ Touch
    /\ UNCHANGED <<deskVars, sshPending, fileVars>>
    /\ \/ /\ verdict = "remembered"
          /\ Serve("item", p, i, "secret-service")
          /\ UNCHANGED <<policyVars, secretPending, paid, statusVars>>
       \/ /\ verdict = "must-ask" /\ proof = "right"
          /\ Approve(SecretClient, i, "secret-service")
          /\ Serve("item", p, i, "secret-service")
          /\ UNCHANGED <<secretPending, statusVars>>
       \/ /\ verdict = "must-ask" /\ proof = "none"
          /\ Quiet
          /\ secretPending' = secretPending \cup {i}
          /\ UNCHANGED <<policyVars, paid>>
          /\ Publish
       \/ /\ verdict = "blocked" \/ (verdict = "must-ask" /\ proof = "wrong")
          /\ Quiet
          /\ UNCHANGED <<policyVars, secretPending, paid, statusVars>>

SecretApprove(p, i) ==
    /\ Reading(p) /\ Opened /\ i \in records
    /\ Done /\ Quiet
    /\ Touch
    /\ Approve(SecretClient, i, "secret-service")
    /\ secretPending' = secretPending \ {i}
    /\ UNCHANGED <<deskVars, sshPending, fileVars>>
    /\ Publish

SecretDismiss(p, i) ==
    /\ Reading(p)
    /\ Done /\ Quiet
    /\ secretPending' = secretPending \ {i}
    /\ UNCHANGED <<sessionVars, policyVars, deskVars, sshPending, fileVars, paid>>
    /\ Publish

----------------------------------------------------------------------------
\* Mutant: a new ceremony is not put on screen.
PasskeyBeginUnseen(p, n, op, allow, binding) ==
    LET have == records \cap Cred
        r == [ op |-> op, binding |-> binding,
               choices |-> IF op = "create" THEN {}
                           ELSE IF allow = {} THEN have ELSE allow \cap have ] IN
    /\ Reading(p) /\ Opened
    /\ Done /\ Quiet
    /\ Touch
    /\ Desk!Register(n, Owner(p), r) \/ Desk!RegisterFails(n, r)
    /\ UNCHANGED <<policyVars, promptVars, fileVars, paid, statusVars>>

\* PasskeyBegin: what may be signed is fixed here.  `allow' is the relying
\* party's list of credentials, empty for any.
PasskeyBegin(p, n, op, allow, binding) ==
    LET have == records \cap Cred
        r == [ op |-> op, binding |-> binding,
               choices |-> IF op = "create" THEN {}
                           ELSE IF allow = {} THEN have ELSE allow \cap have ] IN
    /\ Reading(p) /\ Opened
    /\ Done /\ Quiet
    /\ Touch
    /\ UNCHANGED <<policyVars, promptVars, fileVars>>
    /\ \/ /\ Desk!Register(n, Owner(p), r)
          /\ paid' = paid \ {Payment("consent", n, "passkey")}
          /\ Publish
       \/ Desk!RegisterFails(n, r) /\ UNCHANGED <<paid, statusVars>>

\* PasskeyAnswer without approval: neither opens the vault.
PasskeyDecline(p, n) ==
    /\ Reading(p)
    /\ Done /\ Quiet
    /\ UNCHANGED <<sessionVars, policyVars, promptVars, fileVars, paid>>
    /\ \/ (Desk!Refuse(n) \/ Desk!Defer(n)) /\ Publish
       \/ Desk!SetStateFails(n) /\ UNCHANGED statusVars

\* PasskeyAnswer with the right passphrase, naming a credential or none.
PasskeyApprove(p, n, named) ==
    /\ Reading(p) /\ Opened
    /\ Done /\ Quiet
    /\ Touch
    /\ UNCHANGED <<policyVars, promptVars, fileVars>>
    /\ \/ /\ Desk!ApproveProved(n, named)
          /\ paid' = paid \cup {Payment("consent", n, "passkey")}
          /\ Publish
       \/ Desk!ApproveFails(n, named, TRUE) /\ UNCHANGED <<paid, statusVars>>

\* ... with a wrong one, which is checked against the open vault, or an empty
\* one, which is not: the error returns before anything is published.
PasskeyGuess(p, n) ==
    /\ Reading(p)
    /\ \/ Opened /\ Touch
       \/ UNCHANGED sessionVars
    /\ Done /\ Quiet
    /\ Desk!ApproveGuess(n) \/ Desk!ApproveFails(n, NoCred, FALSE)
    /\ UNCHANGED <<policyVars, promptVars, fileVars, paid, statusVars>>

\* Mutant: the answer is put back when status.json cannot be written.
PasskeyCollectPutsBack(p, n) ==
    /\ Reading(p)
    /\ Quiet
    /\ Desk!Collectable(desk[n], Owner(p))
    /\ desk' = [desk EXCEPT ![n].state = "awaiting"]
    /\ Done
    /\ UNCHANGED <<proved, taken>>
    /\ UNCHANGED <<sessionVars, policyVars, promptVars, fileVars, paid>>
    /\ PublishFails

\* PasskeyCollect takes the answer off the desk before anything else.
PasskeyCollect(p, n) ==
    LET answer == Desk!Expire[n] IN
    /\ Reading(p)
    /\ Quiet
    /\ UNCHANGED <<sessionVars, policyVars, promptVars, fileVars, paid>>
    /\ \/ /\ Desk!TakeFails(n, Owner(p))
          /\ Done
          /\ UNCHANGED statusVars
       \/ /\ Desk!TakeAnswered(n, Owner(p))
          /\ UNCHANGED <<now, signals, lockFile>>
          /\ \/ /\ PublishOk
                /\ answer.state = "approved"
                /\ phase' = "signing"
                /\ held' = [nonce |-> n, op |-> answer.op, chosen |-> answer.chosen]
                /\ UNCHANGED peer
             \/ PublishOk /\ answer.state # "approved" /\ Done
             \/ PublishFails /\ Done

\* ... and then looks at the session, and signs: with the credential approved,
\* if the vault still holds it, or with a new one it saves first.  The answer is
\* spent whatever happens here.
Sign ==
    /\ phase = "signing"
    /\ Done
    /\ \/ /\ OpenedFails
          /\ Quiet
          /\ UNCHANGED fileVars
       \/ /\ Opened
          /\ Touch
          /\ UNCHANGED <<rekeyed, policyVars, deskVars, promptVars, paid>>
          /\ \/ /\ held.op = "assert" /\ held.chosen \in records
                /\ Serve("assertion", peer, held.nonce, "passkey")
                /\ UNCHANGED <<records, statusVars>>
             \/ /\ held.op = "assert" => held.chosen \notin records
                /\ Quiet
                /\ UNCHANGED <<records, statusVars>>
             \/ /\ held.op = "create"
                /\ \E c \in Cred \ records : records' = records \cup {c}
                /\ \/ PublishOk /\ Serve("creation", peer, held.nonce, "passkey")
                   \/ PublishFails /\ Quiet

----------------------------------------------------------------------------
\* Shutdown locks, replies, and the loop ends with a last publish.
Shutdown(p) ==
    /\ Reading(p)
    /\ phase' = "exited" /\ peer' = NoName /\ held' = NoCeremony
    /\ Quiet
    /\ Lock
    /\ UNCHANGED <<now, signals, lockFile, fileVars>>
    /\ Publish

\* A new agent process, which remembers nothing.
Restart ==
    /\ phase = "exited"
    /\ phase' = "loop"
    /\ signals' = <<>>
    /\ Quiet
    /\ open' = FALSE /\ deadline' = 0 /\ ceiling' = 0
    /\ granted' = {} /\ trusted' = {} /\ lockdown' = FALSE
    /\ Desk!Clear
    /\ sshPending' = {} /\ secretPending' = {}
    /\ paid' = {}
    /\ rekeyed' = FALSE
    /\ UNCHANGED <<now, peer, lockFile, records, held>>
    /\ PublishOk

\* The passphrase a request carries: none, the right one, or anything else.
Proof == {"none", "right", "wrong"}

Dispatch(p) ==
    \/ Unlock(p) \/ LockRequest(p) \/ TouchRequest(p) \/ NotOpen(p) \/ Read(p)
    \/ Shutdown(p) \/ WaitForLock(p)
    \/ \E i \in Login : Add(p, i)
    \/ \E i \in Items : Delete(p, i)
    \/ \E f \in Key : SshGenerate(p, f)
    \/ \E i \in Svc : SecretPut(p, i) \/ SecretDelete(p, i)
    \/ \E i \in Items, k \in Asked, proof \in Proof :
         Reveal(p, i, k, proof) \/ TotpCode(p, i, k, proof)
    \/ \E c \in Clients, i \in Items : Withdraw(p, c, i)
    \/ \E on \in BOOLEAN : Lockdown(p, on)
    \/ \E f \in Key : SshSign(p, f) \/ SshApprove(p, f) \/ SshDismiss(p, f)
    \/ \E i \in Svc : SecretApprove(p, i) \/ SecretDismiss(p, i)
    \/ \E i \in Svc, proof \in Proof : SecretGet(p, i, proof)
    \/ \E n \in Nonce :
         \/ \E op \in {"create", "assert"}, allow \in SUBSET Cred, b \in Bindings :
              PasskeyBegin(p, n, op, allow, b)
         \/ PasskeyDecline(p, n) \/ PasskeyGuess(p, n) \/ PasskeyCollect(p, n)
         \/ \E named \in Cred \cup {NoCred} : PasskeyApprove(p, n, named)

Environment ==
    \/ Tick
    \/ \E reason \in Reason : HostEvent(reason)
    \/ CliRekey \/ CliHolds
    \/ \E i \in Items : CliWrite(i)

Next ==
    \/ Environment
    \/ LoopPass \/ Accept \/ Dropped \/ Sign \/ Restart
    \/ \E p \in Process : Dispatch(p)

Spec == Init /\ [][Next]_vars

\* A request that waited for the vault's lock goes on.
Resume == phase = "waiting" /\ \E p \in Process : Dispatch(p)

\* The serve loop never stops by itself: a pass, an accept that returns, a
\* connection that ends within its timeout, a request that completes, at least
\* when the lock it waits for stays free.  Nothing is assumed of who holds that.
FairSpec ==
    /\ Spec
    /\ WF_vars(LoopPass) /\ WF_vars(Accept) /\ WF_vars(Dropped) /\ WF_vars(Sign)
    /\ WF_vars(Resume)

----------------------------------------------------------------------------
\* Every variable has its type; the fixed daemon identities own the approvals of
\* their capability.
TypeOK ==
    /\ now \in 0 .. MaxNow
    /\ phase \in {"loop", "accept", "reading", "waiting", "signing", "exited"}
    /\ peer \in Process \cup {NoName}
    /\ open \in BOOLEAN /\ deadline \in Nat /\ ceiling \in Nat
    /\ Approvals!TypeOK
    /\ sshPending \subseteq Key /\ secretPending \subseteq Svc
    /\ records \subseteq Items /\ rekeyed \in BOOLEAN
    /\ faults \in 0 .. MaxFaults
    /\ phase = "signing" <=> held # NoCeremony

\* A locked vault holds nothing that was authorized or asked while it was open:
\* no approval, no ceremony, no prompt, whichever of idle, ceiling, suspend,
\* re-key, Lock and Shutdown closed it, and whatever requests were served since
\* (session.rs: lock, "a locked vault holds no pending anything").
LockedHoldsNothing ==
    ~open =>
        /\ granted = {} /\ trusted = {}
        /\ \A n \in Nonce : desk[n].state = "free"
        /\ sshPending = {} /\ secretPending = {}

\* The client an approval for this use is remembered under.
ClientFor(o) ==
    CASE o.use = "signature" -> SshClient
      [] o.use = "item" -> SecretClient
      [] o.use \in {"assertion", "creation"} -> "consent"
      [] OTHER -> KeyOf(o.who)

\* Everything handed out was paid for with the passphrase, for that client, item
\* and capability, since the vault last locked and not withdrawn since; a passkey
\* signature for exactly the ceremony that was collected.  The verdict is taken
\* before the session is looked at (TotpCode), the answer before the session is
\* (PasskeyCollect), and neither order lets an approval outlive a lock
\* (policy.rs: "A grant that outlived the session it was given under would
\* quietly widen every lock into a pause").
ServedIsPaid ==
    out.use # "none" =>
        \E x \in paid : /\ x.client = ClientFor(out) /\ x.item = out.item
                       /\ x.capability = out.capability

\* No secret, code or signature leaves a session whose idle deadline or ceiling
\* had passed when the request was dispatched, even though the loop's own check
\* ran before the peer finished writing (session.rs: opened, expire_if_idle).
ServedInSession == out.use # "none" => out.fresh

\* The two together: what is handed out was paid for, in this session.
ServedRightly == ServedIsPaid /\ ServedInSession

\* status.json, unless its last write failed, tells the deck the lock state, the
\* SSH and Secret Service prompts, and every ceremony that waits for it
\* (session.rs: publish).
StatusTellsTruth ==
    published.ok /\ phase # "exited" =>
        /\ published.unlocked = open
        /\ open => /\ published.ssh = sshPending
                   /\ published.secret = secretPending
                   /\ Desk!Summaries \subseteq published.passkeys

\* In lockdown no approval is served, whoever gave it to whom: neither one of
\* before, nor one given meanwhile in the deck, nor a question answered on the
\* spot.  The one thing that leaves the agent is the signature of a ceremony that
\* was approved for itself, because PasskeyCollect asks the desk and not the
\* approvals.  The exception the field's comment names ("except to clients on the
\* always-allowed list", policy.rs) is none: no request gives that trust, and
\* set_lockdown takes it away.
LockdownServesNoApproval ==
    out.use \notin {"none", "assertion", "creation"} => ~lockdown

\* The agent drives the desk only through its calls: every step is a call of the
\* desk, the passing of time, or leaves the desk alone, so what is proved of the
\* desk holds of the desk inside the agent.
DeskRefined == Desk!Spec

\* The agent changes its approvals only through the calls of policy.rs, one at a time,
\* so no lock, expiry, lost status.json or restart gives, keeps or lifts more than the
\* call it makes: a lock ends no lockdown, and a new process, which does, comes to
\* approvals that its predecessor's last lock had emptied (session.rs: lock;
\* policy.rs: clear leaves the switch alone).
ApprovalsRefined == Approvals!Spec

\* The thread waits for ever for a lock that another process does not give up for
\* long enough to be taken.
Wedged == <>[](phase = "waiting")

\* A suspend or screen lock the watcher delivered closes the vault, whatever the
\* peers do, unless the thread is wedged behind the vault's lock (session.rs:
\* drain_lock_signals).
SignalLocks == Wedged \/ (signals # <<>> /\ open ~> ~open)

\* No session outlives its ceiling: it ends, or the passphrase starts another,
\* under the same reserve (session.rs: OpenVault.ceiling, "Activity does not move
\* it").
CeilingEnds ==
    Wedged \/ \A c \in 1 .. MaxNow :
                  (open /\ ceiling = c /\ now >= c) ~> ~(open /\ ceiling = c)

\* What read_request_line is written for, that no wait of the thread keeps the key
\* in memory across a suspend, without the reserve (session.rs: "exactly the case
\* locking on suspend exists to prevent").
SuspendLocks == signals # <<>> /\ open ~> ~open

============================================================================
