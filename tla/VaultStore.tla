----------------------------- MODULE VaultStore -----------------------------
(***************************************************************************)
(* The vault file and the processes that hold it (vault.rs): the session   *)
(* agent, which keeps one handle for hours, and CLI commands, which open,  *)
(* change, save and exit.                                                  *)
(*                                                                         *)
(* A handle is a copy of the file plus a stamp (length, mtime, inode) of   *)
(* the file as it was last seen; a save refuses when the stamp no longer   *)
(* matches.  Every write is a rename, so a version is known by its inode,  *)
(* which is never reused here.  Reading, stamping, checking, renaming and  *)
(* recording the witness are separate steps, because nothing but the       *)
(* advisory lock keeps other processes out between them.                   *)
(***************************************************************************)
EXTENDS Integers, FiniteSets

CONSTANTS
    Agent,       \* the session agent
    Cli,         \* CLI processes
    Nobody,
    Record,
    AgentJobs,   \* what the agent is asked to do
    CliJobs,     \* what the CLI is asked to do
    AgentFails,  \* whether a request of the agent may fail half way
    OtherVault,  \* whether a second vault shares the witness file
    MaxSaves     \* bound: no write is begun once the file has been written this
                 \* often, and none fails at a later epoch

Process == Cli \cup {Agent}
JobKind == {"unlock", "read", "add", "remove", "create", "rekey"}

ASSUME StoreAssumption ==
    /\ Agent \notin Cli /\ Nobody \notin Process
    /\ AgentJobs \subseteq JobKind /\ CliJobs \subseteq {"add", "remove", "rekey"}
    /\ AgentFails \in BOOLEAN /\ OtherVault \in BOOLEAN
    /\ MaxSaves \in Nat

VARIABLES
    disk,     \* the vault file: inode, epoch, data key and records
    lock,     \* who holds the advisory lock
    pc,       \* what each process does next
    job,      \* what for: a kind and a record
    mem,      \* each process's Vault: epoch, key, records, and stamp `seen'
    open,     \* whether it holds one
    buf,      \* the file as read, until the handle is built
    witness,  \* witness.json: the epoch it remembers for this vault
    wbuf,     \* witness.json as read, until it is written back
    truth,    \* history: what the completed writes should have left on disk
    lapses    \* history: what went wrong so far

procVars == <<pc, job, open>>
histVars == <<truth, lapses>>
vars == <<disk, lock, procVars, mem, buf, witness, wbuf, histVars>>

Version == [ino : Nat, epoch : Nat, dek : Nat, records : SUBSET Record]
First == [ino |-> 0, epoch |-> 1, dek |-> 0, records |-> {}]
NoJob == <<"none", Nobody>>
NoVault == [epoch |-> 0, dek |-> 0, records |-> {}, seen |-> 0]

\* Handlers that take the lock first, and CLI commands that then ask a human.
Locks(kind) == kind \in {"add", "remove", "rekey"}
Prompts(p, kind) == p \in Cli /\ kind \in {"remove", "rekey"}

----------------------------------------------------------------------------
Init ==
    /\ disk = First /\ lock = Nobody
    /\ pc = [p \in Process |-> "idle"]
    /\ job = [p \in Process |-> NoJob]
    /\ mem = [p \in Process |-> NoVault] /\ open = [p \in Process |-> FALSE]
    /\ buf = [p \in Process |-> First]
    /\ witness = 1 /\ wbuf = [p \in Process \cup {Nobody} |-> 0]
    /\ truth = {} /\ lapses = {}

Goto(p, step) == pc' = [pc EXCEPT ![p] = step]

\* The job is over, leaving the handle v: the guard is dropped, and a process
\* that is not the agent with its session exits.
Finish(p, v) ==
    LET stays == p = Agent /\ open[p] IN
    /\ Goto(p, "idle")
    /\ lock' = IF lock = p THEN Nobody ELSE lock
    /\ open' = [open EXCEPT ![p] = stays]
    /\ mem' = [mem EXCEPT ![p] = IF stays THEN v ELSE NoVault]
    /\ job' = [job EXCEPT ![p] = NoJob]

\* The handle is gone: an agent that locked, or a process that died.
Drop(p) ==
    /\ Goto(p, "idle")
    /\ lock' = IF lock = p THEN Nobody ELSE lock
    /\ open' = [open EXCEPT ![p] = FALSE]
    /\ mem' = [mem EXCEPT ![p] = NoVault]
    /\ job' = [job EXCEPT ![p] = NoJob]
    /\ buf' = [buf EXCEPT ![p] = First]

\* A request arrives, or a command starts.  Everything but an unlock goes
\* through opened() and so refreshes first; a CLI command unlocks by itself.
Start(p, kind, r) ==
    /\ pc[p] = "idle"
    /\ kind \in IF p = Agent THEN AgentJobs ELSE CliJobs
    /\ p = Agent => open[p] = (kind # "unlock")
    /\ disk.ino < MaxSaves \/ kind \in {"unlock", "read"}
    /\ job' = [job EXCEPT ![p] = <<kind, r>>]
    /\ Goto(p, IF Locks(kind) THEN "lock" ELSE IF kind = "unlock" THEN "read" ELSE "stat")
    /\ UNCHANGED <<disk, lock, open, mem, buf, witness, wbuf, histVars>>

\* open_lock: flock blocks until the lock is free.
Acquire(p) ==
    /\ pc[p] = "lock" /\ lock = Nobody
    /\ lock' = p
    /\ Goto(p, IF Prompts(p, job[p][1]) THEN "prompt" ELSE IF p = Agent THEN "stat" ELSE "read")
    /\ UNCHANGED <<disk, job, open, mem, buf, witness, wbuf, histVars>>

\* The human types the passphrase at the terminal.
Answer(p) ==
    /\ pc[p] = "prompt"
    /\ Goto(p, "read")
    /\ UNCHANGED <<disk, lock, job, open, mem, buf, witness, wbuf, histVars>>

\* refresh: nothing to do when the stamp still matches.
Stat(p) ==
    /\ pc[p] = "stat"
    /\ \/ /\ disk.ino # mem[p].seen
          /\ Goto(p, "read")
          /\ UNCHANGED <<lock, job, open, mem>>
       \/ /\ disk.ino = mem[p].seen /\ job[p][1] # "read"
          /\ Goto(p, "modify")
          /\ UNCHANGED <<lock, job, open, mem>>
       \/ disk.ino = mem[p].seen /\ job[p][1] = "read" /\ Finish(p, mem[p])
    /\ UNCHANGED <<disk, buf, witness, wbuf, histVars>>

\* Mutant: a refresh that does not authenticate the header.
ReadFileUnchecked(p) ==
    /\ pc[p] = "read"
    /\ buf' = [buf EXCEPT ![p] = disk]
    /\ Goto(p, "stamp")
    /\ UNCHANGED <<disk, lock, job, open, mem, witness, wbuf, histVars>>

\* read_vault_file.  A refresh that cannot authenticate the header with the key
\* it holds locks the agent.
ReadFile(p) ==
    /\ pc[p] = "read"
    /\ \/ open[p] /\ disk.dek # mem[p].dek /\ Drop(p)
       \/ /\ open[p] => disk.dek = mem[p].dek
          /\ buf' = [buf EXCEPT ![p] = disk]
          /\ Goto(p, "stamp")
          /\ UNCHANGED <<lock, job, open, mem>>
    /\ UNCHANGED <<disk, witness, wbuf, histVars>>

\* Mutant: a refresh that takes over the header and forgets the payload.
StampKeepsPayload(p) ==
    LET kind == job[p][1] IN
    /\ pc[p] = "stamp"
    /\ mem' = [mem EXCEPT ![p] = [ epoch |-> buf[p].epoch,
                                   records |-> IF open[p] THEN mem[p].records ELSE buf[p].records,
                                   dek |-> IF open[p] THEN mem[p].dek ELSE buf[p].dek,
                                   seen |-> disk.ino ]]
    /\ open' = [open EXCEPT ![p] = TRUE]
    /\ buf' = [buf EXCEPT ![p] = First]
    /\ IF kind \in {"unlock", "read"}
       THEN Goto(p, "idle") /\ job' = [job EXCEPT ![p] = NoJob]
       ELSE Goto(p, "modify") /\ UNCHANGED job
    /\ lapses' = lapses \cup (IF buf[p].ino # disk.ino THEN {"blind"} ELSE {})
    /\ UNCHANGED <<disk, lock, witness, wbuf, truth>>

\* The handle is what was read; its stamp is taken of what is there now.
Stamp(p) ==
    LET kind == job[p][1] IN
    /\ pc[p] = "stamp"
    /\ mem' = [mem EXCEPT ![p] = [ epoch |-> buf[p].epoch, records |-> buf[p].records,
                                   dek |-> IF open[p] THEN mem[p].dek ELSE buf[p].dek,
                                   seen |-> disk.ino ]]
    /\ open' = [open EXCEPT ![p] = TRUE]
    /\ buf' = [buf EXCEPT ![p] = First]
    /\ IF kind \in {"unlock", "read"}
       THEN Goto(p, "idle") /\ job' = [job EXCEPT ![p] = NoJob]
       ELSE Goto(p, "modify") /\ UNCHANGED job
    /\ lapses' = lapses \cup (IF buf[p].ino # disk.ino THEN {"blind"} ELSE {})
    /\ UNCHANGED <<disk, lock, witness, wbuf, truth>>

\* The change itself, in memory.  A new data key is numbered by the version it
\* is made for.
Modify(p) ==
    LET kind == job[p][1] r == job[p][2] IN
    /\ pc[p] = "modify"
    /\ \/ /\ kind \in {"add", "create"}
          /\ mem' = [mem EXCEPT ![p].records = @ \cup {r}]
          /\ Goto(p, "check")
          /\ UNCHANGED <<lock, job, open>>
       \/ /\ kind = "remove" /\ r \in mem[p].records
          /\ mem' = [mem EXCEPT ![p].records = @ \ {r}]
          /\ Goto(p, "check")
          /\ UNCHANGED <<lock, job, open>>
       \/ /\ kind = "remove" /\ r \notin mem[p].records
          /\ Finish(p, mem[p])
       \/ /\ kind = "rekey"
          /\ mem' = [mem EXCEPT ![p].dek = disk.ino + 1]
          /\ Goto(p, "check")
          /\ UNCHANGED <<lock, job, open>>
    /\ UNCHANGED <<disk, buf, witness, wbuf, histVars>>

\* A request that fails after it changed the payload: an update that does not
\* validate, an import that overflows the vault.
ModifyFails(p) ==
    /\ pc[p] = "modify" /\ p = Agent /\ AgentFails
    /\ job[p][1] = "add"
    /\ Finish(p, [mem[p] EXCEPT !.records = @ \cup {job[p][2]}])
    /\ lapses' = lapses \cup {"dirty"}
    /\ UNCHANGED <<disk, buf, witness, wbuf, truth>>

\* save: changed_on_disk.
Check(p) ==
    /\ pc[p] = "check"
    /\ \/ /\ disk.ino = mem[p].seen
          /\ Goto(p, "rename")
          /\ UNCHANGED <<lock, job, open, mem>>
       \/ disk.ino # mem[p].seen /\ Finish(p, mem[p])
    /\ UNCHANGED <<disk, buf, witness, wbuf, histVars>>

\* save: the epoch, the seal, and the rename that replaces the file.
Rename(p) ==
    LET kind == job[p][1] r == job[p][2] IN
    /\ pc[p] = "rename"
    /\ mem' = [mem EXCEPT ![p].epoch = @ + 1]
    /\ disk' = [ino |-> disk.ino + 1, epoch |-> mem[p].epoch + 1,
                dek |-> mem[p].dek, records |-> mem[p].records]
    /\ truth' = CASE kind \in {"add", "create"} -> truth \cup {r}
                  [] kind = "remove" -> truth \ {r}
                  [] OTHER -> truth
    /\ lapses' = lapses \cup (IF lock # p THEN {"unlocked"} ELSE {})
    /\ Goto(p, "restamp")
    /\ UNCHANGED <<lock, job, open, buf, witness, wbuf>>

\* ... or the write fails, with the epoch already counted.
WriteFails(p) ==
    /\ pc[p] = "rename" /\ (p = Agent => AgentFails)
    /\ mem[p].epoch <= MaxSaves
    /\ Finish(p, [mem[p] EXCEPT !.epoch = @ + 1])
    /\ lapses' = lapses \cup (IF p = Agent THEN {"dirty"} ELSE {})
    /\ UNCHANGED <<disk, buf, witness, wbuf, truth>>

\* save: the stamp of the file as it is after the rename.
Restamp(p) ==
    /\ pc[p] = "restamp"
    /\ mem' = [mem EXCEPT ![p].seen = disk.ino]
    /\ Goto(p, "witness")
    /\ UNCHANGED <<disk, lock, job, open, buf, witness, wbuf, histVars>>

\* Witness::record reads the whole file and writes the whole file.
WitnessLoad(p) ==
    /\ pc[p] = "witness"
    /\ wbuf' = [wbuf EXCEPT ![p] = witness]
    /\ Goto(p, "record")
    /\ UNCHANGED <<disk, lock, job, open, mem, buf, witness, histVars>>

\* Mutant: the witness is told the epoch of the next save.
WitnessStoreNext(p) ==
    /\ pc[p] = "record"
    /\ witness' = mem[p].epoch + 1
    /\ wbuf' = [wbuf EXCEPT ![p] = 0]
    /\ Finish(p, mem[p])
    /\ UNCHANGED <<disk, buf, histVars>>

WitnessStore(p) ==
    /\ pc[p] = "record"
    /\ witness' = IF mem[p].epoch > wbuf[p] THEN mem[p].epoch ELSE wbuf[p]
    /\ wbuf' = [wbuf EXCEPT ![p] = 0]
    /\ Finish(p, mem[p])
    /\ UNCHANGED <<disk, buf, histVars>>

\* A process dies: the kernel drops its lock, and what it held is gone.
Crash(p) ==
    /\ pc[p] # "idle" \/ open[p]
    /\ Drop(p)
    /\ wbuf' = [wbuf EXCEPT ![p] = 0]
    /\ UNCHANGED <<disk, witness, histVars>>

\* The saver of another vault, which holds that vault's lock and not this one.
OtherLoad ==
    /\ OtherVault
    /\ wbuf' = [wbuf EXCEPT ![Nobody] = witness]
    /\ UNCHANGED <<disk, lock, procVars, mem, buf, witness, histVars>>

OtherStore ==
    /\ OtherVault /\ wbuf[Nobody] # 0
    /\ witness' = wbuf[Nobody]
    /\ wbuf' = [wbuf EXCEPT ![Nobody] = 0]
    /\ UNCHANGED <<disk, lock, procVars, mem, buf, histVars>>

Work(p) ==
    \/ Acquire(p) \/ Stat(p) \/ ReadFile(p) \/ Stamp(p) \/ Modify(p) \/ ModifyFails(p)
    \/ Check(p) \/ Rename(p) \/ WriteFails(p) \/ Restamp(p)
    \/ WitnessLoad(p) \/ WitnessStore(p)

Next ==
    \/ \E p \in Process :
         \/ \E kind \in JobKind, r \in Record : Start(p, kind, r)
         \/ Answer(p) \/ Work(p) \/ Crash(p)
    \/ OtherLoad \/ OtherStore

Spec == Init /\ [][Next]_vars

----------------------------------------------------------------------------
\* Every variable has its type, and the lock is held only by a process that is
\* at work: no path out of a handler, an error or a crash included, leaks it.
TypeOK ==
    /\ disk \in Version /\ witness \in Nat
    /\ lock \in Process \cup {Nobody}
    /\ \A p \in Process : pc[p] = "idle" /\ open[p] => p = Agent

\* The file holds exactly what the completed writes put there: none is lost,
\* undone or duplicated, however processes interleave, fail and crash, as long
\* as no handle was stamped with a file it had not read (blind), kept a change
\* that was not saved (dirty), or was saved without the lock (unlocked).  Those
\* three are the only ways (vault.rs: save, session.rs: "Every mutation holds the
\* vault's advisory lock").
NoLostWrite == lapses = {} => disk.records = truth

\* A re-key is never undone by a handle that still holds the old key, except by
\* a blind or an unlocked save; an unsaved change is no excuse (vault.rs:
\* refresh, "re-keyed by another process").
RekeyHolds == [][disk'.dek < disk.dek => lapses' \cap {"blind", "unlocked"} # {}]_vars

\* Between opening a vault and recording its epoch a locked handler is alone:
\* a crash or an error of one never lets a second in while the first still
\* writes, and whoever holds the lock is at work (vault.rs: open_lock, "so two processes do not interleave writes").
OneWriter ==
    /\ Cardinality({p \in Process : pc[p] \notin {"idle", "lock"}
                                    /\ job[p][1] \in {"add", "remove", "rekey"}}) <= 1
    /\ lock # Nobody => pc[lock] \notin {"idle", "lock"}

\* The two together: what was written stays written, and no path leaks the lock.
WritesSurvive == OneWriter /\ NoLostWrite

\* An honest history never looks like a rollback: whatever fails or crashes
\* between counting the epoch, the rename and the record, and whoever else writes
\* the witness file, the witness is ahead of the file only when a version was
\* overwritten unseen (vault.rs: Witness::check).
NoFalseAlarm == lapses \cap {"blind", "unlocked"} = {} => witness <= disk.epoch

----------------------------------------------------------------------------
(* A statement of the repository that the code does not keep.              *)

\* vault.rs: save "Refuses to write over a version this handle has not seen", so
\* writers that all take the lock lose nothing.
Durable == disk.records = truth

============================================================================
