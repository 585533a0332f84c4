-------------------------- MODULE VaultStoreProofs --------------------------
(***************************************************************************)
(* Proofs about the vault file and the processes that hold it, for every   *)
(* number of processes, records and saves: handlers that take the lock are *)
(* alone, and outside the three lapses no write is lost, no re-key undone  *)
(* and no honest history looks like a rollback.                            *)
(***************************************************************************)
EXTENDS VaultStore, TLAPS, FiniteSetTheorems

----------------------------------------------------------------------------
\* The inductive invariant.

Working == {"modify", "check", "rename", "restamp", "witness", "record"}
Steps == {"idle", "lock", "prompt", "read", "stat", "stamp"} \cup Working
Handle == [epoch : Nat, dek : Nat, records : SUBSET Record, seen : Nat]

StoreTypes ==
    /\ disk \in Version /\ witness \in Nat
    /\ pc \in [Process -> Steps] /\ open \in [Process -> BOOLEAN]
    /\ job \in [Process -> (JobKind \cup {"none"}) \X (Record \cup {Nobody})]
    /\ mem \in [Process -> Handle] /\ buf \in [Process -> Version]
    /\ wbuf \in [Process \cup {Nobody} -> Nat]

\* Whoever is past taking the lock for a locked handler holds it, and nobody else.
Holds(p) == pc[p] \notin {"idle", "lock"} /\ Locks(job[p][1])
LockIsHeld ==
    /\ lock \in Process \cup {Nobody}
    /\ \A p \in Process : lock = p <=> Holds(p)

\* A process at work has a handle and something to do.
AtWork(p) ==
    /\ pc[p] = "idle" /\ open[p] => p = Agent
    /\ pc[p] # "idle" => job[p][1] \in JobKind /\ job[p][2] \in Record
    /\ pc[p] # "idle" /\ job[p][1] \in {"unlock", "read"} => p = Agent
    /\ pc[p] \in {"lock", "prompt"} => Locks(job[p][1])
    /\ pc[p] = "lock" /\ p = Agent => open[p]
    /\ pc[p] \in Working \cup {"stat"} => open[p] /\ job[p][1] # "unlock"
    /\ pc[p] \in Working => job[p][1] # "read"

\* Versions are numbered in the order they are written, keys by the version they
\* were made for; what was read of the file is the file, if it is still there.
Numbered(p) ==
    /\ mem[p].seen <= disk.ino /\ mem[p].dek <= disk.ino + 1
    /\ pc[p] = "stamp" =>
          /\ buf[p].ino <= disk.ino /\ buf[p].dek <= disk.ino
          /\ buf[p].ino = disk.ino => buf[p] = disk
          /\ open[p] => buf[p].dek = mem[p].dek

\* No save was blind or unlocked.
Orderly == lapses \cap {"blind", "unlocked"} = {}

\* A handle that has seen the file is not behind it; a handler under the lock still
\* has when it renames, and nobody comes between its rename and its stamp.
NotBehind(p) ==
    /\ open[p] /\ mem[p].seen = disk.ino => mem[p].epoch >= disk.epoch /\ mem[p].dek >= disk.dek
    /\ pc[p] = "rename" /\ Locks(job[p][1]) => mem[p].seen = disk.ino
    /\ pc[p] = "restamp" => /\ Locks(job[p][1])
                            /\ mem[p].epoch = disk.epoch /\ mem[p].dek = disk.dek
                            /\ mem[p].records = disk.records
    /\ pc[p] \in {"witness", "record"} => mem[p].epoch <= disk.epoch

\* No epoch that the file has not reached is remembered or about to be.
WitnessBehind ==
    /\ witness <= disk.epoch
    /\ \A q \in Process \cup {Nobody} : wbuf[q] <= disk.epoch

\* Without any lapse a handle that has seen the file holds its records, with the
\* change it is about to save.
Effect(j, s) ==
    IF j[1] \in {"add", "create"} THEN s \cup {j[2]}
    ELSE IF j[1] = "remove" THEN s \ {j[2]} ELSE s
Faithful(p) ==
    open[p] /\ mem[p].seen = disk.ino =>
        mem[p].records = IF pc[p] \in {"check", "rename"} THEN Effect(job[p], disk.records)
                         ELSE disk.records

IInv ==
    /\ StoreTypes /\ LockIsHeld
    /\ disk.dek <= disk.ino
    /\ \A p \in Process : AtWork(p) /\ Numbered(p)
    /\ Orderly => WitnessBehind /\ \A p \in Process : NotBehind(p)
    /\ lapses = {} => disk.records = truth /\ \A p \in Process : Faithful(p)

\* The parts of the invariant that are about one process.
Own(p) ==
    /\ AtWork(p) /\ Numbered(p)
    /\ Orderly => NotBehind(p)
    /\ lapses = {} => Faithful(p)

\* The invariant part by part, before and after a step.
LEMMA IInvParts ==
    /\ IInv <=> /\ StoreTypes /\ LockIsHeld /\ disk.dek <= disk.ino
                /\ \A p \in Process : Own(p)
                /\ Orderly => WitnessBehind
                /\ lapses = {} => disk.records = truth
    /\ IInv' <=> /\ StoreTypes' /\ LockIsHeld' /\ disk'.dek <= disk'.ino
                 /\ \A p \in Process : Own(p)'
                 /\ Orderly' => WitnessBehind'
                 /\ lapses' = {} => disk'.records = truth'
  BY DEF IInv, Own

----------------------------------------------------------------------------
\* Initially.

\* A vault just made, and processes that have yet to open it.
LEMMA InitInv == Init => IInv
  <1> SUFFICES ASSUME Init PROVE IInv
    OBVIOUS
  <1> USE DEF Init, First, NoVault, NoJob
  <1>1. StoreTypes
    BY DEF StoreTypes, Version, Handle, Steps, Working
  <1>2. LockIsHeld
    BY StoreAssumption DEF LockIsHeld, Holds
  <1>3. ASSUME NEW p \in Process PROVE Own(p)
    BY <1>3 DEF Own, AtWork, Numbered, NotBehind, Faithful, Working
  <1>4. WitnessBehind
    BY DEF WitnessBehind
  <1> QED
    BY <1>1, <1>2, <1>3, <1>4, IInvParts

----------------------------------------------------------------------------
\* What a step of one process leaves to the others.

Apart(p) ==
    \A q \in Process \ {p} :
        /\ pc'[q] = pc[q] /\ job'[q] = job[q] /\ open'[q] = open[q]
        /\ mem'[q] = mem[q] /\ buf'[q] = buf[q]

\* The lock changes hands only with a process's own step.
Passed(p) ==
    \/ lock' = lock /\ (Holds(p)' <=> Holds(p))
    \/ lock = Nobody /\ lock' = p /\ Holds(p)'
    \/ lock = p /\ lock' = Nobody /\ ~Holds(p)'

\* Between renames a process can only harm its own part of the invariant.
LEMMA Alone ==
    ASSUME IInv, NEW p \in Process, Apart(p), Passed(p), StoreTypes', Own(p)',
           disk' = disk, truth' = truth, lapses \subseteq lapses',
           Orderly' => WitnessBehind'
    PROVE  IInv'
  <1>1. Nobody # p /\ \A q \in Process : Nobody # q
    BY StoreAssumption
  <1>2. ASSUME NEW q \in Process \ {p} PROVE Own(q)' /\ (Holds(q)' <=> Holds(q))
    <2>1. Own(q)
      BY IInvParts
    <2>2. (Orderly' => Orderly) /\ (lapses' = {} => lapses = {})
      BY DEF Orderly
    <2>3. pc'[q] = pc[q] /\ job'[q] = job[q] /\ open'[q] = open[q]
          /\ mem'[q] = mem[q] /\ buf'[q] = buf[q]
      BY DEF Apart
    <2> QED
      BY <2>1, <2>2, <2>3 DEF Own, AtWork, Numbered, NotBehind, Faithful, Holds
  <1>3. LockIsHeld'
    BY <1>1, <1>2 DEF Passed, IInv, LockIsHeld
  <1>4. /\ disk'.dek <= disk'.ino
        /\ lapses' = {} => disk'.records = truth'
    BY DEF IInv
  <1> QED
    <2>1. StoreTypes' /\ \A q \in Process : Own(q)'
      BY <1>2
    <2> QED
      BY <2>1, <1>3, <1>4, IInvParts

\* A process that changes none of what it remembers.
LEMMA Remembered ==
    ASSUME IInv, lapses \subseteq lapses',
           UNCHANGED <<disk, witness, wbuf>>
    PROVE  Orderly' => WitnessBehind'
  BY DEF IInv, Orderly, WitnessBehind

\* However a job ends, its process stays out of the way; what is left is whether
\* the handle it keeps is sound.
LEMMA Finished ==
    ASSUME IInv, NEW p \in Process, NEW v \in Handle, Finish(p, v), UNCHANGED <<disk, buf>>,
           pc[p] # "idle", v.seen = mem[p].seen, v.dek = mem[p].dek
    PROVE  /\ Apart(p) /\ Passed(p)
           /\ pc' \in [Process -> Steps] /\ open' \in [Process -> BOOLEAN]
           /\ job' \in [Process -> (JobKind \cup {"none"}) \X (Record \cup {Nobody})]
           /\ mem' \in [Process -> Handle]
           /\ pc'[p] = "idle" /\ AtWork(p)' /\ Numbered(p)'
           /\ open'[p] => p = Agent /\ open[p] /\ mem'[p] = v
  <1>1. StoreTypes /\ Own(p)
    BY IInvParts
  <1>2. PICK m \in Handle, o \in BOOLEAN :
          /\ mem' = [mem EXCEPT ![p] = m] /\ open' = [open EXCEPT ![p] = o]
          /\ o => p = Agent /\ open[p] /\ m = v
          /\ m \in {v, NoVault}
    <2>1. NoVault \in Handle
      BY DEF NoVault, Handle
    <2> QED
      BY <1>1, <2>1 DEF Finish, StoreTypes
  <1>3. pc' = [pc EXCEPT ![p] = "idle"] /\ job' = [job EXCEPT ![p] = NoJob]
    BY DEF Finish, Goto
  <1>4. Apart(p)
    BY <1>1, <1>2, <1>3 DEF Apart, StoreTypes
  <1>5. /\ pc' \in [Process -> Steps] /\ open' \in [Process -> BOOLEAN]
        /\ job' \in [Process -> (JobKind \cup {"none"}) \X (Record \cup {Nobody})]
        /\ mem' \in [Process -> Handle]
    BY <1>1, <1>2, <1>3 DEF StoreTypes, Steps, NoJob
  <1>6. pc'[p] = "idle" /\ mem'[p] = m /\ open'[p] = o
    BY <1>1, <1>2, <1>3 DEF StoreTypes
  <1>7. Passed(p)
    <2>1. ~Holds(p)'
      BY <1>6 DEF Holds
    <2>2. lock = p <=> Holds(p)
      BY DEF IInv, LockIsHeld
    <2> QED
      BY <2>1, <2>2 DEF Finish, Passed
  <1>8. AtWork(p)'
    BY <1>2, <1>6 DEF AtWork, Working
  <1>9. Numbered(p)'
    <2>1. m.seen <= disk.ino /\ m.dek <= disk.ino + 1
      BY <1>1, <1>2 DEF Own, Numbered, StoreTypes, Handle, Version, NoVault
    <2> QED
      BY <1>6, <2>1 DEF Numbered
  <1> QED
    BY <1>2, <1>4, <1>5, <1>6, <1>7, <1>8, <1>9

\* A process that died, or an agent that locked, leaves nothing of its own.
LEMMA Dropped ==
    ASSUME IInv, NEW p \in Process, Drop(p), disk' = disk, wbuf' \in [Process \cup {Nobody} -> Nat],
           witness' \in Nat, Orderly' => WitnessBehind', UNCHANGED histVars
    PROVE  IInv'
  <1>1. StoreTypes /\ Own(p)
    BY IInvParts
  <1>2. StoreTypes'
    BY <1>1 DEF Drop, Goto, StoreTypes, Steps, NoJob, NoVault, First, Handle, Version
  <1>3. Apart(p)
    BY <1>1 DEF Drop, Goto, Apart, StoreTypes
  <1>4. pc'[p] = "idle" /\ open'[p] = FALSE /\ mem'[p] = NoVault
    BY <1>1 DEF Drop, Goto, StoreTypes
  <1>5. Own(p)'
    BY <1>1, <1>4 DEF Own, AtWork, Numbered, NotBehind, Faithful, Working, NoVault, StoreTypes, Version
  <1>6. Passed(p)
    <2>1. ~Holds(p)'
      BY <1>4 DEF Holds
    <2>2. lock = p <=> Holds(p)
      BY DEF IInv, LockIsHeld
    <2> QED
      BY <2>1, <2>2 DEF Drop, Passed
  <1> QED
    BY <1>2, <1>3, <1>5, <1>6, Alone DEF histVars

----------------------------------------------------------------------------
\* The steps, in the order of a job.

\* A job begins (session.rs: a request; main.rs: a command).
LEMMA StartKeeps ==
    ASSUME IInv, NEW p \in Process, NEW kind \in JobKind, NEW r \in Record, Start(p, kind, r)
    PROVE  IInv'
  <1>1. StoreTypes /\ Own(p)
    BY IInvParts
  <1>2. PICK s \in {"lock", "read", "stat"} :
          /\ pc' = [pc EXCEPT ![p] = s]
          /\ s = IF Locks(kind) THEN "lock" ELSE IF kind = "unlock" THEN "read" ELSE "stat"
    BY DEF Start, Goto
  <1>3. StoreTypes'
    BY <1>1, <1>2 DEF Start, StoreTypes, Steps, histVars
  <1>4. Apart(p)
    BY <1>1, <1>2 DEF Start, Apart, StoreTypes
  <1>5. pc[p] = "idle" /\ pc'[p] = s /\ job'[p] = <<kind, r>> /\ UNCHANGED <<open, mem, disk, lapses>>
    BY <1>1, <1>2 DEF Start, StoreTypes, histVars
  <1>6. p # Agent => Locks(kind)
    BY StoreAssumption DEF Start, Locks
  <1>7. Passed(p)
    <2>1. ~Holds(p) /\ ~Holds(p)'
      BY <1>2, <1>5 DEF Holds
    <2> QED
      BY <2>1 DEF Passed, Start
  <1>8. AtWork(p)'
    <2>1. p = Agent => (open[p] <=> kind # "unlock")
      BY <1>1 DEF Start, StoreTypes
    <2>2. job'[p][1] = kind /\ job'[p][2] = r
      BY <1>5
    <2> QED
      BY <1>2, <1>5, <1>6, <2>1, <2>2 DEF AtWork, Locks, Working
  <1>9. Numbered(p)' /\ (Orderly' => NotBehind(p)') /\ (lapses' = {} => Faithful(p)')
    BY <1>1, <1>2, <1>5 DEF Own, Numbered, NotBehind, Faithful, Orderly
  <1> QED
    BY <1>3, <1>4, <1>7, <1>8, <1>9, Alone, Remembered DEF Own, Start, histVars

\* The lock comes, and the human answers.
LEMMA AcquireKeeps ==
    ASSUME IInv, NEW p \in Process, Acquire(p) \/ Answer(p)
    PROVE  IInv'
  <1>1. StoreTypes /\ Own(p)
    BY IInvParts
  <1>2. PICK s \in {"prompt", "read", "stat"} :
          /\ pc' = [pc EXCEPT ![p] = s]
          /\ s = "stat" => p = Agent /\ pc[p] = "lock"
          /\ s = "prompt" => pc[p] = "lock"
    BY DEF Acquire, Answer, Goto
  <1>3. StoreTypes'
    BY <1>1, <1>2 DEF Acquire, Answer, StoreTypes, Steps, histVars
  <1>4. Apart(p)
    BY <1>1, <1>2 DEF Acquire, Answer, Apart, StoreTypes
  <1>5. pc'[p] = s /\ pc[p] \in {"lock", "prompt"} /\ UNCHANGED <<open, mem, disk, lapses, job>>
    BY <1>1, <1>2 DEF Acquire, Answer, StoreTypes, histVars
  <1>6. Locks(job[p][1])
    BY <1>1, <1>5 DEF Own, AtWork
  <1>7. Passed(p)
    BY <1>2, <1>5, <1>6 DEF Passed, Holds, Acquire, Answer, Locks
  <1>8. AtWork(p)'
    BY <1>1, <1>2, <1>5, <1>6 DEF Own, AtWork, Locks, Working
  <1>9. Numbered(p)' /\ (Orderly' => NotBehind(p)') /\ (lapses' = {} => Faithful(p)')
    BY <1>1, <1>2, <1>5 DEF Own, Numbered, NotBehind, Faithful, Orderly
  <1> QED
    BY <1>3, <1>4, <1>7, <1>8, <1>9, Alone, Remembered DEF Own, Acquire, Answer, histVars

\* A job that ends with the handle as it is.
LEMMA EndsAsItIs ==
    ASSUME IInv, NEW p \in Process, Finish(p, mem[p]), UNCHANGED <<disk, buf, truth, lapses>>,
           pc[p] # "idle", wbuf' \in [Process \cup {Nobody} -> Nat], witness' \in Nat,
           Orderly' => WitnessBehind',
           pc[p] \notin {"check", "rename"} \/ mem[p].seen # disk.ino
    PROVE  IInv'
  <1>1. StoreTypes /\ Own(p) /\ mem[p] \in Handle
    BY IInvParts DEF StoreTypes
  <1>2. /\ Apart(p) /\ Passed(p)
        /\ pc' \in [Process -> Steps] /\ open' \in [Process -> BOOLEAN]
        /\ job' \in [Process -> (JobKind \cup {"none"}) \X (Record \cup {Nobody})]
        /\ mem' \in [Process -> Handle]
        /\ pc'[p] = "idle" /\ AtWork(p)' /\ Numbered(p)'
        /\ open'[p] => p = Agent /\ open[p] /\ mem'[p] = mem[p]
    BY <1>1, Finished
  <1>3. StoreTypes'
    BY <1>1, <1>2 DEF StoreTypes
  <1>4. Own(p)'
    BY <1>1, <1>2 DEF Own, NotBehind, Faithful, Orderly
  <1> QED
    BY <1>2, <1>3, <1>4, Alone

\* The stat before a refresh (vault.rs: refresh).
LEMMA StatKeeps ==
    ASSUME IInv, NEW p \in Process, Stat(p)
    PROVE  IInv'
  <1>1. StoreTypes /\ Own(p)
    BY IInvParts
  <1>2. CASE Finish(p, mem[p])
    BY <1>1, <1>2, EndsAsItIs, Remembered DEF Stat, histVars, StoreTypes
  <1>3. CASE ~Finish(p, mem[p])
    <2>1. PICK s \in {"read", "modify"} :
            /\ pc' = [pc EXCEPT ![p] = s]
            /\ s = "modify" => job[p][1] # "read"
      BY <1>3 DEF Stat, Goto
    <2>2. StoreTypes'
      BY <1>1, <1>3, <2>1 DEF Stat, StoreTypes, Steps, Working, histVars
    <2>3. Apart(p)
      BY <1>1, <1>3, <2>1 DEF Stat, Apart, StoreTypes
    <2>4. pc'[p] = s /\ pc[p] = "stat" /\ UNCHANGED <<open, mem, disk, lapses, job, lock>>
      BY <1>1, <1>3, <2>1 DEF Stat, StoreTypes, histVars
    <2>5. Passed(p)
      BY <2>1, <2>4 DEF Passed, Holds
    <2>6. Own(p)'
      BY <1>1, <2>1, <2>4 DEF Own, AtWork, Numbered, NotBehind, Faithful, Orderly, Working
    <2> QED
      BY <2>2, <2>3, <2>5, <2>6, Alone, Remembered DEF Stat, histVars
  <1> QED
    BY <1>2, <1>3

\* The file is read and unlocked (vault.rs: refresh, unlock).
LEMMA ReadKeeps ==
    ASSUME IInv, NEW p \in Process, ReadFile(p)
    PROVE  IInv'
  <1>1. StoreTypes /\ Own(p)
    BY IInvParts
  <1>2. CASE Drop(p)
    BY <1>1, <1>2, Dropped, Remembered DEF ReadFile, histVars, StoreTypes
  <1>3. CASE ~Drop(p)
    <2>1. /\ pc' = [pc EXCEPT ![p] = "stamp"] /\ buf' = [buf EXCEPT ![p] = disk]
          /\ open[p] => disk.dek = mem[p].dek
          /\ UNCHANGED <<open, mem, disk, lapses, job, lock>>
      BY <1>3 DEF ReadFile, Goto, histVars
    <2>2. StoreTypes'
      BY <1>1, <1>3, <2>1 DEF ReadFile, StoreTypes, Steps
    <2>3. Apart(p)
      BY <1>1, <2>1 DEF Apart, StoreTypes
    <2>4. pc'[p] = "stamp" /\ pc[p] = "read" /\ buf'[p] = disk
      BY <1>1, <1>3, <2>1 DEF ReadFile, StoreTypes
    <2>5. Passed(p)
      BY <2>1, <2>4 DEF Passed, Holds
    <2>6. disk.dek <= disk.ino /\ disk.ino \in Nat
      BY <1>1 DEF IInv, StoreTypes, Version
    <2>7. AtWork(p)' /\ Numbered(p)'
      BY <1>1, <2>1, <2>4, <2>6 DEF Own, AtWork, Numbered, Working
    <2>8. (Orderly' => NotBehind(p)') /\ (lapses' = {} => Faithful(p)')
      BY <1>1, <2>1, <2>4 DEF Own, NotBehind, Faithful, Orderly
    <2> QED
      BY <2>2, <2>3, <2>5, <2>7, <2>8, Alone, Remembered DEF ReadFile, histVars, Own
  <1> QED
    BY <1>2, <1>3

\* A handle built of a file that is still there is that file; any other is blind.
LEMMA StampKeeps ==
    ASSUME IInv, NEW p \in Process, Stamp(p)
    PROVE  IInv'
  <1>1. StoreTypes /\ Own(p)
    BY IInvParts
  <1>2. PICK s \in {"idle", "modify"}, j \in {NoJob, job[p]} :
          /\ pc' = [pc EXCEPT ![p] = s] /\ job' = [job EXCEPT ![p] = j]
          /\ IF job[p][1] \in {"unlock", "read"} THEN s = "idle" /\ j = NoJob
             ELSE s = "modify" /\ j = job[p]
    BY <1>1 DEF Stamp, Goto, StoreTypes
  <1>3. PICK m \in Handle :
          /\ mem' = [mem EXCEPT ![p] = m] /\ m.seen = disk.ino
          /\ m.epoch = buf[p].epoch /\ m.records = buf[p].records
          /\ m.dek = IF open[p] THEN mem[p].dek ELSE buf[p].dek
    <2>1. buf[p] \in Version /\ mem[p] \in Handle /\ disk.ino \in Nat
      BY <1>1 DEF StoreTypes, Version
    <2>2. PICK d \in Nat : d = IF open[p] THEN mem[p].dek ELSE buf[p].dek
      BY <2>1 DEF Version, Handle
    <2>3. [ epoch |-> buf[p].epoch, records |-> buf[p].records, dek |-> d,
            seen |-> disk.ino ] \in Handle
      BY <2>1 DEF Version, Handle
    <2> QED
      BY <2>2, <2>3 DEF Stamp
  <1>4. StoreTypes'
    BY <1>1, <1>2, <1>3 DEF Stamp, StoreTypes, Steps, NoJob, First, Version, Working
  <1>5. Apart(p)
    BY <1>1, <1>2, <1>3 DEF Stamp, Apart, StoreTypes
  <1>6. /\ pc[p] = "stamp" /\ pc'[p] = s /\ job'[p] = j /\ mem'[p] = m /\ open'[p] = TRUE
        /\ UNCHANGED <<disk, lock>>
        /\ lapses \subseteq lapses' /\ (Orderly' => buf[p].ino = disk.ino)
    BY <1>1, <1>2, <1>3 DEF Stamp, StoreTypes, Orderly
  <1>7. m.dek = buf[p].dek /\ m.dek <= disk.ino
        /\ (buf[p].ino = disk.ino => buf[p] = disk)
    BY <1>1, <1>3, <1>6 DEF Own, Numbered
  <1>8. Passed(p)
    BY <1>2, <1>6 DEF Passed, Holds, Stamp, Locks
  <1>9. AtWork(p)'
    BY <1>1, <1>2, <1>6 DEF Own, AtWork, Working, Locks
  <1>10. Numbered(p)'
    BY <1>1, <1>2, <1>3, <1>6, <1>7 DEF Numbered, StoreTypes, Version, Handle
  <1>11. Orderly' => NotBehind(p)'
    BY <1>1, <1>2, <1>3, <1>6, <1>7 DEF NotBehind, StoreTypes, Version, Handle
  <1>12. lapses' = {} => Faithful(p)'
    BY <1>2, <1>3, <1>6, <1>7 DEF Faithful, Orderly
  <1> QED
    BY <1>4, <1>5, <1>6, <1>8, <1>9, <1>10, <1>11, <1>12, Alone, Remembered DEF Own, Stamp

\* The change is made in memory (vault.rs: add_record, remove_record).
LEMMA ModifyKeeps ==
    ASSUME IInv, NEW p \in Process, Modify(p)
    PROVE  IInv'
  <1>1. StoreTypes /\ Own(p) /\ mem[p] \in Handle /\ job[p][2] \in Record
    BY IInvParts DEF StoreTypes, Own, AtWork, Modify, Working
  <1>2. CASE Finish(p, mem[p])
    BY <1>1, <1>2, EndsAsItIs, Remembered DEF Modify, histVars, StoreTypes
  <1>3. CASE ~Finish(p, mem[p])
    <2>1. PICK m \in Handle :
            /\ mem' = [mem EXCEPT ![p] = m] /\ m.seen = mem[p].seen /\ m.epoch = mem[p].epoch
            /\ m.records = Effect(job[p], mem[p].records)
            /\ m.dek = mem[p].dek \/ m.dek = disk.ino + 1
      <3>1. disk.ino + 1 \in Nat
        BY <1>1 DEF StoreTypes, Version
      <3>2. CASE job[p][1] \in {"add", "create"}
        <4>1. [mem[p] EXCEPT !.records = @ \cup {job[p][2]}] \in Handle
          BY <1>1 DEF Handle
        <4> QED
          BY <1>1, <1>3, <3>2, <4>1 DEF Modify, Effect, Handle, StoreTypes
      <3>3. CASE job[p][1] = "remove"
        <4>1. [mem[p] EXCEPT !.records = @ \ {job[p][2]}] \in Handle
          BY <1>1 DEF Handle
        <4> QED
          BY <1>1, <1>3, <3>3, <4>1 DEF Modify, Effect, Handle, StoreTypes
      <3>4. CASE job[p][1] = "rekey"
        <4>1. [mem[p] EXCEPT !.dek = disk.ino + 1] \in Handle
          BY <1>1, <3>1 DEF Handle
        <4> QED
          BY <1>1, <1>3, <3>4, <4>1 DEF Modify, Effect, Handle, StoreTypes
      <3> QED
        BY <1>3, <3>2, <3>3, <3>4 DEF Modify
    <2>2. /\ pc' = [pc EXCEPT ![p] = "check"] /\ pc[p] = "modify"
          /\ UNCHANGED <<disk, lock, job, open, buf, witness, wbuf, truth, lapses>>
      BY <1>3 DEF Modify, Goto, histVars
    <2>3. StoreTypes'
      BY <1>1, <2>1, <2>2 DEF StoreTypes, Steps, Working
    <2>4. Apart(p)
      BY <1>1, <2>1, <2>2 DEF Apart, StoreTypes
    <2>5. pc'[p] = "check" /\ mem'[p] = m
      BY <1>1, <2>1, <2>2 DEF StoreTypes
    <2>6. Passed(p)
      BY <2>2, <2>5 DEF Passed, Holds
    <2>7. AtWork(p)' /\ Numbered(p)'
      BY <1>1, <2>1, <2>2, <2>5 DEF Own, AtWork, Numbered, Working, StoreTypes, Version
    <2>8. disk.dek <= disk.ino /\ disk.dek \in Nat /\ disk.ino \in Nat
      BY <1>1 DEF IInv, StoreTypes, Version
    <2>9. (Orderly' => NotBehind(p)') /\ (lapses' = {} => Faithful(p)')
      BY <1>1, <2>1, <2>2, <2>5, <2>8 DEF Own, NotBehind, Faithful, Orderly
    <2> QED
      BY <2>2, <2>3, <2>4, <2>6, <2>7, <2>9, Alone, Remembered DEF Own
  <1> QED
    BY <1>2, <1>3

\* A change that is not saved is a lapse of its own, and no other.
LEMMA ModifyFailsKeeps ==
    ASSUME IInv, NEW p \in Process, ModifyFails(p)
    PROVE  IInv'
  <1>1. StoreTypes /\ Own(p) /\ mem[p] \in Handle /\ job[p][2] \in Record
    BY IInvParts DEF StoreTypes, Own, AtWork, ModifyFails, Working
  <1>2. PICK v \in Handle :
          /\ Finish(p, v) /\ v.seen = mem[p].seen /\ v.dek = mem[p].dek
          /\ v.epoch = mem[p].epoch
    <2>1. [mem[p] EXCEPT !.records = @ \cup {job[p][2]}] \in Handle
      BY <1>1 DEF Handle
    <2> QED
      BY <1>1, <2>1 DEF ModifyFails, Handle
  <1>3. pc[p] = "modify" /\ UNCHANGED <<disk, buf, witness, wbuf, truth>>
        /\ lapses' = lapses \cup {"dirty"}
    BY DEF ModifyFails
  <1>4. /\ Apart(p) /\ Passed(p)
        /\ pc' \in [Process -> Steps] /\ open' \in [Process -> BOOLEAN]
        /\ job' \in [Process -> (JobKind \cup {"none"}) \X (Record \cup {Nobody})]
        /\ mem' \in [Process -> Handle]
        /\ pc'[p] = "idle" /\ AtWork(p)' /\ Numbered(p)'
        /\ open'[p] => p = Agent /\ open[p] /\ mem'[p] = v
    BY <1>2, <1>3, Finished
  <1>5. StoreTypes'
    BY <1>1, <1>3, <1>4 DEF StoreTypes
  <1>6. Own(p)'
    BY <1>1, <1>2, <1>3, <1>4 DEF Own, NotBehind, Orderly
  <1> QED
    BY <1>3, <1>4, <1>5, <1>6, Alone, Remembered

\* The stat before the file is replaced (vault.rs: save).
LEMMA CheckKeeps ==
    ASSUME IInv, NEW p \in Process, Check(p)
    PROVE  IInv'
  <1>1. StoreTypes /\ Own(p)
    BY IInvParts
  <1>2. CASE disk.ino # mem[p].seen
    BY <1>1, <1>2, EndsAsItIs, Remembered DEF Check, histVars, StoreTypes
  <1>3. CASE disk.ino = mem[p].seen
    <2>1. /\ pc' = [pc EXCEPT ![p] = "rename"] /\ pc[p] = "check"
          /\ UNCHANGED <<disk, lock, job, open, mem, buf, witness, wbuf, truth, lapses>>
      BY <1>3 DEF Check, Goto, histVars
    <2>2. StoreTypes'
      BY <1>1, <2>1 DEF StoreTypes, Steps, Working
    <2>3. Apart(p)
      BY <1>1, <2>1 DEF Apart, StoreTypes
    <2>4. pc'[p] = "rename"
      BY <1>1, <2>1 DEF StoreTypes
    <2>5. Passed(p)
      BY <2>1, <2>4 DEF Passed, Holds
    <2>6. Own(p)'
      BY <1>1, <1>3, <2>1, <2>4 DEF Own, AtWork, Numbered, NotBehind, Faithful, Orderly, Working
    <2> QED
      BY <2>1, <2>2, <2>3, <2>5, <2>6, Alone, Remembered
  <1> QED
    BY <1>2, <1>3

\* A failed write leaves the handle an epoch ahead of the file.
LEMMA WriteFailsKeeps ==
    ASSUME IInv, NEW p \in Process, WriteFails(p)
    PROVE  IInv'
  <1>1. StoreTypes /\ Own(p) /\ mem[p] \in Handle
    BY IInvParts DEF StoreTypes
  <1>2. PICK v \in Handle :
          /\ Finish(p, v) /\ v.seen = mem[p].seen /\ v.dek = mem[p].dek
          /\ v.epoch = mem[p].epoch + 1
    <2>1. [mem[p] EXCEPT !.epoch = @ + 1] \in Handle
      BY <1>1 DEF Handle
    <2> QED
      BY <1>1, <2>1 DEF WriteFails, Handle
  <1>3. pc[p] = "rename" /\ UNCHANGED <<disk, buf, witness, wbuf, truth>>
        /\ lapses' = lapses \cup (IF p = Agent THEN {"dirty"} ELSE {})
    BY DEF WriteFails
  <1>4. /\ Apart(p) /\ Passed(p)
        /\ pc' \in [Process -> Steps] /\ open' \in [Process -> BOOLEAN]
        /\ job' \in [Process -> (JobKind \cup {"none"}) \X (Record \cup {Nobody})]
        /\ mem' \in [Process -> Handle]
        /\ pc'[p] = "idle" /\ AtWork(p)' /\ Numbered(p)'
        /\ open'[p] => p = Agent /\ open[p] /\ mem'[p] = v
    BY <1>2, <1>3, Finished
  <1>5. StoreTypes'
    BY <1>1, <1>3, <1>4 DEF StoreTypes
  <1>6. Orderly' => NotBehind(p)'
    <2>1. mem[p].epoch \in Nat /\ disk.epoch \in Nat
      BY <1>1 DEF StoreTypes, Handle, Version
    <2>2. Orderly' => Orderly
      BY <1>3 DEF Orderly
    <2>3. Orderly' => (open'[p] /\ mem'[p].seen = disk'.ino =>
                         mem'[p].epoch >= disk'.epoch /\ mem'[p].dek >= disk'.dek)
      BY <1>1, <1>2, <1>3, <1>4, <2>1, <2>2 DEF Own, NotBehind
    <2> QED
      BY <1>4, <2>3 DEF NotBehind
  <1>7. lapses' = {} => Faithful(p)'
    BY <1>3, <1>4 DEF Faithful
  <1> QED
    BY <1>3, <1>4, <1>5, <1>6, <1>7, Alone, Remembered DEF Own

\* A rename that is neither blind nor unlocked is of the lock's holder, whose handle
\* has seen the file.
LEMMA RenameInOrder ==
    ASSUME IInv, NEW p \in Process, Rename(p), Orderly'
    PROVE  /\ Orderly /\ lock = p /\ Locks(job[p][1])
           /\ mem[p].seen = disk.ino /\ open[p]
           /\ mem[p].epoch >= disk.epoch /\ mem[p].dek >= disk.dek
  <1>1. Orderly /\ lock = p
    BY DEF Orderly, Rename
  <1>2. Locks(job[p][1])
    BY <1>1 DEF IInv, LockIsHeld, Holds
  <1>3. mem[p].seen = disk.ino /\ open[p]
    BY <1>1, <1>2 DEF IInv, NotBehind, AtWork, Working, Rename
  <1> QED
    BY <1>1, <1>2, <1>3 DEF IInv, NotBehind

\* The one step that changes the file: outside a lapse it is under the lock, from
\* a handle that has seen the file, and every other handle is behind.
LEMMA RenameKeeps ==
    ASSUME IInv, NEW p \in Process, Rename(p)
    PROVE  IInv'
  <1>1. /\ StoreTypes /\ Own(p) /\ mem[p] \in Handle /\ disk \in Version
        /\ \A q \in Process : Own(q)
    BY IInvParts DEF StoreTypes
  <1>2. /\ pc[p] = "rename" /\ pc' = [pc EXCEPT ![p] = "restamp"]
        /\ mem' = [mem EXCEPT ![p].epoch = @ + 1]
        /\ disk'.ino = disk.ino + 1 /\ disk'.epoch = mem[p].epoch + 1
        /\ disk'.dek = mem[p].dek /\ disk'.records = mem[p].records
        /\ disk' \in Version
        /\ lapses' = lapses \cup (IF lock # p THEN {"unlocked"} ELSE {})
        /\ UNCHANGED <<lock, job, open, buf, witness, wbuf>>
    <2>1. [ ino |-> disk.ino + 1, epoch |-> mem[p].epoch + 1, dek |-> mem[p].dek,
            records |-> mem[p].records ] \in Version
      BY <1>1 DEF Version, Handle
    <2> QED
      BY <2>1 DEF Rename, Goto
  <1>3. PICK m \in Handle :
          /\ mem' = [mem EXCEPT ![p] = m] /\ mem'[p] = m
          /\ m.epoch = mem[p].epoch + 1 /\ m.seen = mem[p].seen /\ m.dek = mem[p].dek
          /\ m.records = mem[p].records
    <2>1. [mem[p] EXCEPT !.epoch = @ + 1] \in Handle
      BY <1>1 DEF Handle
    <2> QED
      BY <1>1, <1>2, <2>1 DEF StoreTypes, Handle
  <1>4. StoreTypes'
    BY <1>1, <1>2, <1>3 DEF StoreTypes, Steps, Working
  <1>5. \A q \in Process : pc'[q] = IF q = p THEN "restamp" ELSE pc[q]
    BY <1>1, <1>2 DEF StoreTypes
  <1>6. \A q \in Process \ {p} : mem'[q] = mem[q]
    BY <1>1, <1>3 DEF StoreTypes
  <1>7. LockIsHeld'
    BY <1>2, <1>5 DEF IInv, LockIsHeld, Holds
  <1>8. disk.ino \in Nat /\ mem[p].dek \in Nat /\ mem[p].epoch \in Nat /\ mem[p].seen \in Nat
        /\ disk.epoch \in Nat /\ disk.dek \in Nat
    BY <1>1 DEF Version, Handle
  <1>9. disk'.dek <= disk'.ino
    BY <1>1, <1>2, <1>8 DEF Own, Numbered
  <1>10. ASSUME Orderly'
         PROVE  /\ Orderly /\ lock = p /\ Locks(job[p][1])
                /\ mem[p].seen = disk.ino /\ open[p] /\ disk'.epoch > disk.epoch
    BY <1>2, <1>8, <1>10, RenameInOrder
  <1>11. ASSUME NEW q \in Process PROVE mem'[q].seen <= disk.ino /\ mem'[q].seen \in Nat
                                       /\ mem'[q].seen # disk'.ino
    <2>1. mem[q].seen <= disk.ino /\ mem[q].seen \in Nat
      BY <1>1 DEF Own, Numbered, StoreTypes, Handle
    <2>2. mem'[q].seen = mem[q].seen
      BY <1>3, <1>6
    <2> QED
      BY <1>2, <1>8, <2>1, <2>2
  <1>12. ASSUME NEW q \in Process PROVE AtWork(q)' /\ Numbered(q)'
    <2>1. AtWork(q)'
      BY <1>1, <1>2, <1>5 DEF Own, AtWork, Working
    <2>2. mem'[q].dek = mem[q].dek /\ mem[q].dek <= disk.ino + 1 /\ mem[q].dek \in Nat
      BY <1>1, <1>3, <1>6 DEF Own, Numbered, StoreTypes, Handle
    <2>3. mem'[q].seen <= disk'.ino /\ mem'[q].dek <= disk'.ino + 1
      BY <1>2, <1>8, <1>11, <2>2
    <2>4. buf[q].ino \in Nat /\ buf[q].dek \in Nat
      BY <1>1 DEF StoreTypes, Version
    <2>5. pc'[q] = "stamp" => /\ buf[q].ino <= disk.ino /\ buf[q].dek <= disk.ino
                              /\ open[q] => buf[q].dek = mem[q].dek
      BY <1>1, <1>5 DEF Own, Numbered
    <2>6. pc'[q] = "stamp" => /\ buf[q].ino <= disk'.ino /\ buf[q].dek <= disk'.ino
                              /\ buf[q].ino # disk'.ino
      BY <1>2, <1>8, <2>4, <2>5
    <2> QED
      BY <1>2, <2>1, <2>2, <2>3, <2>5, <2>6 DEF Numbered
  <1>13. ASSUME Orderly', NEW q \in Process PROVE NotBehind(q)'
    <2>1. CASE q = p
      BY <1>2, <1>3, <1>5, <1>10, <1>11, <1>13, <2>1 DEF NotBehind
    <2>2. CASE q # p
      <3>1. Orderly /\ lock = p /\ disk'.epoch > disk.epoch
        BY <1>10, <1>13
      <3>2. ~Holds(q)
        BY <2>2, <3>1 DEF IInv, LockIsHeld
      <3>3. NotBehind(q)
        BY <1>1, <3>1 DEF Own
      <3>4. pc[q] # "restamp" /\ ~(pc[q] = "rename" /\ Locks(job[q][1]))
        BY <3>2, <3>3 DEF NotBehind, Holds
      <3>5. mem[q].epoch \in Nat /\ disk'.epoch \in Nat
        BY <1>1, <1>2 DEF StoreTypes, Handle, Version
      <3>6. pc[q] \in {"witness", "record"} => mem[q].epoch <= disk'.epoch
        BY <1>8, <3>1, <3>3, <3>5 DEF NotBehind
      <3> QED
        BY <1>2, <1>5, <1>6, <1>11, <2>2, <3>4, <3>6 DEF NotBehind
    <2> QED
      BY <2>1, <2>2
  <1>14. Orderly' => WitnessBehind'
    <2> SUFFICES ASSUME Orderly' PROVE WitnessBehind'
      OBVIOUS
    <2>1. WitnessBehind /\ disk'.epoch > disk.epoch
      BY <1>10 DEF IInv
    <2>2. witness \in Nat /\ disk'.epoch \in Nat
          /\ \A q \in Process \cup {Nobody} : wbuf[q] \in Nat
      BY <1>1, <1>2 DEF StoreTypes, Version
    <2>3. witness <= disk'.epoch
      BY <1>8, <2>1, <2>2 DEF WitnessBehind
    <2>4. \A q \in Process \cup {Nobody} : wbuf[q] <= disk'.epoch
      BY <1>8, <2>1, <2>2 DEF WitnessBehind
    <2> QED
      BY <1>2, <2>3, <2>4 DEF WitnessBehind
  <1>15. ASSUME lapses' = {} PROVE disk'.records = truth' /\ \A q \in Process : Faithful(q)'
    <2>1. \A q \in Process : Faithful(q)'
      BY <1>11 DEF Faithful
    <2>2. Orderly' /\ lapses = {}
      BY <1>2, <1>15 DEF Orderly
    <2>3. disk.records = truth /\ Faithful(p)
      BY <1>1, <2>2, IInvParts DEF Own
    <2>4. mem[p].records = Effect(job[p], truth)
      BY <1>2, <1>10, <2>2, <2>3 DEF Faithful
    <2>5. truth' = Effect(job[p], truth)
      BY DEF Rename, Effect
    <2> QED
      BY <1>2, <2>1, <2>4, <2>5
  <1>16. \A q \in Process : Own(q)'
    BY <1>12, <1>13, <1>15 DEF Own
  <1> QED
    BY <1>4, <1>7, <1>9, <1>14, <1>15, <1>16, IInvParts

\* The new file's stamp is taken (vault.rs: save).
LEMMA RestampKeeps ==
    ASSUME IInv, NEW p \in Process, Restamp(p)
    PROVE  IInv'
  <1>1. StoreTypes /\ Own(p) /\ mem[p] \in Handle /\ disk.ino \in Nat /\ disk.epoch \in Nat
        /\ disk.dek \in Nat
    BY IInvParts DEF StoreTypes, Version
  <1>2. PICK m \in Handle :
          /\ mem' = [mem EXCEPT ![p] = m] /\ mem'[p] = m /\ m.seen = disk.ino
          /\ m.epoch = mem[p].epoch /\ m.dek = mem[p].dek /\ m.records = mem[p].records
    <2>1. [mem[p] EXCEPT !.seen = disk.ino] \in Handle
      BY <1>1 DEF Handle
    <2> QED
      BY <1>1, <2>1 DEF Restamp, StoreTypes, Handle
  <1>3. /\ pc' = [pc EXCEPT ![p] = "witness"] /\ pc[p] = "restamp"
        /\ UNCHANGED <<disk, lock, job, open, buf, witness, wbuf, truth, lapses>>
    BY DEF Restamp, Goto, histVars
  <1>4. StoreTypes'
    BY <1>1, <1>2, <1>3 DEF StoreTypes, Steps, Working
  <1>5. Apart(p)
    BY <1>1, <1>2, <1>3 DEF Apart, StoreTypes
  <1>6. pc'[p] = "witness"
    BY <1>1, <1>3 DEF StoreTypes
  <1>7. Passed(p)
    BY <1>3, <1>6 DEF Passed, Holds
  <1>8. AtWork(p)' /\ Numbered(p)'
    BY <1>1, <1>2, <1>3, <1>6 DEF Own, AtWork, Numbered, Working
  <1>9. Orderly' => NotBehind(p)'
    <2>1. m.epoch \in Nat /\ m.dek \in Nat
      BY DEF Handle
    <2> QED
      BY <1>1, <1>2, <1>3, <1>6, <2>1 DEF Own, NotBehind, Orderly
  <1>10. lapses' = {} => Faithful(p)'
    BY <1>1, <1>2, <1>3, <1>6 DEF Own, NotBehind, Faithful, Orderly
  <1> QED
    BY <1>3, <1>4, <1>5, <1>7, <1>8, <1>9, <1>10, Alone, Remembered DEF Own

\* The witness is read, before it is raised.
LEMMA WitnessLoadKeeps ==
    ASSUME IInv, NEW p \in Process, WitnessLoad(p)
    PROVE  IInv'
  <1>1. StoreTypes /\ Own(p)
    BY IInvParts
  <1>2. /\ pc' = [pc EXCEPT ![p] = "record"] /\ pc[p] = "witness"
        /\ wbuf' = [wbuf EXCEPT ![p] = witness]
        /\ UNCHANGED <<disk, lock, job, open, mem, buf, witness, truth, lapses>>
    BY DEF WitnessLoad, Goto, histVars
  <1>3. StoreTypes'
    BY <1>1, <1>2 DEF StoreTypes, Steps, Working
  <1>4. Apart(p)
    BY <1>1, <1>2 DEF Apart, StoreTypes
  <1>5. pc'[p] = "record"
    BY <1>1, <1>2 DEF StoreTypes
  <1>6. Passed(p)
    BY <1>2, <1>5 DEF Passed, Holds
  <1>7. Own(p)'
    BY <1>1, <1>2, <1>5 DEF Own, AtWork, Numbered, NotBehind, Faithful, Orderly, Working
  <1>8. Orderly' => WitnessBehind'
    BY <1>1, <1>2 DEF IInv, Orderly, WitnessBehind, StoreTypes
  <1> QED
    BY <1>2, <1>3, <1>4, <1>6, <1>7, <1>8, Alone

\* The witness is raised.
LEMMA WitnessStoreKeeps ==
    ASSUME IInv, NEW p \in Process, WitnessStore(p)
    PROVE  IInv'
  <1>1. StoreTypes /\ Own(p)
    BY IInvParts
  <1>2. /\ pc[p] = "record" /\ Finish(p, mem[p]) /\ wbuf' = [wbuf EXCEPT ![p] = 0]
        /\ witness' \in {mem[p].epoch, wbuf[p]}
        /\ UNCHANGED <<disk, buf, truth, lapses>>
    BY DEF WitnessStore, histVars
  <1>3. wbuf' \in [Process \cup {Nobody} -> Nat] /\ witness' \in Nat
    BY <1>1, <1>2 DEF StoreTypes, Handle
  <1>4. Orderly' => WitnessBehind'
    BY <1>1, <1>2 DEF IInv, Own, NotBehind, Orderly, WitnessBehind, StoreTypes, Version
  <1> QED
    BY <1>1, <1>2, <1>3, <1>4, EndsAsItIs

\* A process is killed and starts anew.
LEMMA CrashKeeps ==
    ASSUME IInv, NEW p \in Process, Crash(p)
    PROVE  IInv'
  <1>1. Drop(p) /\ wbuf' = [wbuf EXCEPT ![p] = 0] /\ UNCHANGED <<disk, witness, truth, lapses>>
    BY DEF Crash, histVars
  <1>2. wbuf' \in [Process \cup {Nobody} -> Nat] /\ witness' \in Nat
    BY <1>1 DEF IInv, StoreTypes
  <1>3. Orderly' => WitnessBehind'
    BY <1>1 DEF IInv, Orderly, WitnessBehind, StoreTypes, Version
  <1> QED
    BY <1>1, <1>2, <1>3, Dropped DEF histVars

\* The other vault's saver writes back what the witness file held.
LEMMA OthersKeep ==
    ASSUME IInv, OtherLoad \/ OtherStore
    PROVE  IInv'
  <1>1. PICK n \in Nat :
          /\ wbuf' = [wbuf EXCEPT ![Nobody] = n] /\ n \in {0, witness}
          /\ witness' \in {witness, wbuf[Nobody]}
    BY DEF OtherLoad, OtherStore, IInv, StoreTypes
  <1>2. UNCHANGED <<disk, lock, pc, job, open, mem, buf, truth, lapses>>
    BY DEF OtherLoad, OtherStore, procVars, histVars
  <1>3. StoreTypes'
    BY <1>1, <1>2 DEF IInv, StoreTypes
  <1>4. Orderly' => WitnessBehind'
    BY <1>1, <1>2 DEF IInv, Orderly, WitnessBehind, StoreTypes, Version
  <1>5. LockIsHeld'
    BY <1>2 DEF IInv, LockIsHeld, Holds
  <1>6. ASSUME NEW p \in Process PROVE Own(p)'
    BY <1>2, IInvParts DEF Own, AtWork, Numbered, NotBehind, Faithful, Orderly
  <1>7. disk'.dek <= disk'.ino /\ (lapses' = {} => disk'.records = truth')
    BY <1>2 DEF IInv
  <1> QED
    BY <1>3, <1>4, <1>5, <1>6, <1>7, IInvParts

\* A step that changes nothing.
LEMMA StutterKeeps ==
    ASSUME IInv, UNCHANGED vars
    PROVE  IInv'
  <1>1. UNCHANGED <<disk, lock, pc, job, open, mem, buf, witness, wbuf, truth, lapses>>
    BY DEF vars, procVars, histVars
  <1>2. StoreTypes'
    BY <1>1 DEF IInv, StoreTypes
  <1>3. Orderly' => WitnessBehind'
    BY <1>1 DEF IInv, Orderly, WitnessBehind
  <1>4. LockIsHeld'
    BY <1>1 DEF IInv, LockIsHeld, Holds
  <1>5. ASSUME NEW p \in Process PROVE Own(p)'
    BY <1>1, IInvParts DEF Own, AtWork, Numbered, NotBehind, Faithful, Orderly
  <1>6. disk'.dek <= disk'.ino /\ (lapses' = {} => disk'.records = truth')
    BY <1>1 DEF IInv
  <1> QED
    BY <1>2, <1>3, <1>4, <1>5, <1>6, IInvParts

\* Every step keeps the invariant.
LEMMA NextKeeps == IInv /\ [Next]_vars => IInv'
  <1> SUFFICES ASSUME IInv, [Next]_vars PROVE IInv'
    OBVIOUS
  <1>1. CASE UNCHANGED vars
    BY <1>1, StutterKeeps
  <1>2. CASE OtherLoad \/ OtherStore
    BY <1>2, OthersKeep
  <1>3. ASSUME NEW p \in Process, NEW kind \in JobKind, NEW r \in Record, Start(p, kind, r)
        PROVE  IInv'
    BY <1>3, StartKeeps
  <1>4. ASSUME NEW p \in Process, Answer(p) \/ Work(p) \/ Crash(p) PROVE IInv'
    BY <1>4, AcquireKeeps, StatKeeps, ReadKeeps, StampKeeps, ModifyKeeps, ModifyFailsKeeps,
       CheckKeeps, RenameKeeps, WriteFailsKeeps, RestampKeeps, WitnessLoadKeeps,
       WitnessStoreKeeps, CrashKeeps DEF Work
  <1> QED
    BY <1>1, <1>2, <1>3, <1>4 DEF Next

----------------------------------------------------------------------------
\* What follows.

\* Lock, handles, file and witness agree as long as no lapse parted them (vault.rs:
\* open_lock, save, refresh, Witness::record).
THEOREM StoreInvariant == Spec => []IInv
  BY InitInv, NextKeeps, PTL DEF Spec

\* Versions are published by one writer at a time, each upon the one before.
LEMMA InvSurvives == IInv => WritesSurvive
  <1> SUFFICES ASSUME IInv PROVE WritesSurvive
    OBVIOUS
  <1> DEFINE Writers == {p \in Process : pc[p] \notin {"idle", "lock"}
                                         /\ job[p][1] \in {"add", "remove", "rekey"}}
  <1>1. Writers \subseteq {lock}
    BY DEF IInv, LockIsHeld, Holds, Locks
  <1>2. Cardinality({lock}) = 1 /\ IsFiniteSet({lock})
    BY FS_Singleton
  <1>3. Cardinality(Writers) <= 1
    BY <1>1, <1>2, FS_Subset
  <1>4. lock # Nobody => pc[lock] \notin {"idle", "lock"}
    BY DEF IInv, LockIsHeld, Holds
  <1> QED
    BY <1>3, <1>4 DEF WritesSurvive, OneWriter, NoLostWrite, IInv

\* A locked handler is alone from taking the lock to recording the epoch, whoever holds
\* the lock is at work, and without a lapse the file holds exactly what the completed
\* writes put there (vault.rs: open_lock, save; session.rs: mutations under the lock).
THEOREM WrittenStays == Spec => []WritesSurvive
  BY StoreInvariant, InvSurvives, PTL

\* Unless a version was overwritten unseen the witness never runs ahead of the file, so
\* the next open raises no rollback alarm (vault.rs: Witness::record, Witness::check).
THEOREM HonestHistory == Spec => []NoFalseAlarm
  <1>1. IInv => NoFalseAlarm
    BY DEF IInv, Orderly, WitnessBehind, NoFalseAlarm
  <1> QED
    BY <1>1, StoreInvariant, PTL

\* No save but a blind or an unlocked one puts an older data key back (vault.rs: save,
\* refresh, "re-keyed by another process").
THEOREM RekeyStays == Spec => RekeyHolds
  <1> DEFINE Step == disk'.dek < disk.dek => lapses' \cap {"blind", "unlocked"} # {}
  <1>1. IInv /\ [Next]_vars => [Step]_vars
    <2> SUFFICES ASSUME IInv, Next PROVE Step
      OBVIOUS
    <2>1. CASE disk' = disk
      BY <2>1 DEF IInv, StoreTypes, Version
    <2>2. CASE disk' # disk
      <3>1. PICK p \in Process : Rename(p)
        BY <2>2 DEF Next, Work, Start, Answer, Crash, OtherLoad, OtherStore, Acquire, Stat,
           ReadFile, Stamp, Modify, ModifyFails, Check, WriteFails, Restamp, WitnessLoad,
           WitnessStore
      <3>2. disk'.dek = mem[p].dek /\ mem[p].dek \in Nat /\ disk.dek \in Nat
        BY <3>1 DEF Rename, IInv, StoreTypes, Handle, Version
      <3>3. Orderly' => mem[p].dek >= disk.dek
        BY <3>1, RenameInOrder
      <3> QED
        BY <3>2, <3>3 DEF Orderly
    <2> QED
      BY <2>1, <2>2
  <1> QED
    BY <1>1, StoreInvariant, PTL DEF Spec, RekeyHolds

=============================================================================
