# Black-Bag: a verification project

TLA+ models of Black-Bag: the agent that decides when a secret leaves the vault,
the programs that stand between it and its users, the file a write must survive
in, and the algorithms they call; TLC runs over small instances of all of them;
and TLAPS proofs, for every value of the constants, of the desk, the agent, the
store, the front ends, the key, the watcher and the library's parts.
`PROJECT.json` lists components, runs, mutants, the map from definitions to
source lines, findings, hazards and theorems.

## The system

| part | state | operations | talks to |
|---|---|---|---|
| session agent (`session.rs`) | the open vault with its idle deadline and ceiling, approvals, consent desk, SSH and Secret Service prompts, the lock-signal channel, `status.json` | one thread: expire, drain signals, accept, read one request, dispatch, reply | every other part, over a Unix socket |
| consent desk (`consent.rs`) | passkey ceremonies by nonce | register, approve, refuse, defer, take_answered, clear, a lazy expiry in each | called by the agent |
| approvals (`policy.rs`) | (client, item, capability) grants, lockdown, trusted clients | consider, grant, revoke, set_lockdown, trust, clear | called by the agent |
| vault file (`vault.rs`) | the file, its advisory lock, one in-memory handle per process, the witness file | unlock, refresh, change, save, re-key | the agent and CLI commands, concurrently |
| audit log (`audit.rs`) | hash-chained lines and a recorded head | append, verify | written by the agent, read by the CLI |
| suspend watcher (`sleepwatch.rs`) | one bus connection, the owner of logind's name, this login session, a retry delay | subscribe, read, classify, send, reconnect | the system bus; a channel into the agent |
| virtual security key (`ctap/`, `uhid.rs`) | channels, half-received messages, the request being answered | read a report, reassemble, answer; register, poll and withdraw a ceremony | programs that open the device; the agent |
| SSH agent daemon (`ssh_agent.rs`, `ssh/`) | a thread for each connection, a count of them | accept, read, list keys, sign with a wait for approval, answer | ssh; the agent |
| Secret Service daemon (`secretservice.rs`) | sessions, one D-Bus object for each item | search, create or replace, read with a wait for approval, set, delete | applications over D-Bus; the agent |
| extension and native host (`sw.js`, `passkey_host.rs`) | parked requests, live ceremonies; one host process each | park, run on the page's port, begin, collect until answered, cancel | Chromium; the agent |
| clipboard (`clipboard.rs`) | a command, its helper process, a clear timer | copy, confirm, serve, clear if still ours | the compositor |
| backup log (`backup.rs`, `cmd_backup`) | copies made, by vault and epoch | move aside, copy, check, push; live_for, backed_up_through | read when a passkey is signed |
| recipients (`vault.rs`, `crypto.rs`) | one wrap of the data key for each holder, a MAC over the header | init, unlock, re-key, add and remove a recovery | the vault file |
| passkeys (`passkey.rs`) | credentials under a relying-party id | check the id, choose an algorithm, mint, assert | both ceremony lanes of the agent |
| locked memory (`secmem.rs`) | page-locked slabs and their free ranges | allocate, release, grow, cut, drop | everything that holds a secret |
| generation (`generate.rs`) | none | validate, draw, redraw, show a strength | command line, decks |
| hygiene and breach (`hygiene.rs`, `breach.rs`) | the exposure cache of the open vault | analyse, list prefixes, match ranges | the agent; an online corpus |
| export and import (`import.rs`, drafts of `session.rs`) | none | render, parse, build records, relay them as drafts | the agent or the file |
| decks, CLI front end | none of their own that decides | poll `status.json`, send requests | the agent |

What is hard to test here:

* the agent checks the session *before* it reads a request and dispatches it
  up to three seconds later; time, suspends, CLI writes and re-keys happen in
  between;
* requests take their decision and look at the session in different orders;
* every publish of `status.json` may fail with the state already changed;
* the vault file is read, stamped, checked, renamed and witnessed in separate
  steps by processes that share only an advisory lock;
* replies and signals share one bus stream, and logind restarts;
* the log and its head are written by two writes with a crash between them;
* programs that share the security key interleave reports that the kernel may
  drop, while its one thread waits for a human;
* every front end polls the agent for an answer a human may never give, while
  its own client hangs up, cancels or asks again, and holds nothing in between;
* a copied secret is delivered, taken over and cleared by processes that may
  die at any point;
* allocations, backups, re-keys, exposure verdicts and exports are right or
  wrong only over a sequence of calls.

What makes each part correct is the property its run checks, below. The full
list of hazards, with lines and the properties that watch each one, is under
`hazards` in `PROJECT.json`.

## Modules

**Consent** is the desk. `desk[n]` is the ceremony under nonce `n` (or a free
slot), `now` the wall clock, which may step backwards. Each call applies the
expiry first (`Expire`), as the code does, and is split into the call that
succeeds and the calls that return an error, which still expire. `proved` and
`taken` are histories: when an approval was proved, how often an answer was
collected. A passphrase is right or wrong; a request is an operation, a set of
credentials and a binding.

**Policy** is the approvals: three sets and one operator, `Consider`, in the
code's order (trust, lockdown, grants).

**Agent** instantiates both (`Desk == INSTANCE Consent`, `Approvals == INSTANCE
Policy`) and adds the session, the prompts, the signal channel, `status.json`
and the serve loop. A request is one action, guarded by the peer whose line is
being read; the environment (`Tick`, `HostEvent`, `CliRekey`, `CliWrite`) may
step at any time, also between the loop's checks and the request.
`PasskeyCollect` is two actions, because the answer leaves the desk before the
session is looked at. `Publish` succeeds or fails; where it fails decides what
the request left behind. A request that writes the vault takes its lock with a
`flock` that has no time limit: where another process holds it (`CliHolds`,
`CliWrite`), the thread waits (`WaitForLock`, phase `waiting`), nothing is
drained or expired meanwhile, and the request goes on when the lock is free. The
capability a secret or a code is asked under is the caller's choice (`Asked`),
also one that belongs to a daemon. `paid` and `out` are histories: what the
passphrase was typed for, and what the last request handed out.

Kept out of Agent: the reason of a lock (only reported), the relying party
(there is one), `Approvals::trust` (no request calls it; Policy checks it),
the breach-exposure cache (in Hygiene), the parsing of drafts (in Exchange). The
two clocks of the code,
monotonic for deadlines and wall for ceremonies, are one here; Consent alone
lets the clock step back. Requests that only read behave like `Read`.

**VaultStore** is the file and its writers. A version is known by its inode,
and inodes are not reused; a handle is what was read plus the stamp `seen`.
Every line of `save`, `refresh` and `finish_unlock` that touches a file is a
step of its own: stat, read, stamp, modify, check, rename, restamp, load and
store the witness. Processes die anywhere (`Crash`) and writes fail
(`WriteFails`, `ModifyFails`). `truth` is the history of what the completed
writes should have left; `lapses` records the three ways the code is known to
leave that path: `blind`, a stamp was taken of a file that had not been read;
`dirty`, a change that failed stayed in the agent's handle; `unlocked`, a save
was made without the lock. The properties name the lapses they need absent, so
they say both that nothing else loses a write and which lapse costs what. A CLI
command that asks for a passphrase with the lock held waits in `prompt`.

**AuditLog** is the log. The digest of an entry is represented by the facts it
covers, so equal digests mean equal prefixes (a hash without collisions).
Appends crash before, in and after the line; damage cuts, edits or removes, and,
since the digest has no key, may chain the lines anew (`Rehash`): `forged` names
the facts such a rewriting hid. The sidecar, which the same writer could edit
too, is left alone: with it rewritten there is nothing the check could tell.

**SleepWatch** is the watcher thread against a bus that answers calls in order
into the same stream as signals, refuses a match, breaks, and gives logind a
new unique name on every start. Assumed of the bus (external): unique names
are not reused and replies to one caller are in order. A message addressed to
the connection reaches it whatever it subscribed to, and `run` looks neither at
the sender of a `NameOwnerChanged` nor at the name it is about: a change of owner
that is not the bus's, or of another name, is believed like any other, and
`misled` says that the last one believed was such. The configuration without a
sender, which only tests use, is not modelled.

**SecurityKey** is the virtual key's thread against programs that have the
device open, a kernel queue that drops what it has no room for, and an agent
that answers, refuses or is lost. A message is a number and a length in
reports; its bytes are its fragments, so that a message put together from the
wrong reports can be told from one that was sent. `Push` is the reassembler's
decision in the code's order of checks; `Recv` is one turn of `run` with the
answer it gives, and a request that needs the agent goes on through `List`,
`Begin`, `Collect`, `StopWaiting` and `Withdraw`, during which no report is
read. What `cbor.rs` and `authenticator.rs` tell apart is the kind of a request:
answered at once, or one of three ceremonies. The model starts where channel
numbers are about to wrap. Keepalives are left out, except that one that cannot
be sent ends the wait.

**SshDaemon** is the accept loop and its threads. What a thread does is a
record of `conn`; the vault agent is what the daemon sees of it: open, locked
or gone, the keys, the ones granted, the prompts. A person, a lock and a
restart (`World`, `Restart`) may come between any two asks of `AskSigned`,
`AskPending`, `AskFailed` and `AskUnreadable`. An ask that fails for its asker
may still be served when its turn comes (`overdue`, `ServedLate`). `forsaken`
names the prompts whose last waiter was failed and so did not take them down.

**SecretService** serves several applications at once. Every question a call
puts to the agent is a step: `CreateItem` lists first (`ListForCreate`),
chooses with `ReplacementTarget`, then stores (`PutNew`, `PutOver`);
`GetSecrets` reads item after item; a read that needs approval sleeps, asks
again and dismisses. An ask may be refused or time out although the vault is open
(`AskRefused`): the reader then bails without a dismissal, and its request may be
served afterwards. `clobbered` and `twinned` record what stores did to items
of other attributes and of equal ones.

**Browser** follows a request from Chromium through the extension's worker, the
ceremony page whose port keeps the worker alive, and one native host for each
ceremony, to the desk and back. `TearDown` takes the worker's maps away;
`HostWait` counts the host's polls up to its ceiling. Begin, collect and cancel
may fail or time out at the host (`HostBegin`, `HostCollectFails`, `HostCancel`)
with the ceremony on the desk, or put there later (`ServedLate`); `missed` names
the ceremonies nobody was left to withdraw.

**Clipboard** is the command, the helper, the helper's timer thread and the
compositor's one selection. `serving` and `armed` are the code's atomics, so
the timer's check and its clear are two steps (`TimeUp`, `Clear`), and so are
the report and the delivery (`Report`, `Deliver`). The compositor may not take
the clearing, which the code does not look at: `stuck` names those copies.

**Backup** is the log of copies and two concurrent `cmd_backup`s, each of which
may stop between moving the old copy aside, copying, checking and recording.
Copies have one size because the vault is padded, so a copy that is not what
the log says can look right: `spoiled` and `rewound` are what no check by size
can see.

**Recipients** is who can open what: keys, wraps and MACs are free
constructors, so `Unlock` and `UnlockWithRecovery` open exactly what was sealed
for them. `Mixed` and `Replace` put files on the disk that are older or made of
two versions.

**SecMem** is the arena. A granule remembers who wrote it, a slab its free
ranges as the code keeps them; `Grow` takes the new range before it gives the
old one back (`Leave`), and the kernel may refuse a lock (`Kernel`): the counters
of what is locked and what is not are to follow.

**Passkeys** reads a host as its labels from the top level down and translates
the relying-party checks of both lanes; the public suffix library is external.
A credential is minted by one lane and used by either.

**Generate** is validation, character sets and rejection sampling on words of
`Width` bits, kept as counts and not logarithms.

**Hygiene** is the report and the cache of exposure verdicts in the open vault.
A fetch may fail (`GiveUp`, `MatchRanges` without a bucket), and an update may be
refused after it has set the field in memory (`UpdateFails`); `behind` names the
fields replaced where no code clears the verdict.

**Exchange** writes two records in one of the program's formats, reads the file
with the character-by-character CSV reader or the JSON readers, and stores what
comes out, directly or as drafts through the agent. Texts are sequences of the
character classes the code tells apart. Other programs' items are read by the
same actions.

**MCFrontEnds** puts SshDaemon, SecretService, Browser and Clipboard into one
run, **MCLibrary** AuditLog, Policy, Backup, SecMem, Recipients, Passkeys,
Generate, Hygiene and Exchange. The parts share no state, so a behaviour is one
of one part, chosen at the start. **MCConsent**, **MCAgent**, **MCSecurityKey**
and **MCVaultStore** give constants and symmetry sets; the modules named
**...Proofs** hold the theorems.

## Runs

| run | states | what it shows |
|---|---|---|
| consent | 120,354 | no order of registrations, answers, guesses, collections, expiries and clears yields an unproved approval, a second collection or a guess too many |
| agent_reads | 271,200 | two processes and one login: every secret was paid for, in this session, whichever capability the caller names (`ServedRightly`), and no approval serves anything in lockdown (`LockdownServesNoApproval`); every step is a call of Policy's approvals (`ApprovalsRefined`) |
| agent_daemons | 280,960 | an SSH key and a Secret Service item, beside a process that may keep the vault's lock: a lock forgets everything; a delivered suspend locks and no session survives its ceiling, unless the thread waits for that lock for ever |
| agent_passkeys | 260,912 | every signature was paid for in this session, `status.json` tells the truth, and every step of the agent is a step of Consent's desk (`DeskRefined`) |
| suspend_watch | 706,666 | the watcher never believes a dead name and never disbelieves logind, unless it threw a change of owner away or believed one that was not the bus's (`LogindKnown`); it always gets back to watching, and a suspend that reaches it there reaches the agent |
| store | 2,758,527 | a write is lost (`WritesSurvive`), or a retired key comes back, only through a named lapse; no path leaks the lock or lets two locked writers in; the witness raises no false alarm |
| security_key | 160,133 | no message is assembled that was not sent and no answer goes to another request (`MessagesFit`), no prompt outlives its request, every program that waits is answered |
| front_ends | 89,804 | SSH: a prompt is up only while somebody waits for it, a slot comes back however its thread ends (`NothingLeaks`), every signer is answered. Secret Service: unlike items are never stored over each other, twins come only of overlapping or unlisted stores (`ItemsKeptApart`), every call is answered. Browser: a ceremony waits on the desk only while its request is wanted, every request with a port settles. Clipboard: a copied secret leaves. Each names the failures after which it does not |
| library | 878,292 | one or two properties for each part: an untouched log is never accused, an intact one is true but for lines chained anew, and a cut is seen until a head is recorded again; lockdown admits no exception, and only an explicit yes makes an approval; what is called backed up is in a copy; ranges tile the arena, bytes are kept, wiped bytes stay wiped and the posture report is true; exactly the current holders open a file, and what opens is one saved version; a passkey signs only for its owner's hosts; the strength shown is the exact count of equally likely values; exposure and reuse are reported as they are; an exported record comes back; what the import takes for a secret of another program stays one |

Bounds. Two clients, items and capabilities tell "this one" from "another one",
which is all Policy and the grants distinguish. One ceremony more than the desk
has room for, and TTL 2, let a ceremony expire before, during and after its
answer. `Idle`, `MaxSession` and `MaxNow` are 2, 3 and 4 for the reads and 1, 2
and 3 for the daemons and passkeys, so that either deadline can pass first; the
reads name a capability of the requests (`reveal`) and one of a daemon
(`ssh-sign`), and the reason of a lock, which is only reported, is one of two
there and one elsewhere; another process may keep the vault's lock (`LongHolds`)
where liveness is asked, and gives it back at once elsewhere; one fault and one
signal suffice because the properties compare the state before and after a
single one. The front ends have three ssh processes on two slots with one key,
two applications with two items, two requests, and two copies of which one is
never cleared: enough for a waiter to leave while another stays, for a stale
list to be stored from, and for a newer copy to meet an older timer. A wait is
one or two polls, since every poll does the same. The library's bounds are the
smallest at which its mutants show: two slabs of three granules for two buffers
of up to four (one larger than a slab) beside the session key; two vaults, two
paths and two backup commands with one copy kept; two passphrases and two labels
with five draws of a random value; every host of a tree with a two-label and a
wildcard suffix; requests of up to four symbols over classes that exclude
look-alikes; records that hold every kind of character the formats treat
specially. The store has the agent, one CLI process, two records and two saves:
one version read, overtaken and overwritten. Five facts and two acts of damage
allow a cut, an append after it and a further cut. The watcher sees three
events, two breaks and two owners. The security key has two programs with two
messages of up to three reports, one place in the table and one in the kernel's
queue, so that reports are refused and lost, and sequence numbers that run to
the end of their range (`SeqMod` 2, as 128 is to the longest message); its
invariants also hold with a longer queue and with three messages, in runs too
long to keep.

`CHECK_DEADLOCK FALSE` is set where the system may stop: the watcher with
nothing left to read, the audit log when its bounds are used up, and the key
once its device is gone, and the front ends and the library's parts when their
bounds are used up or nobody asks anything.

Fairness. Agent: the loop, `accept` with its 120 ms sleep and the read with its
three-second timeout return, and so does a dispatched request that needs no
lock, so `LoopPass`, `Accept`, `Dropped` and `Sign` are weakly fair. A request
that waits for the vault's lock goes on if the lock stays free (`Resume`);
nothing is assumed of the process that holds it, nor of peers. `SignalLocks` and
`CeilingEnds` therefore hold with the reserve `Wedged`, that the thread waits
for ever, and the run `agent_wedged` shows that the reserve is needed.
SleepWatch: the thread runs and the bus answers; events and breaks are bounded
by the model, never assumed away. The code has no timeout on the question about
its own session, so a logind that never answers it would stop the watcher, and
the liveness properties do not cover that. `SuspendHeard` is about a connection
that was not misled, with no change of owner in front that is not the bus's.
SecurityKey: the thread runs and `CEREMONY_TIMEOUT` passes, and a program that
has begun a message writes it and reads what it is told; nobody has to answer a
prompt, and the agent may be lost or not. Front ends (MCFrontEnds): a thread or
call that the daemon runs goes on, because the agent's answers have a socket
timeout, after which the question has failed, and the sleeps end (`Ssh!Serve`,
`Secrets!Serve`); the native host and the worker run (`Web!Hosts`, `Web!Works`;
that a collect fails is never bound to happen); the helper and its timer run
(`Clip!Helps`, `Clip!Times`). Nothing is assumed of people, peers, Chromium or
the compositor's other clients. Liveness is checked without symmetry.

### Where the code and its documents disagree

Three runs are expected to be violated; each checks one sentence of the
repository, quoted under `findings`:

* `store_stamp`: the stamp is taken after the read, so a write that lands in
  between is silently overwritten by the next save;
* `agent_wedged`: `Add`, `Update`, `Delete`, `SecretPut` and `SshGenerate` take
  the vault's lock without a time limit on the agent's one thread, and `rekey`
  and `remove` hold it while their human types (`main.rs:892`): a suspend
  delivered meanwhile locks nothing, which `session.rs:2816` says of a
  connection that no wait may do;
* `import_restore`: with the vault open, an import goes through drafts, which
  carry neither a passkey's configuration nor a secret that is not text, so the
  program's own export does not restore everything it holds.

Others were met while modelling and have no run of their own. They are in the
models, where a property names them as its exception or an action takes them.

The agent and its files:

* PasskeyBegin, PasskeyAnswer and PasskeyCollect never ask the approvals, so a
  passkey is signed under lockdown (`session.rs:1749`; `policy.rs:135` says
  nothing is served then);
* the same comment excepts clients on the always-allowed list, and `Consider`
  asks that list first, but there is nobody on it in lockdown: `set_lockdown`
  empties it (`policy.rs:202`) and `trust` refuses (`policy.rs:213`), as the
  comments there say. The exception is empty, so `LockdownDeniesAll` states
  none;
* one append after a cut records the shorter log's head, and the cut is never
  reported again (`audit.rs:197`; `audit.rs:24` speaks of removing silent
  truncation);
* the digest of a line has no key (`audit.rs:145`), so a line that was edited and
  chained anew passes once an append has recorded a head over it; the comment
  that chaining "makes quiet edits impossible" holds only of the digests;
* a code served on a remembered approval leaves no audit line
  (`session.rs:1592`; `policy.rs:20` speaks of every use);
* `SecretGet` with a passphrase leaves its item among the waiting prompts
  (`session.rs:2226`), as `SshSign` does not;
* processes that cannot be identified share the client key `pid:0`
  (`session.rs:1485`, `policy.rs:90`);
* a ceremony refused by its last wrong guess is not published
  (`session.rs:1927`);
* `Touch` in flight at the idle deadline revives the session
  (`session.rs:1425`); the ceiling still ends it;
* a new passkey is saved without the lock (`session.rs:2500`), lapse
  `unlocked`;
* a failed update, import or write stays in the agent's memory and is saved by
  a later request (`session.rs:1678`), lapse `dirty`;
* the witness file is shared, so a saver of another vault can write back an
  older witness of this one (`vault.rs:995`);
* what arrives while the watcher waits for a reply is thrown away
  (`sleepwatch.rs:397`): a suspend, or a change of owner, after which it stays
  pinned to a name nobody owns (`sleepwatch.rs:216` says it does not); a
  `NameOwnerChanged` is believed whoever sends it and whatever name it is about
  (`sleepwatch.rs:289`; `sleepwatch.rs:458` checks the sender of the others),
  after which logind's own suspend is taken for somebody else's; and its retry
  delay is not reset by a healthy connection (`sleepwatch.rs:144`);
* with reports lost, a program that gives up half a message and goes on using
  its channel can have its next message's tail joined to the old head
  (`hid.rs:16`): the new head is refused as busy, its continuations are taken;
* a CTAPHID CANCEL is read only after the ceremony it is meant to cancel has
  ended (`uhid.rs:596`), and a program that hangs up is noticed only when a
  keepalive cannot be written;
* an exclude list is taken as "nothing held" when the agent is locked or
  unreachable (`uhid.rs:436`), so a vault opened right after can be given a
  second passkey for the account.

The front ends:

* the Secret Service's `SetSecret` and `Delete` report success when the agent
  answered with an error; `create_item` takes a failed search for "nothing
  found"; two stores that overlap leave twins; objects of deleted items are
  never unregistered; `GetSecrets` reads its items one after the other, each
  with a wait of its own below D-Bus's 25 s, together above it;
* an SSH or a Secret Service prompt stays until it is answered or the vault locks
  when an ask or the dismissal of its last waiter fails: `read_with_approval`
  bails on an error without a dismissal (`secretservice.rs:576`), and an ask that
  timed out at the client is still served by the agent, which then puts the
  prompt up for nobody;
* the native host leaves the ceremony on the desk at its own ceiling, and after a
  begin, a collect or a cancel that failed (`passkey_host.rs:205`, `282`; the
  worker swallows a failed cancel, `sw.js`); a cancel that comes before begin was
  answered is lost, and a worker torn down after its page was closed leaves the
  ceremony to the host;
* a clear the compositor refuses is ignored, and the secret stays on the clipboard
  (`clipboard.rs:242`);
* the clear timer checks that the helper still serves and then clears, so
  another program's copy can be wiped in between (`clipboard.rs:27` says it
  never is); the report is made before the delivery, so a delay that has passed
  by then clears nothing.

The library:

* a push trims the vault of the entry with the latest time, which after a step
  back of the clock is not the one just pushed (`backup.rs:171`); a
  path used for two vaults leaves a stale entry; a copy moved aside is named to
  the second; the log is loaded and saved without a lock; a copy deleted and
  followed by an older one at its path revives the entry;
* removing a recovery recipient does not change the data key; adding one saves
  the vault before the key file is written;
* `passkey.rs:173` says the public suffix list is not consulted; it is;
* SecretPut and a refresh leave the verdict on a value they replaced
  (`session.rs:1699` clears it for Update), and so does an Update that is refused
  at its code or its validation after it set the password in memory
  (`session.rs:700`, `752`, `791`): until the next refresh or lock the new value
  is reported under the old verdict;
* KeePassXC export keeps "the kind, every attribute and every extra secret
  field" by its comment, but not `account`, blanks at the end of a value, a
  kind's missing primary field, tags with a slash, an issuer with a colon, notes
  that hold the marker, or values that begin with a quote and a formula sign; a
  relayed CXF drops the code's algorithm; a note's text is in `body` and only
  `notes` is exported; an identity's second and third numbers are dropped
  (`import.rs:885`), as is a code's secret in a CSV that cannot be decoded, and
  a column no reader knows becomes a plain attribute; `ForeignKept` is of the
  secrets the import takes for such; two custom fields of a Bitwarden item that
  end under one name overwrite each other; an import stopped in the middle stays
  in the agent's memory, to be saved later.

## Proofs

Every theorem is of the specification as the runs check it, for every value of
the constants its named assumption allows; the prover is TLAPS. Each rests on
an inductive invariant, which TLC checked on the run's instance before it was
proved.

`ConsentProofs` proves the desk's invariants for every set of nonces, peers and
requests and every `TTL`, `MaxPending` and `MaxAttempts` (`ConsentAssumption`).
The inductive invariant `IInv` says of each nonce alone that its ceremony is
*good*: typed, its guesses below the limit while it waits, its answer proved
in time and among the credentials offered, its collections counted. Since every
call rewrites one nonce and sweeps the others, `OneChanges` reduces each action
to one ceremony, and `SweptGood` handles the sweep. `ApprovedIsProved` is not
inductive alone: that an approval was proved in time needs the types and the
state of the ceremony it was given to. The types themselves (`TypeCorrect`:
among them, that a free slot keeps nothing of the ceremony it held) are proved
there and not run. `DeskBounded` adds the finiteness of
what the desk holds; `Frozen` is an action property proved case by case.

`AgentProofs` (`AgentAssumption`: the desk's, and natural timeouts) first proves
the refinement `DeskRefined`: `RequestDesk` says for each request which call of
the desk it makes, and `DeskPromises` carries the desk's theorems over to the
desk inside the agent. It then proves `ApprovalsRefined`, that every step is one
call of `policy.rs` or none. A restart would be two, forgetting the approvals
and ending the lockdown, had the process not locked before it ended
(`ExitedLocked`), so the refinement rests on the invariant. The agent's own
invariant is that approvals in force, ceremonies approved and the one being
signed were *paid* since the last lock, that nobody has blanket trust (no
request gives it), and that a locked agent holds nothing. `ServedRightly` is not
inductive without the first two, nor they without the third: what an unlock
finds is what the lock left. `LockdownHolds` is `LockdownServesNoApproval`: a
ceremony is not an approval and is served in lockdown too. `StatusIsTrue` adds
that the desk's sweep only takes ceremonies away from the ones the document
listed.

`FrontEndsProofs` (`FrontEndsAssumption`: finitely many peers) has one invariant
for each front end. For the SSH daemon: prompts and grants are apart, a locked
vault has no prompts, and the count of connections is the number of its threads.
For the Secret Service: every call knows only items that were made, and a store
about to make one leaves a twin only where that is explained. For the browser
host: a page's request, its job and its ceremony are at steps that fit. They carry
the histories of the failures that leave a prompt or a ceremony behind. The
composed run's parts share nothing, so each invariant is kept by the other parts'
steps. Of the clipboard nothing is proved.

`LibraryProofs` (`AuditAssumption`) proves of the audit log that a verdict of
`verify` is true for a log of any length, any number of torn lines and any
cuts, edits and removals of a line, and of lines chained anew except what that
hid (`forged`). A line's digest is over earlier facts only (`Entry`), and a line
knows of every line before it (`LaterKnows`), which no damage disturbs; so where
nothing can be said against a prefix its digest is over what it holds
(`WholeIsTrue`).

Of Passkeys it proves `OneOwner` for any hosts and any list of public suffixes
(`PasskeyAssumption`: a host is a sequence of labels). That a credential's name
is a registrable suffix of the host it was minted for, and of each it signs for,
is inductive (`PassInv`). The work is in `SameOwner`: a name and a host under it
have one registrable domain. The rule that governs a host is the longest suffix
on the list that ends it (`SuffixIsLongest`), and a longest and a least exist by
the least-number principle (`Least`, `Greatest`), the instance of well-founded
induction the prover can use.

Of Recipients it proves `HoldersOpen` and `OpenedWasSaved` for any passphrases,
labels and numbers of saves and mixtures. `KeysInv` says that every saved file
*serves* those it was written for: each recipient's wrap holds the file's key,
sealed for the passphrase of the time or for one of the keys on the list, every
key on the list has a recipient, and no two recipients have one label
(`LabelsDiffer`); that the file on the disk carries the MAC of a saved one,
whatever it was mixed from; and that an open handle serves its holders the same.
No two recipients have one label, so the first with a label, which
`RemoveRecipient` takes out, is the only one, and is all that `retain` would
drop.

Of the approvals it proves that lockdown is total. `Consider` asks about trust
before lockdown, so the property rests on `NoTrust` (no client is trusted under
lockdown), which `SetLockdown` establishes and `Trust` keeps. `OnlyAYes` is the
action property from the same invariant.

Of Backup it proves `BackedUpIsTrue` for any vaults, paths, commands and number
of copies kept (`BackupAssumption`: epochs and times are counted from 1). What
once lay at a path is *lasting*: it is there, beside it, lost, or nobody can
tell (`Lasting`), and no step ends that (`Lasts`). `BackInv` says so of every
entry of the log, of every entry a command loaded before the others went on, and
of a command's own copy from its check on; and that a lost copy shows, by its
absence or its size, unless the path is spoiled (`LostIsSeen`). That an entry
`push` keeps is one it was given (`PushAdds`) is shown by the rank of its place.

Of Hygiene it proves `ReportIsTrue` (`HygieneAssumption`: a draft has a value
and is not old). `HygInv`: a verdict is kept of a checked field only, what was
found in a bucket has one, and it is wrong only of what was replaced behind it,
an update refused half-way included.
The demerits are a sum over a set, so that a part is at most the whole
(`SumCovers`) is shown of a smallest counterexample.

`ArenaProofs` proves the whole of SecMem's `ArenaIsSound` (`MemoryAssumption`: a
slab and a page have a size, and the key's buffer is not the program's) for any
number of buffers and slabs and whatever the kernel refuses. `Sound` says of
every slab that its free ranges and the places in it are pairwise apart and
cover it, that a place holds what its buffer wrote, and that all else is zero. A
place a buffer is leaving may be full of bytes, which is why a buffer that grows
is taken in two steps (`LeftBehind`, then an allocation). A slab of its own has
one place and one live buffer (`LiveOne`), or `arena_free` would unmap a slab in
use. First fit and the merge on release are shown for one slab (`AllocTiled`,
`ReleaseTiled`) and carried to the arena, where all but one slab stand still
(`SoundOne`). That the counters of locked and of refused bytes are the sums over
the slabs of either kind rests on `SumRest`: a sum is what any element adds to
the rest, not only the one `CHOOSE` takes first.

`VaultStoreProofs` (`StoreAssumption`) proves for any number of processes that
what was written stays, that the witness accuses no honest history, and that a
re-key is not undone. The invariant says who may be past the lock, that versions
and keys are numbered in the order they were made, that a handle whose stamp is
the file's is not behind it, and, without lapses, has its records. The window
between the stat, the read and the stamp is why it speaks of what was *read*
(`buf`) and not only of what is held.

`SleepWatchProofs` (`WatchAssumption`) proves `LogindKnown`. What the watcher
knows lags behind the bus by the unread messages, so the invariant says that
there is a chronicle of logind's owner along the stream, that every message fits
it, and that the watcher's belief, brought forward along the genuine changes,
is logind's owner unless it was misled.
`TypeOK` is proved on the way.

`SecurityKeyProofs` (`KeyAssumption`) proves that no prompt outlives its request
(`PromptWithdrawn`), that nothing is signed that was not approved for that very
message, and, in `MessagesStayApart`, the whole of `MessagesFit` for any number
of programs, lengths, open channels and reports in the queue. Its invariant
`WireInv` follows a message along its way: every program has a channel of its
own and the next one it is given was never used (`Channels`); on a channel not
used on after a message was given up, what follows a request's first report
belongs to that request, in order, and is still to come after what the table
already holds (`Wire`); and a program has one request under way, on the wire, in
the table, before a human or answered (`OneAtATime`). No sequence number is
needed to tell two programs' fragments apart, only to notice a lost one. The
theorem assumes `Roomy`: there are programs, and `MaxMsg + Cardinality(Client) <
Broadcast`, so that the channel numbers, which wrap around once at the start, do
not come round again to a channel in use. The key has 2^32 - 2 of them and hands
one out for each INIT; the run's constants satisfy `Roomy`. The proof has one
lemma for each outcome of `Push` (`Pushed`), one for what taking a report does
to each part of the invariant (`Taken...`), one for writing a report (`Put...`)
and one for a program that stops waiting (`RestKeeps`).

Only model-checked:

- liveness (`SignersAnswered`, `CallsAnswered`, `RequestsSettle`,
  `SecretLeaves`, `EveryoneAnswered`, `SuspendHeard`, `Recovers`, `SignalLocks`,
  `CeilingEnds`): out of the prover's reach;
- `MessagesFit` once the channel numbers come round again to channels in use;
- `FigureIsExact`: it counts the passwords a rejection sampler can give, as
  products over a recursion on the length;
- `RoundTrip` and `ForeignKept`: what Exchange's readers compute is recursion over
  the text, and induction over data cannot be instantiated in the prover.

## Plan

The model and its proofs are complete as far as they will go: what is left is
what `Only model-checked` lists.

## Not modelled

Cryptography is assumed to work: a sealed file opens with its key, a MAC does
not match by accident, a digest has no collision. Byte formats (D-Bus
marshalling, CBOR, the SSH wire format, native-messaging framing, padding) are
left out: the models tell their contents apart. So are one-time codes (one
formula over HMAC, fixed by test vectors), the migration of older vaults
(a reader used once), process hardening (one-shot system calls), wording,
grades and the strength estimator of the hygiene report, and the user
interfaces. The composition of the agent with the store, and of the watcher
with the agent, is left to the properties on either side of the boundary: their
product is beyond TLC. `components` gives the reason for each part.
