---------------------------- MODULE MCFrontEnds ----------------------------
(***************************************************************************)
(* The front ends of the vault agent, checked side by side: the SSH daemon,*)
(* the Secret Service, the browser's host and the clipboard.  They share   *)
(* nothing with each other, so a behaviour is one of exactly one of them,  *)
(* chosen at the start, and the others stay as they began.                 *)
(***************************************************************************)
EXTENDS Integers, FiniteSets

CONSTANTS
    Peer, Key, MaxLive, Patience, SshTurns,
    App, MaxItem, MaxSession, AppTurns,
    Request, Ceiling, Beat,
    Copy, Forever, MaxOther

\* There are only so many processes, and limits are numbers.
ASSUME FrontEndsAssumption ==
    IsFiniteSet(Peer) /\ MaxLive \in Nat /\ MaxItem \in Nat

VARIABLES
    which,
    live, conn, sshVault, keys, sshGranted, sshPrompts, sshOverdue, sshTurns, sshForsaken,
    sessions, opened, call, vault, store, made, granted, prompts, overdue, turns,
    clobbered, twinned, forsaken,
    chrome, jobs, ceremonies, page, work, host, polls, desk, cancels, missed,
    caller, helper, serving, armed, timer, selection, others, late, stuck

\* The attribute sets of two applications, one a subset of the other's.
Attrs == {{}, {"xdg:schema"}, {"xdg:schema", "user"}}

Ssh == INSTANCE SshDaemon WITH
    vault <- sshVault, granted <- sshGranted, prompts <- sshPrompts, overdue <- sshOverdue,
    turns <- sshTurns, forsaken <- sshForsaken, MaxTurns <- SshTurns
Secrets == INSTANCE SecretService WITH MaxTurns <- AppTurns
Web == INSTANCE Browser WITH live <- ceremonies
Clip == INSTANCE Clipboard

sshVars == <<live, conn, sshVault, keys, sshGranted, sshPrompts, sshOverdue, sshTurns, sshForsaken>>
appVars == <<sessions, opened, call, vault, store, made, granted, prompts, overdue, turns,
             clobbered, twinned, forsaken>>
webVars == <<chrome, jobs, ceremonies, page, work, host, polls, desk, cancels, missed>>
clipVars == <<caller, helper, serving, armed, timer, selection, others, late, stuck>>
vars == <<which, sshVars, appVars, webVars, clipVars>>

Init ==
    /\ which \in {"ssh", "secrets", "web", "clip"}
    /\ Ssh!Init /\ Secrets!Init /\ Web!Init /\ Clip!Init

OnlySsh == which = "ssh" /\ UNCHANGED <<which, appVars, webVars, clipVars>>
OnlySecrets == which = "secrets" /\ UNCHANGED <<which, sshVars, webVars, clipVars>>
OnlyWeb == which = "web" /\ UNCHANGED <<which, sshVars, appVars, clipVars>>
OnlyClip == which = "clip" /\ UNCHANGED <<which, sshVars, appVars, webVars>>

Next ==
    \/ OnlySsh /\ Ssh!Next
    \/ OnlySecrets /\ Secrets!Next
    \/ OnlyWeb /\ Web!Next
    \/ OnlyClip /\ Clip!Next

\* Threads, tasks and processes that can go on do; nobody need connect, call,
\* approve, look at the deck or copy anything.
Fairness ==
    /\ \A p \in Peer : WF_vars(OnlySsh /\ Ssh!Serve(p))
    /\ \A a \in App : WF_vars(OnlySecrets /\ Secrets!Serve(a))
    /\ \A r \in Request : WF_vars(OnlyWeb /\ Web!Hosts(r)) /\ WF_vars(OnlyWeb /\ Web!Works(r))
    /\ \A c \in Copy : WF_vars(OnlyClip /\ Clip!Helps(c)) /\ WF_vars(OnlyClip /\ Clip!Times(c))

Spec == Init /\ [][Next]_vars /\ Fairness

----------------------------------------------------------------------------
\* The properties, each stated and explained in its module.

\* A prompt for a key or an item is on the deck only while some program waits for
\* it, but for the prompts a failure left, and a thread of the SSH daemon that ends
\* gives its place back.
NothingLeaks == Ssh!PromptIsWanted /\ Ssh!SlotsComeBack /\ Secrets!ReadPromptIsWanted

\* Every ssh that asks for a signature is answered.
SignersAnswered == Ssh!SignersAnswered

\* A store of the Secret Service overwrites only an item with its attributes, and
\* items with the same attributes come only from stores that overlapped, did not
\* mean to replace or could not list.
ItemsKeptApart == Secrets!ItemsKeptApart

\* Every call of the Secret Service is answered.
CallsAnswered == Secrets!CallsAnswered

\* A passkey ceremony waits on the desk only for a request Chromium waits for,
\* is about to be withdrawn, or could not be.
CeremonyIsWanted == Web!CeremonyIsWanted

\* A passkey request whose page stays open is answered or cancelled.
RequestsSettle == Web!RequestsSettle

\* A secret that shall be cleared leaves the clipboard, unless the clearing failed.
SecretLeaves == Clip!SecretLeaves

============================================================================
