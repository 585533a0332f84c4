----------------------------- MODULE SshDaemon -----------------------------
(***************************************************************************)
(* The SSH agent daemon (blackbag-cli/src/ssh_agent.rs, the protocol in    *)
(* blackbag-core/src/ssh/agent.rs): a thread for every connection, which   *)
(* answers each request by asking the vault agent and, on the first use of *)
(* a key, asks again until the person has answered or the wait is over.    *)
(*                                                                         *)
(* The vault agent is here what the daemon sees of it: whether it answers  *)
(* and is unlocked, the keys it holds, the ones granted for signing and the*)
(* prompts it shows.  Agent.tla models it in full.  Time is counted in the *)
(* polls of a wait; APPROVAL_WAIT is Patience of them.                     *)
(***************************************************************************)
EXTENDS Integers, FiniteSets

CONSTANTS
    Peer,        \* ssh processes, each with at most one connection
    Key,         \* the keys the vault may hold
    MaxLive,     \* MAX_CONNECTIONS
    Patience,    \* polls until APPROVAL_WAIT is over
    MaxTurns     \* bound on failures and the acts of the person and the host

VARIABLES
    live,        \* the counter the accept loop keeps
    conn,        \* each peer's connection: its thread and what that is doing
    vault,       \* "open", "locked" or "gone" (nobody listens)
    keys,        \* the SSH keys in the vault
    granted,     \* the keys approved for signing in this session
    prompts,     \* ssh_pending: the keys the deck asks the person about
    overdue,     \* keys whose ask failed and which the agent may yet come to serve
    turns,       \* how often the world moved
    forsaken     \* history: prompts whose last waiter could not withdraw them

vars == <<live, conn, vault, keys, granted, prompts, overdue, turns, forsaken>>
agentVars == <<vault, keys, granted, prompts, overdue, turns>>

\* at: no thread; reading the next message; asking the vault; sleeping between
\* two asks; taking the prompt down.
NoConn == [at |-> "none", key |-> "none", polls |-> 0, hung |-> FALSE]
Waiting(c) == c.at \in {"ask", "sleep", "dismiss"}
Waiters(k) == {p \in Peer : Waiting(conn[p]) /\ conn[p].key = k}

Init ==
    /\ live = 0
    /\ conn = [p \in Peer |-> NoConn]
    /\ vault = "open" /\ keys = Key /\ granted = {} /\ prompts = {}
    /\ overdue = {} /\ turns = 0 /\ forsaken = {}

----------------------------------------------------------------------------
(* The accept loop and the threads it starts.                              *)

\* serve: at the ceiling the newest connection is dropped.
Accept(p) ==
    /\ conn[p].at = "none"
    /\ IF live >= MaxLive
       THEN UNCHANGED <<live, conn>>
       ELSE /\ conn' = [conn EXCEPT ![p] = [NoConn EXCEPT !.at = "read"]]
            /\ live' = live + 1
    /\ UNCHANGED <<agentVars, forsaken>>

\* The thread ends, whatever ended it: Guard counts it down.
End(p) ==
    /\ conn' = [conn EXCEPT ![p] = NoConn]
    /\ live' = live - 1

\* read_message finds the peer gone between two requests, or a message whose
\* length is out of range, or one cut short.
Finish(p) ==
    /\ conn[p].at = "read"
    /\ End(p)
    /\ UNCHANGED <<agentVars, forsaken>>

\* The answer is written; writing to a peer that hung up ends the thread.
Reply(p) ==
    IF conn[p].hung
    THEN End(p)
    ELSE /\ conn' = [conn EXCEPT ![p] = [NoConn EXCEPT !.at = "read"]]
         /\ UNCHANGED live

\* respond, when it answers at once: identities with the keys the vault offers,
\* none if it is locked or gone; FAILURE for a request that does not parse, that
\* has bytes left over or is of any other kind.
RespondNow(p) ==
    /\ conn[p].at = "read" /\ ~conn[p].hung
    /\ Reply(p)
    /\ UNCHANGED <<agentVars, forsaken>>

SignRequest(p, k) ==
    /\ conn[p].at = "read" /\ ~conn[p].hung
    /\ conn' = [conn EXCEPT ![p].at = "ask", ![p].key = k, ![p].polls = 0]
    /\ UNCHANGED <<live, agentVars, forsaken>>

\* ssh is interrupted: the thread notices at its next read or write.
HangUp(p) ==
    /\ conn[p].at # "none" /\ ~conn[p].hung
    /\ conn' = [conn EXCEPT ![p].hung = TRUE]
    /\ UNCHANGED <<live, agentVars, forsaken>>

----------------------------------------------------------------------------
(* VaultSigner.sign: one pass of its loop.                                 *)

\* Session.rs SshSign, as the daemon sees it: a key granted signs, one held and
\* not granted is put on the deck, anything else is an error.
Signs(k) == vault = "open" /\ k \in keys /\ k \in granted
MustAsk(k) == vault = "open" /\ k \in keys /\ k \notin granted

\* The waiter goes without an answer from the vault that would have taken the
\* prompt down.
Forsake(p) == forsaken' = forsaken \cup (prompts \cap {conn[p].key})

AskSigned(p) ==
    /\ conn[p].at = "ask" /\ Signs(conn[p].key)
    /\ Reply(p)
    /\ UNCHANGED <<agentVars, forsaken>>

AskFailed(p) ==
    /\ conn[p].at = "ask" /\ ~Signs(conn[p].key) /\ ~MustAsk(conn[p].key)
    /\ Reply(p)
    /\ Forsake(p)
    /\ UNCHANGED agentVars

\* The agent is there but its answer is not: a timed-out or refused socket, a
\* prompt noted and not published, lockdown, or a reply this build does not
\* understand.  A request nobody waits for any more is served in its turn.
AskUnreadable(p) ==
    /\ conn[p].at = "ask" /\ vault = "open" /\ turns < MaxTurns
    /\ turns' = turns + 1
    /\ Reply(p)
    /\ Forsake(p) /\ overdue' = overdue \cup {conn[p].key}
    /\ UNCHANGED <<vault, keys, granted, prompts>>

\* SshSign, served to a caller that gave up: the key is put on the deck.
ServedLate(k) ==
    /\ k \in overdue /\ MustAsk(k)
    /\ overdue' = overdue \ {k}
    /\ prompts' = prompts \cup {k}
    /\ forsaken' = IF Waiters(k) = {} THEN forsaken \cup {k} ELSE forsaken \ {k}
    /\ UNCHANGED <<live, conn, vault, keys, granted, turns>>

\* Mutant: the prompt is left on the deck.
AskPendingLeaves(p) ==
    LET k == conn[p].key IN
    /\ conn[p].at = "ask" /\ MustAsk(k)
    /\ prompts' = prompts \cup {k}
    /\ forsaken' = forsaken \ {k}
    /\ IF conn[p].polls >= Patience
       THEN Reply(p)
       ELSE /\ conn' = [conn EXCEPT ![p].at = "sleep"]
            /\ UNCHANGED live
    /\ UNCHANGED <<vault, keys, granted, overdue, turns>>

\* Mutant: the wait starts again on every poll.
AskPendingRestarts(p) ==
    LET k == conn[p].key IN
    /\ conn[p].at = "ask" /\ MustAsk(k)
    /\ prompts' = prompts \cup {k}
    /\ forsaken' = forsaken \ {k}
    /\ conn' = [conn EXCEPT ![p].at = "sleep", ![p].polls = 0]
    /\ UNCHANGED <<live, vault, keys, granted, overdue, turns>>

\* ApprovalRequired: the prompt is on the deck; give up once the wait is over.
AskPending(p) ==
    LET k == conn[p].key IN
    /\ conn[p].at = "ask" /\ MustAsk(k)
    /\ prompts' = prompts \cup {k}
    /\ forsaken' = forsaken \ {k}
    /\ conn' = [conn EXCEPT ![p].at = IF conn[p].polls >= Patience THEN "dismiss" ELSE "sleep"]
    /\ UNCHANGED <<live, vault, keys, granted, overdue, turns>>

\* thread::sleep(POLL_EVERY)
Wake(p) ==
    /\ conn[p].at = "sleep"
    /\ conn' = [conn EXCEPT ![p].at = "ask", ![p].polls = @ + 1]
    /\ UNCHANGED <<live, agentVars, forsaken>>

\* SshDismiss, best effort, and then FAILURE.
Dismiss(p) ==
    /\ conn[p].at = "dismiss"
    /\ \/ vault # "gone" /\ prompts' = prompts \ {conn[p].key} /\ UNCHANGED <<turns, forsaken>>
       \/ vault = "gone" /\ UNCHANGED <<prompts, turns, forsaken>>
       \/ /\ vault = "open" /\ turns < MaxTurns      \* the socket fails
          /\ turns' = turns + 1
          /\ Forsake(p)
          /\ UNCHANGED prompts
    /\ Reply(p)
    /\ UNCHANGED <<vault, keys, granted, overdue>>

----------------------------------------------------------------------------
(* The person and the host.                                                *)

\* ssh approve, ssh generate, the deck's dismissal and its removal of a key;
\* locks and restarts of the agent, which take every prompt and grant along.
World ==
    /\ turns < MaxTurns /\ turns' = turns + 1
    /\ \/ \E k \in keys \ granted :
            /\ vault = "open"
            /\ granted' = granted \cup {k} /\ prompts' = prompts \ {k}
            /\ UNCHANGED <<vault, keys, overdue>>
       \/ \E k \in Key \ keys :
            /\ vault = "open"
            /\ keys' = keys \cup {k} /\ UNCHANGED <<vault, granted, prompts, overdue>>
       \/ \E k \in prompts :
            /\ prompts' = prompts \ {k} /\ UNCHANGED <<vault, keys, granted, overdue>>
       \/ \E k \in keys :
            /\ vault = "open"
            /\ keys' = keys \ {k} /\ UNCHANGED <<vault, granted, prompts, overdue>>
       \/ \E v \in {"open", "locked", "gone"} \ {vault} :
            /\ <<vault, v>> # <<"gone", "open">>
            /\ vault' = v /\ granted' = {} /\ prompts' = {}
            /\ overdue' = IF v = "gone" THEN {} ELSE overdue
            /\ UNCHANGED keys
    /\ forsaken' = forsaken \cap prompts'
    /\ UNCHANGED <<live, conn>>

\* The daemon is stopped and started again: nobody is left to wait.
Restart ==
    /\ turns < MaxTurns /\ turns' = turns + 1
    /\ live' = 0 /\ conn' = [p \in Peer |-> NoConn]
    /\ forsaken' = prompts
    /\ UNCHANGED <<vault, keys, granted, prompts, overdue>>

Serve(p) ==
    \/ AskSigned(p) \/ AskFailed(p) \/ AskPending(p)
    \/ Wake(p) \/ Dismiss(p)

Next ==
    \/ \E p \in Peer :
        \/ Accept(p) \/ HangUp(p)
        \/ Finish(p) \/ RespondNow(p)
        \/ \E k \in Key : SignRequest(p, k)
        \/ Serve(p) \/ AskUnreadable(p)
    \/ \E k \in overdue : ServedLate(k)
    \/ World \/ Restart

----------------------------------------------------------------------------
\* A prompt for a key is on the deck only while some ssh waits for it, whoever
\* else timed out, hung up or was answered meanwhile, unless the vault failed a
\* waiter: its key was removed, an ask or the dismissal failed, or the daemon was
\* stopped.
PromptIsWanted == \A k \in prompts \ forsaken : Waiters(k) # {}

\* The counter is the number of threads, whatever ends them: the ceiling never
\* creeps down until the daemon refuses everyone.
SlotsComeBack == live = Cardinality({p \in Peer : conn[p].at # "none"}) /\ live <= MaxLive

\* Every ssh that asks for a signature is answered, or is found to be gone,
\* although nobody need ever look at the deck.
SignersAnswered == \A p \in Peer : Waiting(conn[p]) ~> ~Waiting(conn[p])

============================================================================
