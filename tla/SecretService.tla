--------------------------- MODULE SecretService ---------------------------
(***************************************************************************)
(* The Secret Service daemon (blackbag-cli/src/secretservice.rs): D-Bus    *)
(* calls of several applications served at once, each made of questions to *)
(* the vault agent with nothing held between them.  The sessions they name *)
(* are those of secretservice/session.rs; what a session does to the bytes *)
(* is left out, that it is still there when they are needed is not.        *)
(*                                                                         *)
(* An item is its attributes and whose value it holds.  The vault agent is *)
(* what the daemon sees of it, as in SshDaemon.                            *)
(***************************************************************************)
EXTENDS Integers, FiniteSets

CONSTANTS
    App,         \* applications, each with at most one call under way
    Attrs,       \* the attribute sets they use: sets of (key, value) pairs
    MaxItem,     \* bound on items ever made; ids are never used again
    MaxSession,  \* bound on sessions ever opened; paths are never used again
    Patience,    \* polls until APPROVAL_WAIT is over
    MaxTurns     \* bound on calls, failures and the acts of the person and the host

Item == 1 .. MaxItem

VARIABLES
    sessions,    \* SESSIONS.map: the sessions that are open
    opened,      \* SESSIONS.next
    call,        \* what each application's call is doing
    vault,       \* "open", "locked" or "gone"
    store,       \* the Secret Service items of the vault, by id
    made,        \* how many there ever were
    granted,     \* items approved for reading
    prompts,     \* secret_pending
    overdue,     \* items whose ask failed and which the agent may yet come to serve
    turns,       \* how much happened
    clobbered,   \* history: items overwritten by a store for other attributes
    twinned,     \* history: attribute sets stored by two overlapping calls, or
                 \* by one that could not list the items or did not mean to replace
    forsaken     \* history: prompts whose reader could not withdraw them

sessionVars == <<sessions, opened>>
agentVars == <<vault, store, made, granted, prompts, overdue>>
pastVars == <<clobbered, twinned, forsaken>>
vars == <<sessionVars, call, agentVars, turns, pastVars>>

None == 0
NoCall == [op |-> "none", at |-> "idle", item |-> None, rest |-> {}, attrs |-> {}, polls |-> 0]
Nothing == [attrs |-> {}, by |-> "nobody"]
Held == {i \in Item : store[i] # Nothing}

Init ==
    /\ sessions = {} /\ opened = 0
    /\ call = [a \in App |-> NoCall]
    /\ vault = "open" /\ made = 0
    /\ store = [i \in Item |-> Nothing]
    /\ granted = {} /\ prompts = {} /\ overdue = {} /\ turns = 0
    /\ clobbered = {} /\ twinned = {} /\ forsaken = {}

\* A call is answered, with a result or an error.
Answer(a) == call' = [call EXCEPT ![a] = NoCall]

----------------------------------------------------------------------------
(* Sessions.                                                               *)

\* open_session; an unknown algorithm or a public value out of range is an error.
OpenSession(a) ==
    /\ call[a] = NoCall /\ opened < MaxSession
    /\ opened' = opened + 1
    /\ sessions' = sessions \cup {opened + 1}
    /\ UNCHANGED <<call, agentVars, turns, pastVars>>

CloseSession(s) ==
    /\ s \in sessions
    /\ sessions' = sessions \ {s}
    /\ UNCHANGED <<opened, call, agentVars, turns, pastVars>>

----------------------------------------------------------------------------
(* Finding items.                                                          *)

\* matches: the query's pairs are among the item's.
Matches(i, query) == query \subseteq store[i].attrs
Search(query) == {i \in Held : Matches(i, query)}

\* Mutant: an item that merely has the attributes among more is taken.
ReplacementTargetLoose(found, attrs) ==
    IF attrs = {} THEN {} ELSE {i \in found : attrs \subseteq store[i].attrs}

\* replacement_target: the same attributes exactly, and never for none at all.
ReplacementTarget(found, attrs) ==
    IF attrs = {} THEN {} ELSE {i \in found : store[i].attrs = attrs}

----------------------------------------------------------------------------
(* A call begins.                                                          *)

Begin(a, c) ==
    /\ call[a] = NoCall /\ turns < MaxTurns
    /\ turns' = turns + 1
    /\ call' = [call EXCEPT ![a] = c]
    /\ UNCHANGED <<sessionVars, agentVars, pastVars>>

\* create_item: the properties have been read (one that is there and unreadable
\* is an error) and the secret decrypted under its session, which must be open.
CreateItem(a, s, attrs, replace) ==
    /\ s \in sessions /\ call[a] = NoCall /\ turns < MaxTurns
    /\ turns' = turns + 1
    /\ call' = [call EXCEPT ![a] = [NoCall EXCEPT !.op = "create", !.attrs = attrs,
                                     !.at = IF replace THEN "list" ELSE "put"]]
    /\ twinned' = IF replace THEN twinned ELSE twinned \cup {attrs}
    /\ UNCHANGED <<sessionVars, agentVars, clobbered, forsaken>>

\* set_secret and delete, on an item object that is registered: that of an item
\* there was.  Objects are never taken away again.
SetSecret(a, s, i) ==
    /\ s \in sessions
    /\ Begin(a, [NoCall EXCEPT !.op = "set", !.item = i, !.at = "list"])

DeleteItem(a, i) == Begin(a, [NoCall EXCEPT !.op = "delete", !.item = i, !.at = "put"])

\* get_secret reads one item, get_secrets several, one after the other.
GetSecrets(a, items) ==
    \E i \in items :
        Begin(a, [NoCall EXCEPT !.op = "get", !.item = i, !.rest = items \ {i}, !.at = "ask"])

\* search_items, unlock, lock, create_collection, the aliases and properties
\* ask the agent at most twice and change nothing.

----------------------------------------------------------------------------
(* A call goes on.                                                         *)

\* create_item with replace: which item to overwrite.  A search that fails is
\* taken for one that found nothing.
ListForCreate(a) ==
    LET c == call[a]
        target == IF vault = "open" THEN ReplacementTarget(Search(c.attrs), c.attrs) ELSE {} IN
    /\ c.op = "create" /\ c.at = "list"
    /\ \/ /\ target = {}
          /\ call' = [call EXCEPT ![a].at = "put"]
       \/ \E i \in target :
          call' = [call EXCEPT ![a].at = "put", ![a].item = i]
    /\ twinned' = IF vault = "open" THEN twinned ELSE twinned \cup {c.attrs}
    /\ UNCHANGED <<sessionVars, agentVars, turns, clobbered, forsaken>>

\* set_secret: current_item reads the label and the attributes it writes back.
ListForSet(a) ==
    LET c == call[a] IN
    /\ c.op = "set" /\ c.at = "list"
    /\ IF vault = "open" /\ c.item \in Held
       THEN call' = [call EXCEPT ![a].at = "put", ![a].attrs = store[c.item].attrs]
       ELSE Answer(a)
    /\ UNCHANGED <<sessionVars, agentVars, turns, pastVars>>

\* Stores of the same attributes that are past their search.
Rivals(a) ==
    {b \in App \ {a} : /\ call[b].op = "create" /\ call[b].at = "put"
                       /\ call[b].attrs = call[a].attrs /\ call[b].item = None}

\* SecretPut without an id: a new item.
PutNew(a) ==
    LET c == call[a] IN
    /\ c.op = "create" /\ c.at = "put" /\ c.item = None
    /\ vault = "open" /\ made < MaxItem
    /\ made' = made + 1
    /\ store' = [store EXCEPT ![made + 1] = [attrs |-> c.attrs, by |-> a]]
    /\ twinned' = IF Rivals(a) = {} THEN twinned ELSE twinned \cup {c.attrs}
    /\ Answer(a)
    /\ UNCHANGED <<sessionVars, vault, granted, prompts, overdue, turns, clobbered, forsaken>>

\* SecretPut with one: label, attributes and value are replaced.
PutOver(a) ==
    LET c == call[a] IN
    /\ c.at = "put" /\ c.op \in {"create", "set"} /\ c.item \in Held /\ vault = "open"
    /\ store' = [store EXCEPT ![c.item] = [attrs |-> c.attrs, by |-> a]]
    /\ clobbered' = IF store[c.item].attrs = c.attrs THEN clobbered
                    ELSE clobbered \cup {c.item}
    /\ Answer(a)
    /\ UNCHANGED <<sessionVars, vault, made, granted, prompts, overdue, turns, twinned, forsaken>>

DeleteDone(a) ==
    LET c == call[a] IN
    /\ c.op = "delete" /\ c.item \in Held /\ vault = "open"
    /\ store' = [store EXCEPT ![c.item] = Nothing]
    /\ Answer(a)
    /\ UNCHANGED <<sessionVars, vault, made, granted, prompts, overdue, turns, pastVars>>

\* The agent refuses the write: locked, or no such item (or it does not answer,
\* which is an error to everyone).  create_item reports it; set_secret and
\* delete look no further than that there was an answer, and report success.
PutRefused(a) ==
    LET c == call[a] IN
    /\ c.at = "put" /\ (vault # "open" \/ c.item \notin Held)
    /\ ~(c.op = "create" /\ c.item = None /\ vault = "open")
    /\ Answer(a)
    /\ UNCHANGED <<sessionVars, agentVars, turns, pastVars>>

----------------------------------------------------------------------------
(* read_with_approval, and the encryption that follows it.                 *)

Readable(i) == vault = "open" /\ i \in Held /\ i \in granted
MustAsk(i) == vault = "open" /\ i \in Held /\ i \notin granted
Readers(i) == {a \in App : call[a].item = i /\ call[a].at \in {"ask", "sleep", "dismiss"}}

\* The reader goes without taking its prompt down.
Forsake(i) == forsaken' = forsaken \cup (prompts \cap {i})

\* The item is read or dropped from the answer; the next one, if any.
NextItem(a) ==
    \/ call[a].rest = {} /\ Answer(a)
    \/ \E i \in call[a].rest :
        call' = [call EXCEPT ![a].item = i, ![a].rest = @ \ {i}, ![a].at = "ask",
                             ![a].polls = 0]

AskRead(a) ==
    /\ call[a].at = "ask" /\ Readable(call[a].item)
    /\ call' = [call EXCEPT ![a].at = "encrypt"]
    /\ UNCHANGED <<sessionVars, agentVars, turns, pastVars>>

\* Encrypt for the session; if that is closed by now, the item is left out.
Encrypt(a) ==
    /\ call[a].at = "encrypt"
    /\ NextItem(a)
    /\ UNCHANGED <<sessionVars, agentVars, turns, pastVars>>

\* The vault is locked or gone, or the item is: the answer is an error.
AskFailed(a) ==
    LET i == call[a].item IN
    /\ call[a].at = "ask" /\ ~Readable(i) /\ ~MustAsk(i)
    /\ Forsake(i)
    /\ NextItem(a)
    /\ UNCHANGED <<sessionVars, agentVars, turns, clobbered, twinned>>

\* The vault is open and the ask fails all the same: blocked under lockdown, noted
\* but not published, or without an answer in the time session::ask gives it.  The
\* reader bails and dismisses nothing, and a request it no longer waits for is
\* served when its turn comes.
AskRefused(a) ==
    LET i == call[a].item IN
    /\ call[a].at = "ask" /\ vault = "open" /\ turns < MaxTurns
    /\ turns' = turns + 1
    /\ Forsake(i) /\ overdue' = overdue \cup {i}
    /\ NextItem(a)
    /\ UNCHANGED <<sessionVars, vault, store, made, granted, prompts, clobbered, twinned>>

\* SecretGet, served to a caller that gave up: the item is put on the deck.
ServedLate(i) ==
    /\ i \in overdue /\ MustAsk(i)
    /\ overdue' = overdue \ {i}
    /\ prompts' = prompts \cup {i}
    /\ forsaken' = IF Readers(i) = {} THEN forsaken \cup {i} ELSE forsaken \ {i}
    /\ UNCHANGED <<sessionVars, call, vault, store, made, granted, turns, clobbered, twinned>>

\* Mutant: the wait starts again on every poll.
AskPendingRestarts(a) ==
    LET i == call[a].item IN
    /\ call[a].at = "ask" /\ MustAsk(i)
    /\ prompts' = prompts \cup {i} /\ forsaken' = forsaken \ {i}
    /\ call' = [call EXCEPT ![a].at = "sleep", ![a].polls = 0]
    /\ UNCHANGED <<sessionVars, vault, store, made, granted, overdue, turns, clobbered, twinned>>

AskPending(a) ==
    LET i == call[a].item IN
    /\ call[a].at = "ask" /\ MustAsk(i)
    /\ prompts' = prompts \cup {i} /\ forsaken' = forsaken \ {i}
    /\ call' = [call EXCEPT ![a].at = IF call[a].polls >= Patience THEN "dismiss" ELSE "sleep"]
    /\ UNCHANGED <<sessionVars, vault, store, made, granted, overdue, turns, clobbered, twinned>>

Wake(a) ==
    /\ call[a].at = "sleep"
    /\ call' = [call EXCEPT ![a].at = "ask", ![a].polls = @ + 1]
    /\ UNCHANGED <<sessionVars, agentVars, turns, pastVars>>

\* SecretDismiss, best effort: whether it reached the agent is not looked at.
Dismiss(a) ==
    LET i == call[a].item IN
    /\ call[a].at = "dismiss"
    /\ \/ /\ prompts' = IF vault = "gone" THEN prompts ELSE prompts \ {i}
          /\ UNCHANGED <<turns, forsaken>>
       \/ /\ vault = "open" /\ turns < MaxTurns      \* the socket fails
          /\ turns' = turns + 1
          /\ Forsake(i)
          /\ UNCHANGED prompts
    /\ NextItem(a)
    /\ UNCHANGED <<sessionVars, vault, store, made, granted, overdue, clobbered, twinned>>

----------------------------------------------------------------------------
\* The person approves a read or removes an item; locks and restarts.
World ==
    /\ turns < MaxTurns /\ turns' = turns + 1
    /\ \/ \E i \in Held \ granted :
            /\ vault = "open"
            /\ granted' = granted \cup {i} /\ prompts' = prompts \ {i}
            /\ UNCHANGED <<vault, store, overdue>>
       \/ \E i \in Held :
            /\ vault = "open"
            /\ store' = [store EXCEPT ![i] = Nothing]
            /\ UNCHANGED <<vault, granted, prompts, overdue>>
       \/ \E v \in {"open", "locked", "gone"} \ {vault} :
            /\ <<vault, v>> # <<"gone", "open">>
            /\ vault' = v /\ granted' = {} /\ prompts' = {}
            /\ overdue' = IF v = "gone" THEN {} ELSE overdue
            /\ UNCHANGED store
    /\ UNCHANGED <<sessionVars, call, made, pastVars>>

Serve(a) ==
    \/ ListForCreate(a) \/ ListForSet(a)
    \/ PutNew(a) \/ PutOver(a) \/ DeleteDone(a) \/ PutRefused(a)
    \/ AskRead(a) \/ Encrypt(a) \/ AskFailed(a) \/ AskPending(a) \/ Wake(a) \/ Dismiss(a)

Next ==
    \/ \E a \in App :
        \/ OpenSession(a)
        \/ \E s \in sessions, attrs \in Attrs, replace \in BOOLEAN :
            /\ made + Cardinality({b \in App : call[b].op = "create"}) < MaxItem
            /\ CreateItem(a, s, attrs, replace)
        \/ \E i \in 1 .. made : (\E s \in sessions : SetSecret(a, s, i)) \/ DeleteItem(a, i)
        \/ \E items \in SUBSET (1 .. made) : GetSecrets(a, items)
        \/ Serve(a) \/ AskRefused(a)
    \/ \E i \in overdue : ServedLate(i)
    \/ \E s \in sessions : CloseSession(s)
    \/ World

----------------------------------------------------------------------------
\* A store meant to replace writes over an item with its own attributes exactly,
\* or makes a new one: no application loses an item to another's store, however
\* stale the list was that the item was found in.
ReplaceIsExact == clobbered = {}

\* Two items with the same attributes are left only by stores that overlapped,
\* that did not ask to replace or that could not list the items.
TwinsAreExplained ==
    \A i, j \in Held :
        i # j /\ store[i].attrs = store[j].attrs =>
            store[i].attrs = {} \/ store[i].attrs \in twinned

\* The two together: stores keep the items of applications apart.
ItemsKeptApart == ReplaceIsExact /\ TwinsAreExplained

\* A prompt for an item is on the deck only while a call waits for it, unless
\* the item went away or the vault locked under the reader, or an ask of its or
\* its SecretDismiss failed: read_with_approval takes no prompt down on an error.
ReadPromptIsWanted == \A i \in prompts \ forsaken : Readers(i) # {}

\* Every call is answered, although nobody need ever look at the deck.
CallsAnswered == \A a \in App : call[a] # NoCall ~> call[a] = NoCall

============================================================================
