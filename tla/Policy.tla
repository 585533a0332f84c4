------------------------------- MODULE Policy -------------------------------
(***************************************************************************)
(* The approvals in force for one unlocked session (policy.rs).            *)
(*                                                                         *)
(* An approval is a (client, item, capability) triple; lockdown denies     *)
(* every program; a trusted program skips the prompt.                      *)
(***************************************************************************)
EXTENDS Integers

CONSTANTS
    Client,      \* client keys: program names, pids, the fixed daemon names
    Item,        \* record ids and key fingerprints
    Capability   \* Reveal, Copy, SshSign, SecretService

Grants == [client : Client, item : Item, capability : Capability]

VARIABLES
    granted,     \* Approvals.granted
    lockdown,    \* Approvals.lockdown
    trusted      \* Approvals.trusted

vars == <<granted, lockdown, trusted>>

----------------------------------------------------------------------------
Init ==
    /\ granted = {}
    /\ lockdown = FALSE
    /\ trusted = {}

\* Approvals.consider: trust comes before lockdown, lockdown before grants.
Consider(c, i, k) ==
    CASE c \in trusted -> "remembered"
      [] c \notin trusted /\ lockdown -> "blocked"
      [] OTHER -> IF [client |-> c, item |-> i, capability |-> k] \in granted
                  THEN "remembered" ELSE "must-ask"

\* Mutant: an approval for every capability.
GrantEveryCapability(c, i, k) ==
    /\ granted' = granted \cup {[client |-> c, item |-> i, capability |-> x] : x \in Capability}
    /\ UNCHANGED <<lockdown, trusted>>

Grant(c, i, k) ==
    /\ granted' = granted \cup {[client |-> c, item |-> i, capability |-> k]}
    /\ UNCHANGED <<lockdown, trusted>>

\* Approvals.revoke, over every capability, as the Revoke request calls it.
Revoke(c, i) ==
    /\ granted' = {g \in granted : g.client # c \/ g.item # i}
    /\ UNCHANGED <<lockdown, trusted>>

RevokeClient(c) ==
    /\ granted' = {g \in granted : g.client # c}
    /\ trusted' = trusted \ {c}
    /\ UNCHANGED lockdown

\* Mutant: lockdown leaves the trusted programs alone.
SetLockdownKeepsTrust(on) ==
    /\ lockdown' = on
    /\ UNCHANGED <<granted, trusted>>

SetLockdown(on) ==
    /\ lockdown' = on
    /\ trusted' = IF on THEN {} ELSE trusted
    /\ UNCHANGED granted

Trust(c) ==
    /\ trusted' = IF lockdown THEN trusted ELSE trusted \cup {c}
    /\ UNCHANGED <<granted, lockdown>>

\* Approvals.clear, when the vault locks: lockdown outlives the session.
ClearApprovals ==
    /\ granted' = {}
    /\ trusted' = {}
    /\ UNCHANGED lockdown

Next ==
    \/ \E c \in Client, i \in Item :
         \/ \E k \in Capability : Grant(c, i, k)
         \/ Revoke(c, i)
    \/ \E c \in Client : RevokeClient(c) \/ Trust(c)
    \/ \E on \in BOOLEAN : SetLockdown(on)
    \/ ClearApprovals

Spec == Init /\ [][Next]_vars

----------------------------------------------------------------------------
\* Approvals hold triples, and trust is about clients.
TypeOK ==
    /\ granted \subseteq Grants
    /\ lockdown \in BOOLEAN
    /\ trusted \subseteq Client

\* Lockdown makes no exception: however trust, grants and the switch were
\* interleaved before it, no client gets anything but a refusal while it is on
\* (policy.rs: set_lockdown, "deny all that quietly kept an exception" would be
\* "a switch that lies").  The comment on the lockdown field says otherwise,
\* "except to clients on the always-allowed list" (policy.rs:135-136): it is
\* out of date.  set_lockdown empties that list and trust refuses to fill it
\* while the switch is on, so the exception the comment grants is one nobody
\* can be in.
LockdownDeniesAll ==
    lockdown => \A c \in Client, i \in Item, k \in Capability :
                    Consider(c, i, k) = "blocked"

\* Nothing but an explicit yes turns a question into a remembered approval:
\* lifting the lockdown, or any sequence of revocations, brings back only
\* approvals that were given and never withdrawn (main.rs: "blanket trust was
\* cleared and must be granted again").
YesIsExplicit ==
    [][\A c \in Client, i \in Item, k \in Capability :
         Consider(c, i, k) # "remembered" /\ Consider(c, i, k)' = "remembered"
         => \/ granted' \ granted = {[client |-> c, item |-> i, capability |-> k]}
            \/ trusted' \ trusted = {c} /\ ~lockdown
            \/ /\ lockdown /\ ~lockdown' /\ trusted' = {}
               /\ [client |-> c, item |-> i, capability |-> k] \in granted]_vars

============================================================================
