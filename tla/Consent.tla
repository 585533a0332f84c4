------------------------------ MODULE Consent ------------------------------
(***************************************************************************)
(* The desk of passkey ceremonies waiting for a human (consent.rs).        *)
(*                                                                         *)
(* A ceremony is registered by a caller, answered by whoever holds the     *)
(* vault passphrase, and collected once by the caller that registered it.  *)
(* The desk is a plain value: nothing happens to it between two calls, so  *)
(* expiry is applied lazily, at the head of every call that can act on it  *)
(* (Expire below).   Each call of the Desk is one action; a call that      *)
(* returns an error is the disjunct that only applies the lazy expiry.     *)
(*                                                                         *)
(* Data kept: whose ceremony it is, which credentials it may use, how it   *)
(* is bound to the bytes that will be signed, when it was registered, how  *)
(* many wrong passphrases it has absorbed, and its state.  The signed      *)
(* bytes, labels and salts are frozen with it and never looked at here.    *)
(***************************************************************************)
EXTENDS Integers, FiniteSets

CONSTANTS
    Nonce,        \* ceremony nonces
    Peer,         \* processes the agent can identify
    Unknown,      \* a peer the agent could not identify (owner = None)
    Cred,         \* credential ids
    NoCred,       \* the empty credential id of an approved creation
    Request,      \* what callers ask for: operation, credentials and binding
    TTL,          \* CEREMONY_TTL_SECS
    MaxPending,   \* MAX_PENDING
    MaxAttempts   \* MAX_PROOF_ATTEMPTS

Operation == {"create", "assert"}
State == {"free", "awaiting", "approved", "refused", "deferred"}

\* What the signature will be bound to: a client-data hash handed in over
\* CTAP, or an origin and a challenge reported by the browser.
Binding == SUBSET {"hash", "origin", "challenge"}

ASSUME ConsentAssumption ==
    /\ Request \subseteq [op : Operation, choices : SUBSET Cred, binding : Binding]
    /\ TTL \in Nat \ {0}
    /\ MaxPending \in Nat \ {0}
    /\ MaxAttempts \in Nat \ {0}
    /\ Unknown \notin Peer
    /\ NoCred \notin Cred
    /\ IsFiniteSet(Nonce)

VARIABLES
    now,      \* the wall clock the agent hands to every call (Utc::now)
    desk,     \* Desk.pending, by nonce
    proved,   \* history: when the passphrase was proved for this ceremony
    taken     \* history: how often its approval has been collected

deskVars == <<desk, proved, taken>>
vars == <<now, desk, proved, taken>>

----------------------------------------------------------------------------
Ceremony ==
    [ state    : State,
      op       : Operation,
      owner    : Peer \cup {Unknown},
      choices  : SUBSET Cred,
      binding  : Binding,
      at       : Nat,
      attempts : Nat,
      chosen   : Cred \cup {NoCred} ]

\* The value under a nonce the desk does not hold.
Free ==
    [ state |-> "free", op |-> "create", owner |-> Unknown, choices |-> {},
      binding |-> {}, at |-> 0, attempts |-> 0, chosen |-> NoCred ]

NotProved == -1

Held == {n \in Nonce : desk[n].state # "free"}

\* Desk.len(): answered ceremonies nobody collected still hold a slot.
Len_ == Cardinality(Held)

ExpiresAt(c) == c.at + TTL
IsExpired(c) == now >= ExpiresAt(c)

\* Desk.expire for one ceremony: an unanswered one past its deadline is
\* refused, and any one a full TTL past its deadline is dropped.
Swept(c) ==
    IF c.state = "free" \/ now >= ExpiresAt(c) + TTL THEN Free
    ELSE IF c.state = "awaiting" /\ IsExpired(c)
         THEN [c EXCEPT !.state = "refused"]
         ELSE c

Expire == [n \in Nonce |-> Swept(desk[n])]

\* A call that fails after the lazy expiry and changes nothing else.
Fails ==
    /\ desk' = Expire
    /\ UNCHANGED <<proved, taken>>

----------------------------------------------------------------------------
Init ==
    /\ now = 0
    /\ desk = [n \in Nonce |-> Free]
    /\ proved = [n \in Nonce |-> NotProved]
    /\ taken = [n \in Nonce |-> 0]

\* Exactly one binding, never both and never neither.
WellBound(r) == r.binding = {"hash"} \/ r.binding = {"origin", "challenge"}

\* What register refuses, given the desk after expiry.
Refusable(n, r) ==
    \/ Cardinality({m \in Nonce : Expire[m].state # "free"}) >= MaxPending
    \/ Expire[n].state # "free"
    \/ r.op = "assert" /\ r.choices = {}
    \/ ~WellBound(r)

Register(n, owner, r) ==
    /\ ~Refusable(n, r)
    /\ desk' = [Expire EXCEPT ![n] =
                  [ state |-> "awaiting", op |-> r.op, owner |-> owner,
                    choices |-> r.choices, binding |-> r.binding, at |-> now,
                    attempts |-> 0, chosen |-> NoCred ]]
    /\ proved' = [proved EXCEPT ![n] = NotProved]
    /\ taken' = [taken EXCEPT ![n] = 0]

RegisterFails(n, r) ==
    /\ Refusable(n, r)
    /\ Fails

\* The credential an approval names: one of the recorded choices, or, unnamed,
\* the only one there is (the empty id when the credential is yet to be made).
\* `named' is NoCred when the answer names none.
Selected(c, named) ==
    CASE named # NoCred -> c.choices \cap {named}
      [] named = NoCred /\ c.choices = {} -> {NoCred}
      [] OTHER -> {x \in c.choices : c.choices = {x}}

\* Mutant: approve without the lazy expiry.
ApproveProvedStale(n, named) ==
    /\ desk[n].state = "awaiting"
    /\ \E x \in Selected(desk[n], named) :
         desk' = [desk EXCEPT ![n].state = "approved", ![n].chosen = x]
    /\ proved' = [proved EXCEPT ![n] = now]
    /\ UNCHANGED taken

\* Desk.approve with a correct passphrase.
ApproveProved(n, named) ==
    LET c == Expire[n] IN
    /\ c.state = "awaiting"
    /\ \E x \in Selected(c, named) :
         desk' = [Expire EXCEPT ![n].state = "approved", ![n].chosen = x]
    /\ proved' = [proved EXCEPT ![n] = now]
    /\ UNCHANGED taken

\* Mutant: one guess too many.
ApproveGuessOneMore(n) ==
    /\ Expire[n].state = "awaiting"
    /\ desk' = [Expire EXCEPT
                  ![n].attempts = @ + 1,
                  ![n].state = IF Expire[n].attempts >= MaxAttempts
                               THEN "refused" ELSE @]
    /\ UNCHANGED <<proved, taken>>

\* Desk.approve with a wrong passphrase: the guess is counted, and the last
\* one allowed refuses the ceremony.
ApproveGuess(n) ==
    LET c == Expire[n] IN
    /\ c.state = "awaiting"
    /\ desk' = [Expire EXCEPT
                  ![n].attempts = @ + 1,
                  ![n].state = IF c.attempts + 1 >= MaxAttempts
                               THEN "refused" ELSE @]
    /\ UNCHANGED <<proved, taken>>

\* Desk.approve on a ceremony that is gone or answered, or naming a credential
\* that was not recorded with it.
ApproveFails(n, named, proofOk) ==
    LET c == Expire[n] IN
    /\ \/ c.state # "awaiting"
       \/ proofOk /\ Selected(c, named) = {}
    /\ Fails

\* Desk.refuse and Desk.defer both go through set_state, which asks only that
\* the desk holds the ceremony: an answer already given is overwritten.
SetState(n, s) ==
    /\ Expire[n].state # "free"
    /\ desk' = [Expire EXCEPT ![n].state = s]
    /\ UNCHANGED <<proved, taken>>

Refuse(n) == SetState(n, "refused")
Defer(n) == SetState(n, "deferred")

SetStateFails(n) ==
    /\ Expire[n].state = "free"
    /\ Fails

\* Desk.take_answered finds an answered ceremony for its owner, or for anyone
\* when the owner could not be identified.
Collectable(c, peer) ==
    /\ c.state \notin {"free", "awaiting"}
    /\ c.owner = Unknown \/ c.owner = peer

\* Mutant: the answer stays on the desk.
TakeAnsweredPeeks(n, peer) ==
    /\ Collectable(Expire[n], peer)
    /\ desk' = Expire
    /\ taken' = [taken EXCEPT ![n] = @ + (IF Expire[n].state = "approved" THEN 1 ELSE 0)]
    /\ UNCHANGED proved

TakeAnswered(n, peer) ==
    LET c == Expire[n] IN
    /\ Collectable(c, peer)
    /\ desk' = [Expire EXCEPT ![n] = Free]
    /\ taken' = [taken EXCEPT ![n] = @ + (IF c.state = "approved" THEN 1 ELSE 0)]
    /\ UNCHANGED proved

TakeFails(n, peer) ==
    /\ ~Collectable(Expire[n], peer)
    /\ Fails

\* Desk.clear, when the vault locks.
Clear ==
    /\ desk' = [n \in Nonce |-> Free]
    /\ UNCHANGED <<proved, taken>>

\* Desk.summaries: what the deck is shown, a pure read.
Summaries == {n \in Nonce : desk[n].state = "awaiting" /\ ~IsExpired(desk[n])}

----------------------------------------------------------------------------
CONSTANT MaxNow   \* bound on the clock

\* Time passes.  The desk is handed Utc::now(), a wall clock, which may also be
\* set back.
Tick ==
    /\ now' \in (0 .. MaxNow) \ {now}
    /\ UNCHANGED deskVars

\* One request to the desk, at the current time.
Call ==
    /\ UNCHANGED now
    /\ \/ \E n \in Nonce, r \in Request :
            \/ \E owner \in Peer \cup {Unknown} : Register(n, owner, r)
            \/ RegisterFails(n, r)
       \/ \E n \in Nonce, named \in Cred \cup {NoCred} :
            \/ ApproveProved(n, named)
            \/ \E proofOk \in BOOLEAN : ApproveFails(n, named, proofOk)
       \/ \E n \in Nonce : ApproveGuess(n)
       \/ \E n \in Nonce : Refuse(n) \/ Defer(n) \/ SetStateFails(n)
       \/ \E n \in Nonce, peer \in Peer \cup {Unknown} :
            TakeAnswered(n, peer) \/ TakeFails(n, peer)
       \/ Clear

Next == Tick \/ Call

Spec == Init /\ [][Next]_vars

----------------------------------------------------------------------------
\* Every variable has its type, and a nonce the desk does not hold carries no
\* leftovers of the ceremony that was there (Desk.pending is a Vec: removal
\* leaves nothing behind).
TypeOK ==
    /\ now \in Nat
    /\ desk \in [Nonce -> Ceremony]
    /\ proved \in [Nonce -> Nat \cup {NotProved}]
    /\ taken \in [Nonce -> Nat]
    /\ \A n \in Nonce : desk[n].state = "free" => desk[n] = Free

\* An approval can only come from the passphrase, proved for this very
\* registration while it was still unexpired, and it names a credential frozen
\* with the request: nothing a socket client does to the desk in any order
\* (refusals, deferrals, expiry, reuse of a nonce) puts a ceremony into the
\* approved state otherwise (consent.rs: approve).
ApprovedIsProved ==
    \A n \in Nonce :
        LET c == desk[n] IN
        c.state = "approved" =>
            /\ proved[n] # NotProved
            /\ proved[n] < ExpiresAt(c)
            /\ \/ c.chosen \in c.choices
               \/ c.choices = {} /\ c.chosen = NoCred /\ c.op = "create"

\* One proof of the passphrase yields at most one signature: after the answer
\* is collected nothing approves or collects it again, until the nonce is
\* registered anew (consent.rs: take_answered, "Single use").
CollectedOnce ==
    \A n \in Nonce :
        /\ taken[n] <= 1
        /\ taken[n] = 1 => desk[n].state = "free"

\* A ceremony still waiting has absorbed fewer wrong passphrases than the
\* limit, so the prompt is never an oracle with another guess left
\* (consent.rs: MAX_PROOF_ATTEMPTS).
GuessesRunOut ==
    \A n \in Nonce :
        /\ desk[n].attempts <= MaxAttempts
        /\ desk[n].state \in {"awaiting", "approved"} => desk[n].attempts < MaxAttempts

\* Ceremonies are capped, whatever mixture of answered, expired and abandoned
\* ones the desk holds (consent.rs: MAX_PENDING).
DeskBounded == Len_ <= MaxPending

\* The ceremony c became d without leaving the desk in between, and what the
\* human was shown, and the credential approved, stayed as they were.
KeepsRequest(c, d) ==
    /\ c.state # "free" /\ now < ExpiresAt(c) + TTL
    /\ d.state # "free"
    => /\ d.op = c.op /\ d.owner = c.owner /\ d.choices = c.choices
       /\ d.binding = c.binding /\ d.at = c.at
       /\ d.state = "approved" => c.state \in {"awaiting", "approved"}
       /\ c.state = "approved" /\ d.state = "approved" => d.chosen = c.chosen

\* What will be signed cannot be changed between the prompt and the signature:
\* until a ceremony is collected, cleared or dropped two TTLs after it was
\* registered, its owner, operation, credentials, binding and registration time
\* are the registered ones, and an answer once given is never turned into an
\* approval (consent.rs: "What the nonce is and is not").
Frozen == [][\A n \in Nonce : KeepsRequest(desk[n], desk'[n])]_vars

============================================================================
