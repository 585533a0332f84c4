---------------------------- MODULE AgentProofs ----------------------------
(***************************************************************************)
(* Proofs about the session agent, for every set of processes, programs,   *)
(* records and nonces, every timeout and every limit: its desk is the      *)
(* consent desk, so what is proved of that desk holds inside the agent;    *)
(* its approvals are those of policy.rs; a locked vault holds nothing; and *)
(* whatever is handed out was paid for in the session that hands it out.   *)
(***************************************************************************)
EXTENDS Agent, TLAPS

\* The theorems about the consent desk, about the desk inside the agent.
DeskP == INSTANCE ConsentProofs WITH Peer <- Identified, Request <- Ceremonies

----------------------------------------------------------------------------
\* The desk of the agent, step by step.

\* A request that does not touch the desk leaves it where it was.
LEMMA DeskStill ==
    ASSUME UNCHANGED now, UNCHANGED deskVars
    PROVE  [Desk!Next]_(Desk!vars)
  BY DEF deskVars, Desk!vars

\* lock() clears the desk (session.rs: lock).
LEMMA LockClears ==
    ASSUME UNCHANGED now, Lock
    PROVE  Desk!Next
  BY DEF Lock, Desk!Next, Desk!Call

\* A request the vault is not open for leaves the desk alone or locks
\* (session.rs: opened).
LEMMA OpenedFailsDesk ==
    ASSUME UNCHANGED now, OpenedFails
    PROVE  [Desk!Next]_(Desk!vars)
  BY DeskStill, LockClears DEF OpenedFails

\* The owner the desk is told is a process, or nobody (session.rs: PeerId::of).
LEMMA OwnerType ==
    ASSUME NEW p \in Process
    PROVE  Owner(p) \in Identified \cup {Unknown}
  BY DEF Owner

\* PasskeyBegin asks the desk only for what the desk may be asked
\* (session.rs: passkey_begin).
LEMMA BeginDesk ==
    ASSUME NEW p \in Process, NEW n \in Nonce, NEW op \in {"create", "assert"},
           NEW allow \in SUBSET Cred, NEW b \in Bindings,
           PasskeyBegin(p, n, op, allow, b)
    PROVE  Desk!Next
  <1> DEFINE have == records \cap Cred
             r == [ op |-> op, binding |-> b,
                    choices |-> IF op = "create" THEN {}
                                ELSE IF allow = {} THEN have ELSE allow \cap have ]
  <1>1. r \in Ceremonies
    BY DEF Ceremonies
  <1>2. UNCHANGED now
    BY DEF PasskeyBegin, Done
  <1>3. Desk!Register(n, Owner(p), r) \/ Desk!RegisterFails(n, r)
    BY DEF PasskeyBegin
  <1> QED
    BY <1>1, <1>2, <1>3, OwnerType DEF Desk!Next, Desk!Call

\* Every request is one call of the desk, or none.
LEMMA RequestDesk ==
    ASSUME NEW p \in Process, Dispatch(p)
    PROVE  UNCHANGED now /\ [Desk!Next]_(Desk!vars)
  <1>1. UNCHANGED now
    BY ZenonT(60) DEF Dispatch, Unlock, LockRequest, TouchRequest, NotOpen, Read, Shutdown,
         Add, Delete, SshGenerate, SecretPut, SecretDelete, Change, Reveal, TotpCode,
         Withdraw, Lockdown, SshSign, SshApprove, SshDismiss, SecretApprove,
         SecretDismiss, SecretGet, PasskeyBegin, PasskeyDecline, PasskeyGuess,
         PasskeyCollect, PasskeyApprove, WaitForLock, Done
  <1>2. CASE \/ Unlock(p) \/ TouchRequest(p) \/ Read(p) \/ WaitForLock(p)
             \/ \E i \in Login : Add(p, i)
             \/ \E i \in Items : Delete(p, i)
             \/ \E f \in Key : SshGenerate(p, f)
             \/ \E i \in Svc : SecretPut(p, i) \/ SecretDelete(p, i)
    BY <1>1, <1>2, DeskStill DEF Unlock, TouchRequest, Read, WaitForLock, Add, Delete,
         SshGenerate, SecretPut, SecretDelete, Change
  <1>3. CASE LockRequest(p) \/ Shutdown(p) \/ NotOpen(p)
    BY <1>1, <1>3, LockClears, OpenedFailsDesk DEF LockRequest, Shutdown, NotOpen
  <1>4. CASE \E i \in Items, k \in Asked, proof \in Proof :
               Reveal(p, i, k, proof) \/ TotpCode(p, i, k, proof)
    BY <1>1, <1>4, DeskStill, OpenedFailsDesk DEF Reveal, TotpCode
  <1>5. CASE \/ \E c \in Clients, i \in Items : Withdraw(p, c, i)
             \/ \E on \in BOOLEAN : Lockdown(p, on)
    BY <1>1, <1>5, DeskStill DEF Withdraw, Lockdown
  <1>6. CASE \E f \in Key : SshSign(p, f) \/ SshApprove(p, f) \/ SshDismiss(p, f)
    BY <1>1, <1>6, DeskStill DEF SshSign, SshApprove, SshDismiss
  <1>7. CASE \/ \E i \in Svc : SecretApprove(p, i) \/ SecretDismiss(p, i)
             \/ \E i \in Svc, proof \in Proof : SecretGet(p, i, proof)
    BY <1>1, <1>7, DeskStill DEF SecretApprove, SecretDismiss, SecretGet
  <1>8. CASE \E n \in Nonce, op \in {"create", "assert"}, allow \in SUBSET Cred,
                b \in Bindings : PasskeyBegin(p, n, op, allow, b)
    BY <1>1, <1>8, BeginDesk
  <1>9. CASE \E n \in Nonce : PasskeyDecline(p, n)
    BY <1>1, <1>9 DEF PasskeyDecline, Desk!Next, Desk!Call
  <1>10. CASE \E n \in Nonce : PasskeyGuess(p, n)
    BY <1>1, <1>10 DEF PasskeyGuess, Desk!Next, Desk!Call
  <1>11. CASE \E n \in Nonce, named \in Cred \cup {NoCred} : PasskeyApprove(p, n, named)
    BY <1>1, <1>11 DEF PasskeyApprove, Desk!Next, Desk!Call
  <1>12. CASE \E n \in Nonce : PasskeyCollect(p, n)
    BY <1>1, <1>12, OwnerType DEF PasskeyCollect, Desk!Next, Desk!Call
  <1> QED
    BY <1>1, <1>2, <1>3, <1>4, <1>5, <1>6, <1>7, <1>8, <1>9, <1>10, <1>11, <1>12
       DEF Dispatch

\* The clock only advances, up to its bound.
LEMMA NowStep ==
    ASSUME now \in 0 .. MaxNow, [Next]_vars
    PROVE  now' \in 0 .. MaxNow
  <1>1. CASE Tick
    BY <1>1, AgentAssumption DEF Tick
  <1>2. CASE \E p \in Process : Dispatch(p)
    BY <1>2, RequestDesk
  <1> QED
    BY <1>1, <1>2 DEF Next, Environment, HostEvent, CliRekey, CliHolds, CliWrite, LoopPass, Accept,
       Dropped, Sign, Restart, Done, vars

\* Every step of the agent is a step of the desk, or none of its business.
LEMMA DeskStep ==
    ASSUME now \in 0 .. MaxNow, [Next]_vars
    PROVE  [Desk!Next]_(Desk!vars)
  <1>1. CASE Tick
    <2>1. now \in Nat /\ now + 1 \in 0 .. MaxNow /\ now + 1 # now
      BY <1>1, AgentAssumption DEF Tick
    <2> QED
      BY <1>1, <2>1 DEF Tick, Desk!Next, Desk!Tick, Desk!deskVars, deskVars
  <1>2. CASE \/ \E reason \in Reason : HostEvent(reason)
             \/ CliRekey \/ CliHolds
             \/ \E i \in Items : CliWrite(i)
    BY <1>2, DeskStill DEF HostEvent, CliRekey, CliHolds, CliWrite
  <1>3. CASE LoopPass
    BY <1>3, DeskStill, LockClears DEF LoopPass
  <1>4. CASE Accept \/ Dropped
    BY <1>4, DeskStill DEF Accept, Dropped, Done
  <1>5. CASE Sign
    BY <1>5, DeskStill, OpenedFailsDesk DEF Sign, Done
  <1>6. CASE Restart
    BY <1>6 DEF Restart, Desk!Next, Desk!Call
  <1>7. CASE \E p \in Process : Dispatch(p)
    BY <1>7, RequestDesk
  <1>8. CASE UNCHANGED vars
    BY <1>8, DeskStill DEF vars
  <1> QED
    BY <1>1, <1>2, <1>3, <1>4, <1>5, <1>6, <1>7, <1>8 DEF Next, Environment

\* The agent drives the desk only through its calls (session.rs: every use of
\* Agent.consent).
THEOREM DeskImplemented == Spec => DeskRefined
  <1>1. Init => now \in 0 .. MaxNow /\ Desk!Init
    BY AgentAssumption DEF Init, Desk!Init
  <1>2. now \in 0 .. MaxNow /\ [Next]_vars => (now \in 0 .. MaxNow)'
    BY NowStep
  <1>3. now \in 0 .. MaxNow /\ [Next]_vars => [Desk!Next]_(Desk!vars)
    BY DeskStep
  <1> QED
    BY <1>1, <1>2, <1>3, PTL DEF Spec, DeskRefined, Desk!Spec

----------------------------------------------------------------------------
\* The desk of the agent and the desk of the proofs are two instances of one module:
\* what their operators stand for is the same, and so are their behaviours.
LEMMA SameDesk == Desk!Spec => DeskP!Spec
  <1>1. DeskP!Expire = Desk!Expire
    BY DEF DeskP!Expire, Desk!Expire, DeskP!Swept, Desk!Swept, DeskP!Free, Desk!Free,
           DeskP!ExpiresAt, Desk!ExpiresAt, DeskP!IsExpired, Desk!IsExpired
  <1>2. \A S : DeskP!Cardinality(S) = Desk!Cardinality(S)
    BY DEF DeskP!Cardinality, Desk!Cardinality
  <1>3. \A n, r : DeskP!Refusable(n, r) <=> Desk!Refusable(n, r)
    BY <1>1, <1>2 DEF DeskP!Refusable, Desk!Refusable, DeskP!WellBound, Desk!WellBound
  <1>4. \A c, x : DeskP!Selected(c, x) = Desk!Selected(c, x)
    BY DEF DeskP!Selected, Desk!Selected
  <1>5. DeskP!Fails <=> Desk!Fails
    BY <1>1 DEF DeskP!Fails, Desk!Fails
  <1>6. \A n, o, r : DeskP!Register(n, o, r) <=> Desk!Register(n, o, r)
    BY <1>1, <1>3 DEF DeskP!Register, Desk!Register, DeskP!NotProved, Desk!NotProved
  <1>7. \A n, x : DeskP!ApproveProved(n, x) <=> Desk!ApproveProved(n, x)
    BY <1>1, <1>4 DEF DeskP!ApproveProved, Desk!ApproveProved
  <1>8. \A n : DeskP!ApproveGuess(n) <=> Desk!ApproveGuess(n)
    BY <1>1 DEF DeskP!ApproveGuess, Desk!ApproveGuess
  <1>9. \A n, s : DeskP!SetState(n, s) <=> Desk!SetState(n, s)
    BY <1>1 DEF DeskP!SetState, Desk!SetState
  <1>10. \A n, p : DeskP!TakeAnswered(n, p) <=> Desk!TakeAnswered(n, p)
    BY <1>1 DEF DeskP!TakeAnswered, Desk!TakeAnswered, DeskP!Collectable,
                Desk!Collectable, DeskP!Free, Desk!Free
  <1>11. DeskP!Clear <=> Desk!Clear
    BY DEF DeskP!Clear, Desk!Clear, DeskP!Free, Desk!Free
  <1>12. /\ \A n, r : DeskP!RegisterFails(n, r) <=> Desk!RegisterFails(n, r)
         /\ \A n : DeskP!SetStateFails(n) <=> Desk!SetStateFails(n)
         /\ \A n, p : DeskP!TakeFails(n, p) <=> Desk!TakeFails(n, p)
         /\ \A n, x, b : DeskP!ApproveFails(n, x, b) <=> Desk!ApproveFails(n, x, b)
    BY <1>1, <1>3, <1>4, <1>5
       DEF DeskP!RegisterFails, Desk!RegisterFails, DeskP!SetStateFails,
           Desk!SetStateFails, DeskP!TakeFails, Desk!TakeFails, DeskP!ApproveFails,
           Desk!ApproveFails, DeskP!Collectable, Desk!Collectable
  <1>13. Desk!Next => DeskP!Next
    BY <1>6, <1>7, <1>8, <1>9, <1>10, <1>11, <1>12
       DEF DeskP!Next, Desk!Next, DeskP!Call, Desk!Call, DeskP!Tick, Desk!Tick,
           DeskP!deskVars, Desk!deskVars, DeskP!Refuse, Desk!Refuse, DeskP!Defer,
           Desk!Defer
  <1>14. [Desk!Next]_(Desk!vars) => [DeskP!Next]_(DeskP!vars)
    BY <1>13 DEF DeskP!vars, Desk!vars
  <1>15. Desk!Init => DeskP!Init
    BY DEF DeskP!Init, Desk!Init, DeskP!Free, Desk!Free, DeskP!NotProved, Desk!NotProved
  <1> QED
    BY <1>14, <1>15, PTL DEF Desk!Spec, DeskP!Spec

----------------------------------------------------------------------------
\* The ceremonies on the agent's desk are well typed.
THEOREM DeskTypeCorrect == Spec => []Desk!TypeOK
  <1>1. DeskP!Spec => []DeskP!TypeOK
    BY DeskP!TypeCorrect, AgentAssumption
       DEF DeskP!Binding, DeskP!Operation, DeskP!IsFiniteSet,
           Desk!Binding, Desk!Operation, Desk!IsFiniteSet
  <1>2. DeskP!TypeOK => Desk!TypeOK
    BY DEF DeskP!TypeOK, Desk!TypeOK, DeskP!Ceremony, Desk!Ceremony, DeskP!State,
           Desk!State, DeskP!Operation, Desk!Operation, DeskP!Binding, Desk!Binding,
           DeskP!NotProved, Desk!NotProved, DeskP!Free, Desk!Free
  <1> QED
    BY <1>1, <1>2, SameDesk, DeskImplemented, PTL DEF DeskRefined

\* What the desk promises, it promises inside the agent: ceremonies approved only by
\* the passphrase, collected once, with few guesses, bounded in number, and frozen
\* between the prompt and the signature (consent.rs).
THEOREM DeskPromises ==
    Spec => /\ [](Desk!ApprovedIsProved /\ Desk!CollectedOnce)
            /\ [](Desk!GuessesRunOut /\ Desk!DeskBounded)
            /\ Desk!Frozen
  <1> USE AgentAssumption DEF DeskP!Binding, DeskP!Operation, DeskP!IsFiniteSet,
           Desk!Binding, Desk!Operation, Desk!IsFiniteSet
  <1>1. DeskP!Spec => []DeskP!ApprovedIsProved
    BY DeskP!ApprovalNeedsProof
  <1>2. DeskP!Spec => []DeskP!CollectedOnce
    BY DeskP!SingleUse
  <1>3. DeskP!Spec => []DeskP!GuessesRunOut
    BY DeskP!NoOracle
  <1>4. DeskP!Spec => []DeskP!DeskBounded
    BY DeskP!Bounded
  <1>5. DeskP!Spec => DeskP!Frozen
    BY DeskP!RequestFrozen
  <1>6. DeskP!ApprovedIsProved => Desk!ApprovedIsProved
    BY DEF DeskP!ApprovedIsProved, Desk!ApprovedIsProved, DeskP!NotProved, Desk!NotProved,
           DeskP!ExpiresAt, Desk!ExpiresAt
  <1>7. DeskP!CollectedOnce => Desk!CollectedOnce
    BY DEF DeskP!CollectedOnce, Desk!CollectedOnce
  <1>8. DeskP!GuessesRunOut => Desk!GuessesRunOut
    BY DEF DeskP!GuessesRunOut, Desk!GuessesRunOut
  <1>9. DeskP!DeskBounded => Desk!DeskBounded
    BY DEF DeskP!DeskBounded, Desk!DeskBounded, DeskP!Len_, Desk!Len_,
           DeskP!Held, Desk!Held, DeskP!Cardinality, Desk!Cardinality
  <1>10. [\A n \in Nonce : DeskP!KeepsRequest(desk[n], desk'[n])]_(DeskP!vars)
         => [\A n \in Nonce : Desk!KeepsRequest(desk[n], desk'[n])]_(Desk!vars)
    BY DEF DeskP!KeepsRequest, Desk!KeepsRequest, DeskP!ExpiresAt, Desk!ExpiresAt,
           DeskP!vars, Desk!vars
  <1> QED
    BY <1>1, <1>2, <1>3, <1>4, <1>5, <1>6, <1>7, <1>8, <1>9, <1>10, SameDesk,
       DeskImplemented, PTL DEF DeskRefined, DeskP!Frozen, Desk!Frozen

----------------------------------------------------------------------------
\* What the agent keeps true of its session, its approvals and its ceremonies.

\* Deadlines are times, and nobody is trusted: no request of the agent gives
\* blanket trust (policy.rs: Approvals.trust has no caller in session.rs).
Session ==
    /\ now \in Nat /\ deadline \in Nat /\ ceiling \in Nat
    /\ open \in BOOLEAN /\ lockdown \in BOOLEAN
    /\ trusted = {}

\* Every approval in force, every ceremony approved and the one being signed
\* were paid for since the last lock.
ApprovalsPaid == \A g \in granted : g \in paid /\ g.capability \in Capabilities

CeremoniesPaid ==
    \A n \in Nonce :
        desk[n].state = "approved" => Payment("consent", n, "passkey") \in paid

SigningPaid == phase = "signing" => Payment("consent", held.nonce, "passkey") \in paid

Authorized ==
    Session /\ ApprovalsPaid /\ CeremoniesPaid /\ SigningPaid /\ LockedHoldsNothing

IInv == Authorized /\ ServedRightly /\ LockdownServesNoApproval

----------------------------------------------------------------------------
\* The lazy expiry approves nothing and fills no slot (consent.rs: expire).
LEMMA ExpiryOnlyLoses ==
    ASSUME Desk!TypeOK, NEW n \in Nonce
    PROVE  /\ Desk!Expire[n] \in Desk!Ceremony
           /\ Desk!Expire[n].state = "approved" => desk[n].state = "approved"
           /\ desk[n].state = "free" => Desk!Expire[n].state = "free"
  <1>1. desk[n] \in Desk!Ceremony
    BY DEF Desk!TypeOK
  <1>2. Desk!Expire[n] = Desk!Swept(desk[n])
    BY DEF Desk!Expire
  <1>3. Desk!Free \in Desk!Ceremony /\ Desk!Free.state = "free"
    BY DEF Desk!Free, Desk!Ceremony, Desk!State, Desk!Operation, Desk!Binding
  <1>4. /\ [desk[n] EXCEPT !.state = "refused"] \in Desk!Ceremony
        /\ [desk[n] EXCEPT !.state = "refused"].state = "refused"
    BY <1>1 DEF Desk!Ceremony, Desk!State
  <1>5. desk[n].state = "free" => Desk!Expire[n] = Desk!Free
    BY <1>2 DEF Desk!Swept
  <1>6. \/ Desk!Expire[n] = desk[n]
        \/ Desk!Expire[n] = Desk!Free
        \/ Desk!Expire[n] = [desk[n] EXCEPT !.state = "refused"]
    BY <1>2, SMTT(30) DEF Desk!Swept
  <1> QED
    BY <1>1, <1>3, <1>4, <1>5, <1>6

\* The calls of the desk that can be made whatever the session's state.
Harmless ==
    \/ Desk!Fails
    \/ \E n \in Nonce : Desk!ApproveGuess(n) \/ Desk!Refuse(n) \/ Desk!Defer(n)
    \/ \E n \in Nonce, p \in Identified \cup {Unknown} : Desk!TakeAnswered(n, p)

\* None of them approves a ceremony or fills an empty desk.
LEMMA HarmlessCalls ==
    ASSUME Desk!TypeOK, Harmless
    PROVE  /\ \A m \in Nonce : desk'[m].state = "approved" => desk[m].state = "approved"
           /\ (\A m \in Nonce : desk[m].state = "free")
              => \A m \in Nonce : desk'[m].state = "free"
  <1>1. Desk!Expire = [n \in Nonce |-> Desk!Swept(desk[n])]
    BY DEF Desk!Expire
  <1> SUFFICES ASSUME NEW m \in Nonce
               PROVE  /\ desk'[m].state = "approved" => desk[m].state = "approved"
                      /\ (\A n \in Nonce : desk[n].state = "free")
                           => desk'[m].state = "free"
    OBVIOUS
  <1>2. CASE desk'[m] = Desk!Expire[m]
    BY <1>2, ExpiryOnlyLoses
  <1>3. CASE Desk!ApproveGuess(m)
    <2> DEFINE c == Desk!Expire[m]
               s == IF c.attempts + 1 >= MaxAttempts THEN "refused" ELSE c.state
    <2>1. c \in Desk!Ceremony /\ c.state = "awaiting" /\ desk[m].state # "free"
      BY <1>3, ExpiryOnlyLoses DEF Desk!ApproveGuess
    <2>2. desk'[m] = [c EXCEPT !.attempts = @ + 1, !.state = s]
      BY <1>1, <1>3 DEF Desk!ApproveGuess
    <2>3. s # "approved"
      BY <2>1
    <2> HIDE DEF s
    <2>4. desk'[m].state = s
      BY <2>1, <2>2 DEF Desk!Ceremony
    <2> QED
      BY <2>1, <2>3, <2>4
  <1>4. CASE Desk!Refuse(m) \/ Desk!Defer(m)
    <2>1. PICK s \in {"refused", "deferred"} : Desk!SetState(m, s)
      BY <1>4 DEF Desk!Refuse, Desk!Defer
    <2>2. /\ desk'[m] = [Desk!Expire[m] EXCEPT !.state = s]
          /\ Desk!Expire[m].state # "free"
      BY <1>1, <2>1 DEF Desk!SetState
    <2>3. desk'[m].state = s /\ desk[m].state # "free"
      BY <2>2, ExpiryOnlyLoses DEF Desk!Ceremony
    <2> QED
      BY <2>3
  <1>5. CASE \E p : Desk!TakeAnswered(m, p)
    <2>1. desk'[m].state = "free"
      BY <1>1, <1>5 DEF Desk!TakeAnswered, Desk!Free
    <2> QED
      BY <2>1
  <1> QED
    BY <1>1, <1>2, <1>3, <1>4, <1>5
       DEF Harmless, Desk!Fails, Desk!ApproveGuess, Desk!Refuse, Desk!Defer,
           Desk!SetState, Desk!TakeAnswered

\* Register fills one slot, with a ceremony that waits.
LEMMA RegisterCall ==
    ASSUME Desk!TypeOK, NEW n \in Nonce, NEW o, NEW r, Desk!Register(n, o, r)
    PROVE  \A m \in Nonce : desk'[m].state = "approved"
                            => m # n /\ desk[m].state = "approved"
  <1>1. Desk!Expire = [m \in Nonce |-> Desk!Swept(desk[m])]
    BY DEF Desk!Expire
  <1>2. desk'[n].state = "awaiting"
    BY <1>1 DEF Desk!Register
  <1>3. \A m \in Nonce \ {n} : desk'[m] = Desk!Expire[m]
    BY <1>1 DEF Desk!Register
  <1> QED
    BY <1>2, <1>3, ExpiryOnlyLoses

\* An approval approves the ceremony it names and no other.
LEMMA ApproveCall ==
    ASSUME Desk!TypeOK, NEW n \in Nonce, NEW c, Desk!ApproveProved(n, c)
    PROVE  \A m \in Nonce \ {n} : desk'[m].state = "approved" => desk[m].state = "approved"
  <1>1. Desk!Expire = [m \in Nonce |-> Desk!Swept(desk[m])]
    BY DEF Desk!Expire
  <1>2. \A m \in Nonce \ {n} : desk'[m] = Desk!Expire[m]
    BY <1>1 DEF Desk!ApproveProved
  <1> QED
    BY <1>2, ExpiryOnlyLoses

----------------------------------------------------------------------------
\* A request that hands nothing out, and one that ends, disturb little.
LEMMA QuietServesNothing ==
    ASSUME Quiet
    PROVE  ServedRightly' /\ LockdownServesNoApproval'
  BY DEF Quiet, Nothing, ServedRightly, ServedIsPaid, ServedInSession,
         LockdownServesNoApproval

\* lock() leaves nothing to be paid for.
LEMMA LockKeeps ==
    ASSUME Authorized, Lock, UNCHANGED now, phase' # "signing"
    PROVE  Authorized'
  BY DEF Authorized, Session, ApprovalsPaid, CeremoniesPaid, SigningPaid,
         LockedHoldsNothing, Lock, Approvals!ClearApprovals, Desk!Clear, Desk!Free

\* A step that leaves approvals, ceremonies and prompts alone, and closes nothing.
LEMMA StillKeeps ==
    ASSUME Authorized,
           UNCHANGED <<policyVars, deskVars, promptVars, paid>>,
           open' = open \/ open' = TRUE,
           now' \in Nat /\ deadline' \in Nat /\ ceiling' \in Nat,
           phase' # "signing" \/ UNCHANGED <<phase, held>>
    PROVE  Authorized'
  BY DEF Authorized, Session, ApprovalsPaid, CeremoniesPaid, SigningPaid,
         LockedHoldsNothing, policyVars, deskVars, promptVars

\* opened() that fails leaves everything alone, or locks.
LEMMA OpenedFailsKeeps ==
    ASSUME Authorized, OpenedFails, UNCHANGED now, phase' # "signing"
    PROVE  Authorized'
  <1>1. CASE Lock
    BY <1>1, LockKeeps
  <1>2. CASE UNCHANGED <<sessionVars, policyVars, deskVars, promptVars, paid>>
    BY <1>2, StillKeeps DEF sessionVars, Authorized, Session
  <1> QED
    BY <1>1, <1>2 DEF OpenedFails

\* touch() moves the deadline to another time.
LEMMA TouchType ==
    ASSUME Session, Touch
    PROVE  open' = open /\ deadline' \in Nat /\ ceiling' \in Nat
  BY AgentAssumption DEF Session, Touch

\* A session that opened() admits had not expired.
LEMMA OpenedIsUnexpired ==
    ASSUME Session, Opened
    PROVE  Unexpired
  BY DEF Session, Opened, Lapsed, Unexpired

----------------------------------------------------------------------------
\* The requests, one by one.

\* The end of a request: nothing is being signed any more.
LEMMA DoneEnds ==
    ASSUME Done
    PROVE  phase' # "signing" /\ UNCHANGED now
  BY DEF Done

\* Requests that leave approvals, ceremonies and prompts alone.
LEMMA PlainRequests ==
    ASSUME IInv, NEW p \in Process,
           \/ Unlock(p) \/ TouchRequest(p) \/ Read(p)
           \/ \E i \in Login : Add(p, i)
           \/ \E i \in Items : Delete(p, i)
           \/ \E f \in Key : SshGenerate(p, f)
           \/ \E i \in Svc : SecretPut(p, i) \/ SecretDelete(p, i)
    PROVE  IInv'
  <1>1. CASE Unlock(p)
    <2>1. now' \in Nat /\ deadline' \in Nat /\ ceiling' \in Nat
      BY <1>1, AgentAssumption DEF Unlock, Done, IInv, Authorized, Session
    <2> QED
      BY <1>1, <2>1, StillKeeps, QuietServesNothing, DoneEnds DEF Unlock, IInv
  <1>2. CASE ~Unlock(p)
    <2>1. Touch /\ Done /\ Quiet /\ UNCHANGED <<policyVars, deskVars, promptVars, paid>>
      BY <1>2 DEF TouchRequest, Read, Add, Delete, SshGenerate, SecretPut, SecretDelete,
                  Change
    <2> QED
      BY <2>1, StillKeeps, TouchType, QuietServesNothing, DoneEnds DEF IInv, Authorized, Session
  <1> QED
    BY <1>1, <1>2

\* A request that waits for the vault's lock has done nothing yet.
LEMMA WaitKeeps ==
    ASSUME IInv, NEW p \in Process, WaitForLock(p)
    PROVE  IInv'
  <1>1. UNCHANGED <<now, sessionVars, policyVars, deskVars, promptVars, paid, out>>
        /\ phase' # "signing"
    BY DEF WaitForLock
  <1>2. Authorized'
    BY <1>1, StillKeeps DEF IInv, Authorized, Session, sessionVars
  <1> QED
    BY <1>1, <1>2
       DEF IInv, ServedRightly, ServedIsPaid, ServedInSession, ClientFor, KeyOf,
           LockdownServesNoApproval, policyVars

\* Requests that lock, or may.
LEMMA LockingRequests ==
    ASSUME IInv, NEW p \in Process, LockRequest(p) \/ Shutdown(p) \/ NotOpen(p)
    PROVE  IInv'
  <1>1. Quiet /\ UNCHANGED now /\ phase' # "signing" /\ (Lock \/ OpenedFails)
    BY DEF LockRequest, Shutdown, NotOpen, Done
  <1> QED
    BY <1>1, LockKeeps, OpenedFailsKeeps, QuietServesNothing DEF IInv

\* A verdict without trust: what is remembered was approved, and nothing is
\* while lockdown is on (policy.rs: consider).
LEMMA Verdicts ==
    ASSUME Session, NEW c, NEW i, NEW k
    PROVE  /\ Approvals!Consider(c, i, k) = "remembered"
              => Payment(c, i, k) \in granted /\ ~lockdown
           /\ Approvals!Consider(c, i, k) = "must-ask" => ~lockdown
  BY DEF Session, Approvals!Consider, Payment

\* A yes is paid for and changes nothing else (policy.rs: grant).
LEMMA ApproveKeeps ==
    ASSUME Authorized, NEW c, NEW i, NEW k \in Capabilities, Approve(c, i, k), open, Touch, Done,
           UNCHANGED deskVars
    PROVE  Authorized' /\ Payment(c, i, k) \in paid' /\ UNCHANGED lockdown
  <1>1. Payment(c, i, k) \in paid' /\ UNCHANGED lockdown
    BY DEF Approve, Approvals!Grant
  <1>2. open' = open /\ deadline' \in Nat /\ ceiling' \in Nat /\ now' \in Nat
    BY TouchType, DoneEnds DEF Authorized, Session
  <1> QED
    BY <1>1, <1>2, DoneEnds
       DEF Authorized, Session, ApprovalsPaid, CeremoniesPaid, SigningPaid,
           LockedHoldsNothing, Approve, Approvals!Grant, deskVars, Payment

\* What is handed out under the client's own payment, outside lockdown and in a
\* session that has not expired, is handed out rightly.
LEMMA ServeKeeps ==
    ASSUME NEW use, NEW p, NEW i, NEW k, Serve(use, p, i, k), Unexpired, ~lockdown',
           NEW c, c = ClientFor([use |-> use, who |-> p, item |-> i,
                                 capability |-> k, fresh |-> Unexpired]),
           Payment(c, i, k) \in paid'
    PROVE  ServedRightly' /\ LockdownServesNoApproval'
  <1>1. ClientFor(out)' = c
    BY DEF Serve, ClientFor, KeyOf
  <1> QED
    BY <1>1 DEF Serve, ServedRightly, ServedIsPaid, ServedInSession, Payment,
         LockdownServesNoApproval

\* Prompts change while the vault is open, or are taken away.
LEMMA PromptsKeep ==
    ASSUME Authorized, UNCHANGED <<policyVars, deskVars, paid>>,
           open' = open, now' \in Nat /\ deadline' \in Nat /\ ceiling' \in Nat,
           phase' # "signing",
           open \/ (sshPending' \subseteq sshPending /\ secretPending' \subseteq secretPending)
    PROVE  Authorized'
  BY DEF Authorized, Session, ApprovalsPaid, CeremoniesPaid, SigningPaid,
         LockedHoldsNothing, policyVars, deskVars

\* The ways a request that opened() admitted can end: with nothing to show,
LEMMA AdmittedQuietly ==
    ASSUME IInv, Touch, Done, Quiet, UNCHANGED <<policyVars, deskVars, paid>>,
           open \/ UNCHANGED promptVars
    PROVE  IInv'
  <1>1. open' = open /\ deadline' \in Nat /\ ceiling' \in Nat /\ now' \in Nat
    BY TouchType, DoneEnds DEF IInv, Authorized, Session
  <1> QED
    BY <1>1, StillKeeps, PromptsKeep, QuietServesNothing, DoneEnds DEF IInv

\* with what was approved before,
LEMMA RememberedServes ==
    ASSUME IInv, Opened, Touch, Done,
           UNCHANGED <<policyVars, deskVars, promptVars, paid>>,
           NEW use, NEW p, NEW i, NEW k, NEW c,
           Serve(use, p, i, k), Approvals!Consider(c, i, k) = "remembered",
           c = ClientFor([use |-> use, who |-> p, item |-> i,
                          capability |-> k, fresh |-> Unexpired])
    PROVE  IInv'
  <1>1. open' = open /\ deadline' \in Nat /\ ceiling' \in Nat /\ now' \in Nat
    BY TouchType, DoneEnds DEF IInv, Authorized, Session
  <1>2. Authorized'
    BY <1>1, StillKeeps, DoneEnds DEF IInv
  <1>3. Payment(c, i, k) \in paid' /\ ~lockdown' /\ Unexpired
    BY Verdicts, OpenedIsUnexpired DEF IInv, Authorized, ApprovalsPaid, policyVars
  <1> QED
    BY <1>2, <1>3, ServeKeeps DEF IInv

\* or with what is approved now.
LEMMA ApprovedServes ==
    ASSUME IInv, Opened, Touch, Done, UNCHANGED deskVars,
           NEW use, NEW p, NEW i, NEW k \in Capabilities, NEW c,
           Approvals!Consider(c, i, k) = "must-ask", Approve(c, i, k),
           Serve(use, p, i, k) \/ Quiet,
           c = ClientFor([use |-> use, who |-> p, item |-> i,
                          capability |-> k, fresh |-> Unexpired])
    PROVE  IInv'
  <1>1. Authorized' /\ Payment(c, i, k) \in paid' /\ ~lockdown' /\ Unexpired
    BY ApproveKeeps, Verdicts, OpenedIsUnexpired DEF IInv, Authorized, Opened
  <1> QED
    BY <1>1, QuietServesNothing, ServeKeeps DEF IInv

\* The client of a program's own requests is the program.
LEMMA ProgramIsClient ==
    ASSUME NEW p, NEW i, NEW use \in {"secret", "totp"}, NEW k
    PROVE  KeyOf(p) = ClientFor([use |-> use, who |-> p, item |-> i,
                                 capability |-> k, fresh |-> Unexpired])
  BY DEF ClientFor

\* Reveal hands a secret out on a remembered approval or a new one.
LEMMA RevealKeeps ==
    ASSUME IInv, NEW p \in Process, NEW i \in Items, NEW k \in Asked,
           NEW proof \in Proof, Reveal(p, i, k, proof)
    PROVE  IInv'
  <1> DEFINE verdict == Approvals!Consider(KeyOf(p), i, k)
  <1>1. Opened /\ Touch /\ Done /\ UNCHANGED <<deskVars, promptVars>>
    BY DEF Reveal
  <1>2. CASE UNCHANGED <<policyVars, paid>> /\ Quiet
    BY <1>1, <1>2, AdmittedQuietly
  <1>3. CASE /\ verdict = "remembered" /\ Serve("secret", p, i, k)
             /\ UNCHANGED <<policyVars, paid>>
    BY <1>1, <1>3, RememberedServes, ProgramIsClient
  <1>4. CASE /\ verdict = "must-ask" /\ Approve(KeyOf(p), i, k)
             /\ Serve("secret", p, i, k) \/ Quiet
    <2>1. KeyOf(p) = ClientFor([use |-> "secret", who |-> p, item |-> i,
                                capability |-> k, fresh |-> Unexpired])
      BY ProgramIsClient
    <2> QED
      BY <1>1, <1>4, <2>1, ApprovedServes DEF Capabilities
  <1> QED
    BY <1>2, <1>3, <1>4 DEF Reveal, Answer

\* TotpCode likewise, though it asks for the verdict before it looks at the session.
LEMMA TotpCodeKeeps ==
    ASSUME IInv, NEW p \in Process, NEW i \in Items, NEW k \in Asked,
           NEW proof \in Proof, TotpCode(p, i, k, proof)
    PROVE  IInv'
  <1> DEFINE verdict == Approvals!Consider(KeyOf(p), i, k)
  <1>1. Done /\ UNCHANGED <<deskVars, promptVars>>
    BY DEF TotpCode
  <1>2. CASE UNCHANGED <<policyVars, paid>> /\ Quiet
    <2>1. Touch \/ UNCHANGED sessionVars
      BY DEF TotpCode
    <2>2. open' = open /\ deadline' \in Nat /\ ceiling' \in Nat /\ now' \in Nat
      BY <1>1, <2>1, TouchType, DoneEnds DEF sessionVars, IInv, Authorized, Session
    <2> QED
      BY <1>1, <1>2, <2>2, StillKeeps, QuietServesNothing, DoneEnds DEF IInv
  <1>3. CASE /\ verdict = "remembered" /\ Opened /\ Touch
             /\ Serve("totp", p, i, k) /\ UNCHANGED <<policyVars, paid>>
    BY <1>1, <1>3, RememberedServes, ProgramIsClient
  <1>4. CASE /\ verdict = "must-ask" /\ Opened /\ Touch /\ Approve(KeyOf(p), i, k)
             /\ Serve("totp", p, i, k) \/ Quiet
    <2>1. KeyOf(p) = ClientFor([use |-> "totp", who |-> p, item |-> i,
                                capability |-> k, fresh |-> Unexpired])
      BY ProgramIsClient
    <2> QED
      BY <1>1, <1>4, <2>1, ApprovedServes DEF Capabilities
  <1> QED
    BY <1>2, <1>3, <1>4 DEF TotpCode, Code, Answer

\* Withdrawing an approval withdraws what it was paid with and nothing more
\* (policy.rs: revoke, revoke_client).
LEMMA WithdrawKeeps ==
    ASSUME IInv, NEW p \in Process, NEW c, NEW i, Withdraw(p, c, i)
    PROVE  IInv'
  <1>1. Done /\ Quiet /\ UNCHANGED <<sessionVars, deskVars, promptVars, lockdown>>
    BY DEF Withdraw, Approvals!Revoke, Approvals!RevokeClient
  <1>2. granted' \subseteq granted /\ trusted' = {}
    BY DEF Withdraw, Approvals!Revoke, Approvals!RevokeClient, IInv, Authorized, Session
  <1>3. \A g \in granted' : g \in paid' /\ g.capability \in Capabilities
    BY DEF Withdraw, Approvals!Revoke, Approvals!RevokeClient, Kept, KeptBut, IInv,
           Authorized, ApprovalsPaid
  <1>4. \A n : Payment("consent", n, "passkey") \in paid
               => Payment("consent", n, "passkey") \in paid'
    BY DEF Withdraw, Kept, KeptBut, Payment
  <1>5. Authorized'
    BY <1>1, <1>2, <1>3, <1>4, DoneEnds
       DEF IInv, Authorized, Session, ApprovalsPaid, CeremoniesPaid, SigningPaid,
           LockedHoldsNothing, sessionVars, deskVars, promptVars
  <1> QED
    BY <1>1, <1>5, QuietServesNothing DEF IInv

\* Lockdown closes the door on approvals and withdraws none.
LEMMA LockdownKeeps ==
    ASSUME IInv, NEW p \in Process, NEW on \in BOOLEAN, Lockdown(p, on)
    PROVE  IInv'
  <1>1. Done /\ Quiet /\ UNCHANGED <<sessionVars, deskVars, promptVars, paid, granted>>
    BY DEF Lockdown, Approvals!SetLockdown
  <1>2. lockdown' \in BOOLEAN /\ trusted' = {}
    BY DEF Lockdown, Approvals!SetLockdown, IInv, Authorized, Session
  <1>3. Authorized'
    BY <1>1, <1>2, DoneEnds
       DEF IInv, Authorized, Session, ApprovalsPaid, CeremoniesPaid, SigningPaid,
           LockedHoldsNothing, sessionVars, deskVars, promptVars
  <1> QED
    BY <1>1, <1>3, QuietServesNothing DEF IInv

\* The SSH daemon signs on a remembered approval, and puts a first use on screen.
LEMMA SshKeeps ==
    ASSUME IInv, NEW p \in Process, NEW f \in Key,
           SshSign(p, f) \/ SshApprove(p, f) \/ SshDismiss(p, f)
    PROVE  IInv'
  <1>1. CASE SshSign(p, f)
    <2>1. Opened /\ open /\ Touch /\ Done /\ UNCHANGED <<policyVars, deskVars, paid>>
      BY <1>1 DEF SshSign, Opened
    <2>2. CASE Quiet
      BY <2>1, <2>2, AdmittedQuietly
    <2>3. CASE /\ Approvals!Consider(SshClient, f, "ssh-sign") = "remembered"
               /\ Serve("signature", p, f, "ssh-sign")
      <3>1. SshClient = ClientFor([use |-> "signature", who |-> p, item |-> f,
                                   capability |-> "ssh-sign", fresh |-> Unexpired])
        BY DEF ClientFor
      <3>2. UNCHANGED promptVars
        BY <1>1, <2>3 DEF SshSign, promptVars
      <3> QED
        BY <2>1, <2>3, <3>1, <3>2, RememberedServes
    <2> QED
      BY <1>1, <2>2, <2>3 DEF SshSign
  <1>2. CASE SshApprove(p, f)
    BY <1>2, ApproveKeeps, QuietServesNothing DEF SshApprove, Opened, IInv, Capabilities
  <1>3. CASE SshDismiss(p, f)
    BY <1>3, PromptsKeep, QuietServesNothing, DoneEnds
       DEF SshDismiss, sessionVars, IInv, Authorized, Session
  <1> QED
    BY <1>1, <1>2, <1>3

\* The Secret Service reads on a remembered approval or a new one.
LEMMA SecretKeeps ==
    ASSUME IInv, NEW p \in Process, NEW i \in Svc,
           \/ \E proof \in Proof : SecretGet(p, i, proof)
           \/ SecretApprove(p, i) \/ SecretDismiss(p, i)
    PROVE  IInv'
  <1> DEFINE verdict == Approvals!Consider(SecretClient, i, "secret-service")
  <1>1. ASSUME NEW proof \in Proof, SecretGet(p, i, proof) PROVE IInv'
    <2>1. Opened /\ open /\ Touch /\ Done /\ UNCHANGED deskVars
      BY <1>1 DEF SecretGet, Opened
    <2>2. SecretClient = ClientFor([use |-> "item", who |-> p, item |-> i,
                                    capability |-> "secret-service", fresh |-> Unexpired])
      BY DEF ClientFor
    <2>3. CASE Quiet /\ UNCHANGED <<policyVars, paid>>
      BY <2>1, <2>3, AdmittedQuietly
    <2>4. CASE /\ verdict = "remembered" /\ Serve("item", p, i, "secret-service")
               /\ UNCHANGED <<policyVars, secretPending, paid, sshPending>>
      BY <2>1, <2>2, <2>4, RememberedServes DEF promptVars
    <2>5. CASE /\ verdict = "must-ask" /\ Approve(SecretClient, i, "secret-service")
               /\ Serve("item", p, i, "secret-service")
      BY <2>1, <2>2, <2>5, ApprovedServes DEF Capabilities
    <2> QED
      BY <1>1, <2>3, <2>4, <2>5 DEF SecretGet
  <1>2. CASE SecretApprove(p, i)
    BY <1>2, ApproveKeeps, QuietServesNothing DEF SecretApprove, Opened, IInv, Capabilities
  <1>3. CASE SecretDismiss(p, i)
    BY <1>3, PromptsKeep, QuietServesNothing, DoneEnds
       DEF SecretDismiss, sessionVars, IInv, Authorized, Session
  <1> QED
    BY <1>1, <1>2, <1>3

----------------------------------------------------------------------------
\* The requests about ceremonies.

\* A call of the desk that approves nothing and fills no slot keeps the rest.
LEMMA HarmlessKeeps ==
    ASSUME Authorized, Desk!TypeOK, Harmless, UNCHANGED <<policyVars, promptVars, paid>>,
           open' = open, now' \in Nat /\ deadline' \in Nat /\ ceiling' \in Nat,
           SigningPaid'
    PROVE  Authorized'
  <1>1. CeremoniesPaid'
    BY HarmlessCalls DEF Authorized, CeremoniesPaid
  <1>2. LockedHoldsNothing'
    BY HarmlessCalls DEF Authorized, LockedHoldsNothing, policyVars, promptVars
  <1> QED
    BY <1>1, <1>2 DEF Authorized, Session, ApprovalsPaid, policyVars

\* A new ceremony has not been paid for.
LEMMA BeginKeeps ==
    ASSUME IInv, Desk!TypeOK, NEW p \in Process, NEW n \in Nonce,
           NEW op, NEW allow, NEW b, PasskeyBegin(p, n, op, allow, b)
    PROVE  IInv'
  <1>1. /\ Opened /\ open /\ Touch /\ Done /\ Quiet
        /\ UNCHANGED <<policyVars, promptVars>>
    BY DEF PasskeyBegin, Opened
  <1>2. open' = open /\ deadline' \in Nat /\ ceiling' \in Nat /\ now' \in Nat
    BY <1>1, TouchType, DoneEnds DEF IInv, Authorized, Session
  <1>3. CASE \E o, r : /\ Desk!Register(n, o, r)
                       /\ paid' = paid \ {Payment("consent", n, "passkey")}
    <2>1. CeremoniesPaid'
      BY <1>3, RegisterCall DEF IInv, Authorized, CeremoniesPaid, Payment
    <2>2. ApprovalsPaid'
      BY <1>1, <1>3, AgentAssumption
         DEF IInv, Authorized, ApprovalsPaid, policyVars, Payment, Capabilities
    <2> QED
      BY <1>1, <1>2, <2>1, <2>2, QuietServesNothing, DoneEnds
         DEF IInv, Authorized, Session, SigningPaid, LockedHoldsNothing, policyVars
  <1>4. CASE \E r : Desk!RegisterFails(n, r) /\ UNCHANGED paid
    BY <1>1, <1>2, <1>4, HarmlessKeeps, QuietServesNothing, DoneEnds
       DEF Desk!RegisterFails, Harmless, SigningPaid, IInv
  <1> QED
    BY <1>3, <1>4 DEF PasskeyBegin

\* A refusal, a deferral or a wrong passphrase approves nothing, whatever the
\* session's state.
LEMMA DeclineKeeps ==
    ASSUME IInv, Desk!TypeOK, NEW p \in Process, NEW n \in Nonce,
           PasskeyDecline(p, n) \/ PasskeyGuess(p, n)
    PROVE  IInv'
  <1>1. /\ Done /\ Quiet /\ UNCHANGED <<policyVars, promptVars, paid>>
        /\ Touch \/ UNCHANGED sessionVars
    BY DEF PasskeyDecline, PasskeyGuess
  <1>2. Harmless
    BY DEF PasskeyDecline, PasskeyGuess, Harmless, Desk!SetStateFails, Desk!ApproveFails
  <1>3. open' = open /\ deadline' \in Nat /\ ceiling' \in Nat /\ now' \in Nat
    BY <1>1, TouchType, DoneEnds DEF sessionVars, IInv, Authorized, Session
  <1> QED
    BY <1>1, <1>2, <1>3, HarmlessKeeps, QuietServesNothing, DoneEnds DEF IInv, SigningPaid

\* The right passphrase pays for the one ceremony it approves.
LEMMA PasskeyApproveKeeps ==
    ASSUME IInv, Desk!TypeOK, NEW p \in Process, NEW n \in Nonce, NEW named,
           PasskeyApprove(p, n, named)
    PROVE  IInv'
  <1>1. /\ Opened /\ open /\ Touch /\ Done /\ Quiet
        /\ UNCHANGED <<policyVars, promptVars>>
    BY DEF PasskeyApprove, Opened
  <1>2. open' = open /\ deadline' \in Nat /\ ceiling' \in Nat /\ now' \in Nat
    BY <1>1, TouchType, DoneEnds DEF IInv, Authorized, Session
  <1>3. CASE /\ Desk!ApproveProved(n, named)
             /\ paid' = paid \cup {Payment("consent", n, "passkey")}
    <2>1. CeremoniesPaid'
      BY <1>3, ApproveCall DEF IInv, Authorized, CeremoniesPaid
    <2> QED
      BY <1>1, <1>2, <1>3, <2>1, QuietServesNothing, DoneEnds
         DEF IInv, Authorized, Session, ApprovalsPaid, SigningPaid, LockedHoldsNothing,
             policyVars
  <1>4. CASE Desk!ApproveFails(n, named, TRUE) /\ UNCHANGED paid
    BY <1>1, <1>2, <1>4, HarmlessKeeps, QuietServesNothing, DoneEnds
       DEF Desk!ApproveFails, Harmless, SigningPaid, IInv
  <1> QED
    BY <1>3, <1>4 DEF PasskeyApprove

\* What is collected to be signed is an approval, and was paid for.
LEMMA CollectKeeps ==
    ASSUME IInv, Desk!TypeOK, NEW p \in Process, NEW n \in Nonce, PasskeyCollect(p, n)
    PROVE  IInv'
  <1>1. /\ Quiet /\ UNCHANGED <<now, sessionVars, policyVars, promptVars, paid>>
    BY DEF PasskeyCollect, Done
  <1>2. Harmless
    BY OwnerType DEF PasskeyCollect, Harmless, Desk!TakeFails
  <1>3. SigningPaid'
    <2>1. CASE phase' # "signing"
      BY <2>1 DEF SigningPaid
    <2>2. CASE phase' = "signing"
      <3>1. Desk!Expire[n].state = "approved" /\ held'.nonce = n
        BY <2>2, DoneEnds DEF PasskeyCollect
      <3>2. Payment("consent", n, "passkey") \in paid
        BY <3>1, ExpiryOnlyLoses DEF IInv, Authorized, CeremoniesPaid
      <3> QED
        BY <1>1, <3>1, <3>2 DEF SigningPaid
    <2> QED
      BY <2>1, <2>2
  <1> QED
    BY <1>1, <1>2, <1>3, HarmlessKeeps, QuietServesNothing
       DEF IInv, Authorized, Session, sessionVars

\* The signature is made in a session that has not expired, or not at all.
LEMMA SignKeeps ==
    ASSUME IInv, Sign
    PROVE  IInv'
  <1>1. Done
    BY DEF Sign
  <1>2. CASE OpenedFails /\ Quiet
    BY <1>1, <1>2, DoneEnds, OpenedFailsKeeps, QuietServesNothing DEF IInv
  <1>3. CASE /\ Opened /\ Touch /\ UNCHANGED <<policyVars, deskVars, promptVars, paid>>
    <2>1. open' = open /\ deadline' \in Nat /\ ceiling' \in Nat /\ now' \in Nat
      BY <1>1, <1>3, TouchType, DoneEnds DEF IInv, Authorized, Session
    <2>2. Authorized'
      BY <1>1, <1>3, <2>1, StillKeeps, DoneEnds DEF IInv
    <2>3. Unexpired /\ Payment("consent", held.nonce, "passkey") \in paid'
      BY <1>3, OpenedIsUnexpired DEF IInv, Authorized, SigningPaid, Sign
    <2>4. CASE \E use \in {"assertion", "creation"} :
                  Serve(use, peer, held.nonce, "passkey")
      <3>1. /\ out'.fresh /\ out'.capability = "passkey" /\ out'.item = held.nonce
            /\ out'.use \in {"assertion", "creation"}
        BY <2>3, <2>4 DEF Serve
      <3>2. ClientFor(out)' = "consent"
        BY <3>1 DEF ClientFor
      <3> DEFINE x == Payment("consent", held.nonce, "passkey")
      <3>3. x.client = "consent" /\ x.item = held.nonce /\ x.capability = "passkey"
        BY DEF Payment
      <3>4. ServedIsPaid'
        BY <2>3, <3>1, <3>2, <3>3 DEF ServedIsPaid
      <3>5. ServedInSession' /\ LockdownServesNoApproval'
        BY <3>1 DEF ServedInSession, LockdownServesNoApproval
      <3> QED
        BY <2>2, <3>4, <3>5 DEF ServedRightly, IInv
    <2>5. \/ Quiet
          \/ \E use \in {"assertion", "creation"} :
               Serve(use, peer, held.nonce, "passkey")
      BY <1>3 DEF Sign
    <2> QED
      BY <2>2, <2>4, <2>5, QuietServesNothing DEF IInv
  <1> QED
    BY <1>2, <1>3 DEF Sign

----------------------------------------------------------------------------
\* The serve loop, the host and the life of the process.
LEMMA LoopKeeps ==
    ASSUME IInv, LoopPass
    PROVE  IInv'
  <1>1. Quiet /\ UNCHANGED now /\ phase' # "signing"
    BY DEF LoopPass
  <1>2. Lock \/ UNCHANGED <<sessionVars, policyVars, deskVars, promptVars, paid>>
    BY DEF LoopPass
  <1> QED
    BY <1>1, <1>2, LockKeeps, StillKeeps, QuietServesNothing
       DEF IInv, Authorized, Session, sessionVars

\* A new process remembers nothing.
LEMMA RestartKeeps ==
    ASSUME IInv, Restart
    PROVE  IInv'
  <1>1. Quiet
    BY DEF Restart
  <1> QED
    BY <1>1, QuietServesNothing
       DEF IInv, Authorized, Session, ApprovalsPaid, CeremoniesPaid, SigningPaid,
           LockedHoldsNothing, Restart, Desk!Clear, Desk!Free

\* The rest leaves the session and what it handed out alone, or hands out nothing.
LEMMA OtherKeeps ==
    ASSUME IInv, now \in 0 .. MaxNow,
           \/ Environment \/ Accept \/ Dropped \/ UNCHANGED vars
    PROVE  IInv'
  <1>1. UNCHANGED <<open, deadline, ceiling, policyVars, deskVars, promptVars, paid>>
    BY DEF Environment, Tick, HostEvent, CliRekey, CliHolds, CliWrite, Accept, Dropped, vars,
           sessionVars
  <1>2. now' \in Nat
    BY AgentAssumption
       DEF Environment, Tick, HostEvent, CliRekey, CliHolds, CliWrite, Accept, Dropped, Done, vars,
           IInv, Authorized, Session
  <1>3. phase' # "signing" \/ UNCHANGED <<phase, held>>
    BY DEF Environment, Tick, HostEvent, CliRekey, CliHolds, CliWrite, Accept, Dropped, Done, vars
  <1>4. Quiet \/ UNCHANGED out
    BY DEF Environment, Tick, HostEvent, CliRekey, CliHolds, CliWrite, Accept, Dropped, vars
  <1>5. Authorized'
    BY <1>1, <1>2, <1>3, StillKeeps DEF IInv, Authorized, Session
  <1>6. CASE UNCHANGED out
    BY <1>1, <1>5, <1>6
       DEF IInv, ServedRightly, ServedIsPaid, ServedInSession, ClientFor, KeyOf,
           LockdownServesNoApproval, policyVars
  <1> QED
    BY <1>4, <1>5, <1>6, QuietServesNothing DEF IInv

----------------------------------------------------------------------------
\* One case per request.
LEMMA RequestKeeps ==
    ASSUME IInv, Desk!TypeOK, NEW p \in Process, Dispatch(p)
    PROVE  IInv'
  <1>1. CASE \E i \in Items, k \in Asked, proof \in Proof :
               Reveal(p, i, k, proof) \/ TotpCode(p, i, k, proof)
    BY <1>1, RevealKeeps, TotpCodeKeeps
  <1>2. CASE \/ \E c \in Clients, i \in Items : Withdraw(p, c, i)
             \/ \E on \in BOOLEAN : Lockdown(p, on)
    BY <1>2, WithdrawKeeps, LockdownKeeps
  <1>3. CASE \E f \in Key : SshSign(p, f) \/ SshApprove(p, f) \/ SshDismiss(p, f)
    BY <1>3, SshKeeps
  <1>4. CASE \/ \E i \in Svc : SecretApprove(p, i) \/ SecretDismiss(p, i)
             \/ \E i \in Svc, proof \in Proof : SecretGet(p, i, proof)
    BY <1>4, SecretKeeps
  <1>5. CASE \E n \in Nonce, op \in {"create", "assert"}, allow \in SUBSET Cred,
                b \in Bindings : PasskeyBegin(p, n, op, allow, b)
    BY <1>5, BeginKeeps
  <1>6. CASE \E n \in Nonce : PasskeyDecline(p, n) \/ PasskeyGuess(p, n)
    BY <1>6, DeclineKeeps
  <1>7. CASE \E n \in Nonce : PasskeyCollect(p, n)
    BY <1>7, CollectKeeps
  <1>8. CASE \E n \in Nonce, named \in Cred \cup {NoCred} : PasskeyApprove(p, n, named)
    BY <1>8, PasskeyApproveKeeps
  <1> QED
    BY <1>1, <1>2, <1>3, <1>4, <1>5, <1>6, <1>7, <1>8, PlainRequests, WaitKeeps,
       LockingRequests DEF Dispatch

\* Every step of the agent keeps the invariant.
LEMMA NextKeeps ==
    ASSUME IInv, Desk!TypeOK, now \in 0 .. MaxNow, [Next]_vars
    PROVE  IInv'
  BY RequestKeeps, LoopKeeps, SignKeeps, RestartKeeps, OtherKeeps DEF Next

\* A new agent is locked and has handed nothing out.
LEMMA InitKeeps == Init => IInv
  <1> SUFFICES ASSUME Init PROVE IInv
    OBVIOUS
  <1>1. \A n \in Nonce : desk[n].state = "free"
    BY DEF Init, Desk!Init, Desk!Free
  <1>2. Session
    <2>1. open = FALSE /\ lockdown = FALSE
      BY Zenon DEF Init, Approvals!Init
    <2>2. now = 0 /\ deadline = 0 /\ ceiling = 0 /\ trusted = {}
      BY DEF Init, Approvals!Init
    <2> QED
      BY <2>1, <2>2 DEF Session
  <1>3. ApprovalsPaid /\ SigningPaid
    BY DEF Init, Approvals!Init, ApprovalsPaid, SigningPaid
  <1>4. CeremoniesPaid /\ LockedHoldsNothing
    BY <1>1 DEF Init, Approvals!Init, CeremoniesPaid, LockedHoldsNothing
  <1>5. ServedRightly /\ LockdownServesNoApproval
    BY DEF Init, Nothing, ServedRightly, ServedIsPaid, ServedInSession,
           LockdownServesNoApproval
  <1> QED
    BY <1>2, <1>3, <1>4, <1>5 DEF IInv, Authorized

\* The whole invariant, in every reachable state of the agent.
THEOREM AgentInvariant == Spec => []IInv
  <1>1. Init => now \in 0 .. MaxNow
    BY AgentAssumption DEF Init, Desk!Init
  <1>2. now \in 0 .. MaxNow /\ [Next]_vars => (now \in 0 .. MaxNow)'
    BY NowStep
  <1>3. IInv /\ Desk!TypeOK /\ now \in 0 .. MaxNow /\ [Next]_vars => IInv'
    BY NextKeeps
  <1> QED
    BY <1>1, <1>2, <1>3, InitKeeps, DeskTypeCorrect, PTL DEF Spec

\* A locked vault holds no approval, no ceremony and no prompt, whatever closed it
\* and whatever was asked since (session.rs: lock).
THEOREM LockForgets == Spec => []LockedHoldsNothing
  BY AgentInvariant, PTL DEF IInv, Authorized

\* What the agent hands out was paid for with the passphrase, for that client,
\* item and capability, since the last lock and not withdrawn; and leaves in a
\* session that had not expired (session.rs: opened, reveal, totp_code, ssh_sign,
\* secret_get, passkey_collect).
THEOREM HandedOutRightly == Spec => []ServedRightly
  BY AgentInvariant, PTL DEF IInv

\* In lockdown no approval serves anything, whoever holds it; a passkey's ceremony is
\* not an approval (policy.rs: set_lockdown; session.rs: passkey_collect).
THEOREM LockdownHolds == Spec => []LockdownServesNoApproval
  BY AgentInvariant, PTL DEF IInv

----------------------------------------------------------------------------
\* The approvals of the agent, step by step.

\* A process that has exited locked first.
ExitedLocked == phase = "exited" => ~open

ApprovalCall == [Approvals!Next]_(Approvals!vars)

\* A step that does not touch the approvals is no call of them.
LEMMA ApprovalsStill ==
    ASSUME UNCHANGED policyVars
    PROVE  ApprovalCall
  BY DEF policyVars, Approvals!vars, ApprovalCall

\* lock() clears the approvals (session.rs: lock).
LEMMA LockClearsApprovals ==
    ASSUME Lock
    PROVE  ApprovalCall
  BY DEF Lock, Approvals!Next, ApprovalCall

\* A request the vault is not open for leaves the approvals alone or locks
\* (session.rs: opened).
LEMMA OpenedFailsApprovals ==
    ASSUME OpenedFails
    PROVE  ApprovalCall
  BY ApprovalsStill, LockClearsApprovals DEF OpenedFails

\* A yes is one grant.
LEMMA ApproveGrants ==
    ASSUME NEW c \in Clients, NEW i \in Items, NEW k \in Capabilities, Approve(c, i, k)
    PROVE  ApprovalCall
  BY DEF Approve, Approvals!Next, ApprovalCall

\* Every request is one call of the approvals, or none.
LEMMA RequestApprovals ==
    ASSUME NEW p \in Process, Dispatch(p)
    PROVE  ApprovalCall
  <1>1. CASE \/ Unlock(p) \/ TouchRequest(p) \/ Read(p) \/ WaitForLock(p)
             \/ \E i \in Login : Add(p, i)
             \/ \E i \in Items : Delete(p, i)
             \/ \E f \in Key : SshGenerate(p, f)
             \/ \E i \in Svc : SecretPut(p, i) \/ SecretDelete(p, i)
    BY <1>1, ApprovalsStill DEF Unlock, TouchRequest, Read, WaitForLock, Add, Delete,
         SshGenerate, SecretPut, SecretDelete, Change
  <1>2. CASE LockRequest(p) \/ Shutdown(p) \/ NotOpen(p)
    BY <1>2, LockClearsApprovals, OpenedFailsApprovals DEF LockRequest, Shutdown, NotOpen
  <1>3. ASSUME NEW i \in Items, NEW k \in Asked, NEW proof \in Proof,
               Reveal(p, i, k, proof) \/ TotpCode(p, i, k, proof)
        PROVE  ApprovalCall
    <2>1. UNCHANGED policyVars \/ Approve(KeyOf(p), i, k)
      BY <1>3 DEF Reveal, TotpCode
    <2>2. KeyOf(p) \in Clients /\ i \in Items /\ k \in Capabilities
      BY ProgramIsClient DEF Clients, Items, Capabilities
    <2> QED
      BY <2>1, <2>2, ApprovalsStill, ApproveGrants
  <1>4. ASSUME NEW c \in Clients, NEW i \in Items, Withdraw(p, c, i)
        PROVE  ApprovalCall
    BY <1>4 DEF Withdraw, Items, Approvals!Next, ApprovalCall
  <1>5. ASSUME NEW on \in BOOLEAN, Lockdown(p, on)
        PROVE  ApprovalCall
    BY <1>5 DEF Lockdown, Approvals!Next, ApprovalCall
  <1>6. ASSUME NEW f \in Key, SshSign(p, f) \/ SshApprove(p, f) \/ SshDismiss(p, f)
        PROVE  ApprovalCall
    <2>1. UNCHANGED policyVars \/ Approve(SshClient, f, "ssh-sign")
      BY <1>6 DEF SshSign, SshApprove, SshDismiss
    <2> QED
      BY <2>1, ApprovalsStill, ApproveGrants DEF Clients, Items, Capabilities
  <1>7. ASSUME NEW i \in Svc, NEW proof \in Proof,
               SecretApprove(p, i) \/ SecretDismiss(p, i) \/ SecretGet(p, i, proof)
        PROVE  ApprovalCall
    <2>1. UNCHANGED policyVars \/ Approve(SecretClient, i, "secret-service")
      BY <1>7 DEF SecretApprove, SecretDismiss, SecretGet
    <2> QED
      BY <2>1, ApprovalsStill, ApproveGrants DEF Clients, Items, Capabilities
  <1>8. CASE \E n \in Nonce :
               \/ \E op \in {"create", "assert"}, allow \in SUBSET Cred, b \in Bindings :
                    PasskeyBegin(p, n, op, allow, b)
               \/ PasskeyDecline(p, n) \/ PasskeyGuess(p, n) \/ PasskeyCollect(p, n)
               \/ \E named \in Cred \cup {NoCred} : PasskeyApprove(p, n, named)
    BY <1>8, ApprovalsStill
       DEF PasskeyBegin, PasskeyDecline, PasskeyGuess, PasskeyCollect, PasskeyApprove
  <1>9. "none" \in Proof
    BY DEF Proof
  <1> QED
    BY <1>1, <1>2, <1>3, <1>4, <1>5, <1>6, <1>7, <1>8, <1>9 DEF Dispatch

\* Restart is where two calls would be needed, had the last lock not cleared the rest.
LEMMA ApprovalsStep ==
    ASSUME IInv, ExitedLocked, [Next]_vars
    PROVE  ApprovalCall
  <1>1. CASE \/ Environment \/ Accept \/ Dropped \/ UNCHANGED vars
    BY <1>1, ApprovalsStill
       DEF Environment, Tick, HostEvent, CliRekey, CliHolds, CliWrite, Accept, Dropped, vars
  <1>2. CASE LoopPass
    BY <1>2, ApprovalsStill, LockClearsApprovals DEF LoopPass
  <1>3. CASE Sign
    BY <1>3, ApprovalsStill, OpenedFailsApprovals DEF Sign
  <1>4. CASE Restart
    <2>1. granted = {} /\ trusted = {}
      BY <1>4 DEF Restart, ExitedLocked, IInv, Authorized, LockedHoldsNothing
    <2>2. Approvals!SetLockdown(FALSE)
      BY <1>4, <2>1 DEF Restart, Approvals!SetLockdown
    <2> QED
      BY <2>2 DEF Approvals!Next, ApprovalCall
  <1>5. CASE \E p \in Process : Dispatch(p)
    BY <1>5, RequestApprovals
  <1> QED
    BY <1>1, <1>2, <1>3, <1>4, <1>5 DEF Next

\* The two ways out of the process, a status document that cannot be written and
\* Shutdown, lock on the way (session.rs: serve_at, Request::Shutdown).
LEMMA ExitLocks ==
    ASSUME ExitedLocked, [Next]_vars
    PROVE  ExitedLocked'
  <1>1. CASE UNCHANGED <<phase, open>>
    BY <1>1 DEF ExitedLocked
  <1>2. CASE phase' # "exited" \/ open' = FALSE
    BY <1>2 DEF ExitedLocked
  <1>3. ASSUME NEW p \in Process, Dispatch(p)
        PROVE  ExitedLocked'
    <2>1. Done \/ phase' \in {"waiting", "signing"} \/ Shutdown(p)
      BY <1>3 DEF Dispatch, Unlock, LockRequest, TouchRequest, NotOpen, Read,
           Add, Delete, SshGenerate, SecretPut, SecretDelete, Change, Reveal, TotpCode,
           Withdraw, Lockdown, SshSign, SshApprove, SshDismiss, SecretApprove,
           SecretDismiss, SecretGet, PasskeyBegin, PasskeyDecline, PasskeyGuess,
           PasskeyCollect, PasskeyApprove, WaitForLock
    <2> QED
      BY <1>2, <2>1 DEF Done, Shutdown, Lock
  <1> QED
    BY <1>1, <1>2, <1>3 DEF Next, Environment, Tick, HostEvent, CliRekey, CliHolds, CliWrite,
       LoopPass, Accept, Dropped, Sign, Restart, Done, Lock, sessionVars, vars

\* The agent's approvals are the approvals of policy.rs (session.rs: every use of
\* Agent.approvals).
THEOREM ApprovalsImplemented == Spec => ApprovalsRefined
  <1>1. Init => ExitedLocked /\ Approvals!Init
    BY DEF Init, ExitedLocked
  <1>2. ExitedLocked /\ [Next]_vars => ExitedLocked'
    BY ExitLocks
  <1>3. IInv /\ ExitedLocked /\ [Next]_vars => [Approvals!Next]_(Approvals!vars)
    BY ApprovalsStep DEF ApprovalCall
  <1> QED
    BY <1>1, <1>2, <1>3, AgentInvariant, PTL DEF Spec, ApprovalsRefined, Approvals!Spec

----------------------------------------------------------------------------
\* status.json.  A document has an `ok' entry for a failed write to withdraw.
StatusInv == "ok" \in DOMAIN published /\ StatusTellsTruth

\* A document just written tells the truth, or is known to be stale
\* (session.rs: publish).
LEMMA PublishTells ==
    ASSUME "ok" \in DOMAIN published, Publish
    PROVE  StatusInv'
  <1>1. CASE PublishOk
    BY <1>1 DEF PublishOk, Snapshot, StatusInv, StatusTellsTruth
  <1>2. CASE PublishFails
    BY <1>2 DEF PublishFails, StatusInv, StatusTellsTruth
  <1> QED
    BY <1>1, <1>2 DEF Publish

\* A document stays true while the session and the prompts stay, and no ceremony
\* starts to wait.
LEMMA StatusStands ==
    ASSUME StatusInv, UNCHANGED <<statusVars, open, promptVars>>,
           phase # "exited", Desk!Summaries' \subseteq Desk!Summaries
    PROVE  StatusInv'
  BY DEF StatusInv, StatusTellsTruth, statusVars, promptVars

\* Time, and calls of the desk that only expire or count a guess, put nothing new
\* on screen (consent.rs: summaries).
LEMMA SummariesShrink ==
    ASSUME Desk!TypeOK,
           \/ now' \in Nat /\ now' >= now /\ UNCHANGED desk
           \/ UNCHANGED now /\ (Desk!Fails \/ \E n \in Nonce : Desk!ApproveGuess(n))
    PROVE  Desk!Summaries' \subseteq Desk!Summaries
  <1>1. /\ TTL \in Nat /\ now \in Nat
        /\ \A m \in Nonce : desk[m] \in Desk!Ceremony /\ desk[m].at \in Nat
    BY AgentAssumption DEF Desk!TypeOK, Desk!Ceremony
  <1> USE DEF Desk!Summaries, Desk!IsExpired, Desk!ExpiresAt
  <1>2. CASE now' \in Nat /\ now' >= now /\ UNCHANGED desk
    BY <1>1, <1>2
  <1>3. CASE UNCHANGED now /\ (Desk!Fails \/ \E n \in Nonce : Desk!ApproveGuess(n))
    <2>1. Desk!Expire = [m \in Nonce |-> Desk!Swept(desk[m])]
      BY DEF Desk!Expire
    <2>2. \A m \in Nonce : Desk!Expire[m].state = "awaiting" => Desk!Expire[m] = desk[m]
      <3> SUFFICES ASSUME NEW m \in Nonce, Desk!Expire[m].state = "awaiting"
                   PROVE  Desk!Expire[m] = desk[m]
        OBVIOUS
      <3>1. [desk[m] EXCEPT !.state = "refused"].state = "refused"
        BY <1>1 DEF Desk!Ceremony
      <3> QED
        BY <2>1, <3>1 DEF Desk!Swept, Desk!Free
    <2>3. CASE Desk!Fails
      BY <1>3, <2>2, <2>3 DEF Desk!Fails
    <2>4. CASE \E n \in Nonce : Desk!ApproveGuess(n)
      <3>1. PICK n \in Nonce : Desk!ApproveGuess(n)
        BY <2>4
      <3>2. \A m \in Nonce \ {n} : desk'[m] = Desk!Expire[m]
        BY <2>1, <3>1 DEF Desk!ApproveGuess
      <3>3. Desk!Expire[n] = desk[n] /\ desk[n].state = "awaiting"
        BY <2>2, <3>1 DEF Desk!ApproveGuess
      <3>4. desk'[n].at = desk[n].at
        <4>1. PICK s : desk'[n] = [desk[n] EXCEPT !.attempts = @ + 1, !.state = s]
          BY <2>1, <3>1, <3>3 DEF Desk!ApproveGuess
        <4> QED
          BY <1>1, <4>1 DEF Desk!Ceremony
      <3> QED
        BY <1>3, <2>2, <3>2, <3>3, <3>4
    <2> QED
      BY <1>3, <2>3, <2>4
  <1> QED
    BY <1>2, <1>3

\* A request publishes, or changes nothing the document shows.
LEMMA RequestTells ==
    ASSUME StatusInv, Desk!TypeOK, NEW p \in Process, Dispatch(p)
    PROVE  StatusInv'
  <1>1. phase # "exited" /\ UNCHANGED now
    BY RequestDesk, ZenonT(60) DEF Dispatch, Unlock, LockRequest, TouchRequest, NotOpen, Read, Shutdown,
       Add, Delete, SshGenerate, SecretPut, SecretDelete, Change, Reveal, TotpCode,
       Withdraw, Lockdown, SshSign, SshApprove, SshDismiss, SecretApprove,
       SecretDismiss, SecretGet, PasskeyBegin, PasskeyDecline, PasskeyGuess,
       PasskeyCollect, PasskeyApprove, WaitForLock, Reading, HasLock
  <1>2. CASE Publish
    BY <1>2, PublishTells DEF StatusInv
  <1>3. ASSUME UNCHANGED <<statusVars, open, promptVars, desk>> PROVE StatusInv'
    <2>1. Desk!Summaries' \subseteq Desk!Summaries
      BY <1>1, <1>3 DEF Desk!Summaries, Desk!IsExpired, Desk!ExpiresAt
    <2> QED
      BY <1>1, <1>3, <2>1, StatusStands
  <1>4. ASSUME UNCHANGED <<statusVars, open, promptVars>>,
               Desk!Fails \/ \E n \in Nonce : Desk!ApproveGuess(n)
        PROVE  StatusInv'
    BY <1>1, <1>4, SummariesShrink, StatusStands
  <1> USE DEF deskVars, sessionVars
  <1>5. CASE \/ Unlock(p) \/ LockRequest(p) \/ TouchRequest(p) \/ NotOpen(p) \/ Read(p)
             \/ Shutdown(p) \/ WaitForLock(p)
             \/ \E i \in Login : Add(p, i)
             \/ \E i \in Items : Delete(p, i)
             \/ \E f \in Key : SshGenerate(p, f)
             \/ \E i \in Svc : SecretPut(p, i) \/ SecretDelete(p, i)
    BY <1>2, <1>3, <1>5
       DEF Unlock, LockRequest, TouchRequest, NotOpen, OpenedFails, Read, Shutdown,
           WaitForLock, Add, Delete, SshGenerate, SecretPut, SecretDelete, Change, Touch
  <1>6. CASE \E i \in Items, k \in Asked, proof \in Proof :
               Reveal(p, i, k, proof) \/ TotpCode(p, i, k, proof)
    BY <1>3, <1>6 DEF Reveal, TotpCode, Touch
  <1>7. CASE \/ \E c \in Clients, i \in Items : Withdraw(p, c, i)
             \/ \E on \in BOOLEAN : Lockdown(p, on)
    BY <1>2, <1>7 DEF Withdraw, Lockdown
  <1>8. CASE \E f \in Key : SshSign(p, f) \/ SshApprove(p, f) \/ SshDismiss(p, f)
    BY <1>2, <1>3, <1>8 DEF SshSign, SshApprove, SshDismiss, Touch, promptVars
  <1>9. CASE \/ \E i \in Svc : SecretApprove(p, i) \/ SecretDismiss(p, i)
             \/ \E i \in Svc, proof \in Proof : SecretGet(p, i, proof)
    BY <1>2, <1>3, <1>9 DEF SecretApprove, SecretDismiss, SecretGet, Touch, promptVars
  <1>10. CASE \E n \in Nonce, op \in {"create", "assert"}, allow \in SUBSET Cred,
                 b \in Bindings : PasskeyBegin(p, n, op, allow, b)
    BY <1>2, <1>4, <1>10 DEF PasskeyBegin, Touch, Desk!RegisterFails
  <1>11. CASE \E n \in Nonce : PasskeyDecline(p, n) \/ PasskeyGuess(p, n)
    BY <1>2, <1>4, <1>11
       DEF PasskeyDecline, PasskeyGuess, Touch, Desk!SetStateFails, Desk!ApproveFails
  <1>12. CASE \E n \in Nonce, named \in Cred \cup {NoCred} : PasskeyApprove(p, n, named)
    BY <1>2, <1>4, <1>12 DEF PasskeyApprove, Touch, Desk!ApproveFails
  <1>13. CASE \E n \in Nonce : PasskeyCollect(p, n)
    BY <1>2, <1>4, <1>13 DEF PasskeyCollect, Publish, Desk!TakeFails
  <1> QED
    BY <1>5, <1>6, <1>7, <1>8, <1>9, <1>10, <1>11, <1>12, <1>13 DEF Dispatch

\* Every step keeps the document true.
LEMMA StatusStep ==
    ASSUME StatusInv, Desk!TypeOK, now \in 0 .. MaxNow, [Next]_vars
    PROVE  StatusInv'
  <1>1. CASE \E p \in Process : Dispatch(p)
    BY <1>1, RequestTells
  <1>2. CASE Publish
    BY <1>2, PublishTells DEF StatusInv
  <1>3. ASSUME UNCHANGED <<statusVars, open, promptVars, desk>>, now' \in Nat, now' >= now,
               phase' # "exited" => phase # "exited"
        PROVE  StatusInv'
    <2>1. Desk!Summaries' \subseteq Desk!Summaries
      BY <1>3, SummariesShrink
    <2> QED
      BY <1>3, <2>1 DEF StatusInv, StatusTellsTruth, statusVars, promptVars
  <1>4. now \in Nat
    BY DEF Desk!TypeOK
  <1> USE DEF deskVars, sessionVars
  <1>5. CASE Environment
    BY <1>3, <1>4, <1>5 DEF Environment, Tick, HostEvent, CliRekey, CliHolds, CliWrite
  <1>6. CASE Accept \/ Dropped \/ UNCHANGED vars
    BY <1>3, <1>4, <1>6 DEF Accept, Dropped, Done, vars
  <1>7. CASE LoopPass
    BY <1>2, <1>3, <1>4, <1>7 DEF LoopPass, Publish
  <1>8. CASE Sign
    BY <1>2, <1>3, <1>4, <1>8 DEF Sign, Done, OpenedFails, Touch, Publish
  <1>9. CASE Restart
    BY <1>2, <1>9 DEF Restart, Publish
  <1> QED
    BY <1>1, <1>5, <1>6, <1>7, <1>8, <1>9 DEF Next

\* The deck is never shown a lock state, a prompt list or a set of ceremonies that
\* hides what the agent is waiting for (session.rs: publish).
THEOREM StatusIsTrue == Spec => []StatusTellsTruth
  <1>1. Init => now \in 0 .. MaxNow
    BY AgentAssumption DEF Init, Desk!Init
  <1>2. now \in 0 .. MaxNow /\ [Next]_vars => (now \in 0 .. MaxNow)'
    BY NowStep
  <1>3. Init => StatusInv
    BY DEF Init, Snapshot, StatusInv, StatusTellsTruth
  <1>4. StatusInv /\ Desk!TypeOK /\ now \in 0 .. MaxNow /\ [Next]_vars => StatusInv'
    BY StatusStep
  <1>5. StatusInv => StatusTellsTruth
    BY DEF StatusInv
  <1> QED
    BY <1>1, <1>2, <1>3, <1>4, <1>5, DeskTypeCorrect, PTL DEF Spec
============================================================================
