--------------------------- MODULE ConsentProofs ---------------------------
(***************************************************************************)
(* Proofs about the consent desk, for every set of nonces, peers and       *)
(* requests, every TTL and every limit.                                    *)
(***************************************************************************)
EXTENDS Consent, TLAPS, FiniteSetTheorems

\* The strengthening ApprovedIsProved needs: a sign-in is only ever on the desk
\* with credentials to choose from (register refuses the empty list).
SignInHasChoices ==
    \A n \in Nonce :
        desk[n].state # "free" /\ desk[n].op = "assert" => desk[n].choices # {}

IInv ==
    /\ TypeOK
    /\ SignInHasChoices
    /\ ApprovedIsProved
    /\ CollectedOnce
    /\ GuessesRunOut

----------------------------------------------------------------------------
\* What the lazy expiry may do to one ceremony: nothing, refuse it if it was
\* waiting, or drop it (consent.rs: Desk::expire).
LEMMA SweptCases ==
    ASSUME TypeOK, NEW n \in Nonce
    PROVE  /\ Expire[n] = Swept(desk[n])
           /\ Expire[n] \in Ceremony
           /\ \/ Expire[n] = desk[n]
              \/ Expire[n] = Free
              \/ /\ desk[n].state = "awaiting"
                 /\ Expire[n] = [desk[n] EXCEPT !.state = "refused"]
           /\ Expire[n].state = "awaiting" => /\ Expire[n] = desk[n]
                                              /\ now < desk[n].at + TTL
  <1>1. desk[n] \in Ceremony
    BY DEF TypeOK
  <1>2. Expire[n] = Swept(desk[n])
    BY DEF Expire
  <1>3. Free \in Ceremony
    BY DEF Free, Ceremony, State, Operation, Binding
  <1>4. [desk[n] EXCEPT !.state = "refused"] \in Ceremony
    BY <1>1 DEF Ceremony, State
  <1>5. desk[n].state = "free" => desk[n] = Free
    BY DEF TypeOK
  <1>6. now \in Nat /\ TTL \in Nat /\ desk[n].at \in Nat
    BY <1>1, ConsentAssumption DEF TypeOK, Ceremony
  <1>7. \/ Expire[n] = desk[n] /\ (desk[n].state = "awaiting" => now < desk[n].at + TTL)
        \/ Expire[n] = Free
        \/ /\ desk[n].state = "awaiting"
           /\ Expire[n] = [desk[n] EXCEPT !.state = "refused"]
    BY <1>2, <1>6 DEF Swept, IsExpired, ExpiresAt
  <1>8. Free.state = "free" /\ [desk[n] EXCEPT !.state = "refused"].state = "refused"
    BY <1>1 DEF Free, Ceremony
  <1> QED
    BY <1>1, <1>2, <1>3, <1>4, <1>7, <1>8

----------------------------------------------------------------------------
\* The invariant, one ceremony at a time: c is what the desk holds under a
\* nonce, p when its passphrase was proved, t how often it was collected.
Good(c, p, t) ==
    /\ c \in Ceremony
    /\ p \in Nat \cup {NotProved}
    /\ t \in Nat
    /\ c.state = "free" => c = Free
    /\ c.state # "free" /\ c.op = "assert" => c.choices # {}
    /\ c.state = "approved" =>
         /\ p # NotProved
         /\ p < c.at + TTL
         /\ \/ c.chosen \in c.choices
            \/ c.choices = {} /\ c.chosen = NoCred /\ c.op = "create"
    /\ t <= 1
    /\ t = 1 => c.state = "free"
    /\ c.attempts <= MaxAttempts
    /\ c.state \in {"awaiting", "approved"} => c.attempts < MaxAttempts

AllGood ==
    /\ now \in Nat
    /\ desk \in [Nonce -> Ceremony]
    /\ proved \in [Nonce -> Nat \cup {NotProved}]
    /\ taken \in [Nonce -> Nat]
    /\ \A n \in Nonce : Good(desk[n], proved[n], taken[n])

\* The invariant says no more and no less than that every nonce is good.
LEMMA GoodIsIInv ==
    /\ IInv <=> AllGood
    /\ IInv' <=> AllGood'
  BY DEF AllGood, IInv, Good, TypeOK, SignInHasChoices, ApprovedIsProved,
         CollectedOnce, GuessesRunOut, ExpiresAt

\* A nonce the desk does not hold is good.
LEMMA FreeGood ==
    ASSUME NEW p \in Nat \cup {NotProved}, NEW t \in Nat, t <= 1
    PROVE  Good(Free, p, t)
  <1>1. Free \in Ceremony
    BY DEF Free, Ceremony, State, Operation, Binding
  <1>2. MaxAttempts \in Nat /\ 0 <= MaxAttempts
    BY ConsentAssumption
  <1>3. Free.state = "free" /\ Free.attempts = 0
    BY DEF Free
  <1> QED
    BY <1>1, <1>2, <1>3 DEF Good

\* The lazy expiry keeps every ceremony good.
LEMMA SweptGood ==
    ASSUME IInv, NEW n \in Nonce
    PROVE  Good(Expire[n], proved[n], taken[n])
  <1>1. Good(desk[n], proved[n], taken[n]) /\ TypeOK
    BY GoodIsIInv DEF AllGood, IInv
  <1>2. CASE Expire[n] = desk[n]
    BY <1>1, <1>2
  <1>3. CASE Expire[n] = Free
    BY <1>1, <1>3, FreeGood DEF Good
  <1>4. CASE /\ desk[n].state = "awaiting"
             /\ Expire[n] = [desk[n] EXCEPT !.state = "refused"]
    BY <1>1, <1>4, SweptCases, ConsentAssumption DEF Good, Ceremony
  <1> QED
    BY <1>1, <1>2, <1>3, <1>4, SweptCases

----------------------------------------------------------------------------
\* Every action leaves each nonce at its swept value, except the one it names:
\* it is enough that the new value there is good.
LEMMA OneChanges ==
    ASSUME IInv, NEW m \in Nonce, NEW c, NEW p, NEW t,
           Good(c, p, t),
           now' \in Nat,
           desk' = [Expire EXCEPT ![m] = c],
           proved' = [proved EXCEPT ![m] = p],
           taken' = [taken EXCEPT ![m] = t]
    PROVE  IInv'
  <1>1. Expire = [n \in Nonce |-> Swept(desk[n])]
    BY DEF Expire
  <1>2. \A n \in Nonce : Good(Expire[n], proved[n], taken[n])
    BY SweptGood
  <1>3. proved \in [Nonce -> Nat \cup {NotProved}] /\ taken \in [Nonce -> Nat]
    BY GoodIsIInv DEF AllGood
  <1>4. \A n \in Nonce : Good(desk'[n], proved'[n], taken'[n])
    <2> SUFFICES ASSUME NEW n \in Nonce PROVE Good(desk'[n], proved'[n], taken'[n])
      OBVIOUS
    <2>1. CASE n = m
      BY <1>1, <1>3, <2>1
    <2>2. CASE n # m
      BY <1>1, <1>2, <1>3, <2>2
    <2> QED
      BY <2>1, <2>2
  <1>5. desk' \in [Nonce -> Ceremony]
    <2>1. desk' = [n \in Nonce |-> desk'[n]]
      BY <1>1
    <2> QED
      BY <1>4, <2>1 DEF Good
  <1>6. proved' \in [Nonce -> Nat \cup {NotProved}] /\ taken' \in [Nonce -> Nat]
    BY <1>3 DEF Good
  <1> QED
    BY <1>4, <1>5, <1>6, GoodIsIInv DEF AllGood

\* A call that only applies the lazy expiry.
LEMMA FailsPreserves ==
    ASSUME IInv, Fails, UNCHANGED now
    PROVE  IInv'
  <1>1. Expire = [n \in Nonce |-> Swept(desk[n])]
    BY DEF Expire
  <1>2. \A n \in Nonce : Good(Expire[n], proved[n], taken[n])
    BY SweptGood
  <1>3. /\ now \in Nat /\ proved \in [Nonce -> Nat \cup {NotProved}]
        /\ taken \in [Nonce -> Nat]
    BY GoodIsIInv DEF AllGood
  <1>4. \A n \in Nonce : Good(desk'[n], proved'[n], taken'[n])
    BY <1>2 DEF Fails
  <1>5. desk' \in [Nonce -> Ceremony]
    BY <1>1, <1>2 DEF Fails, Good
  <1> QED
    BY <1>3, <1>4, <1>5, GoodIsIInv DEF AllGood, Fails

----------------------------------------------------------------------------
\* Register puts a fresh ceremony under a free nonce.
LEMMA RegisterPreserves ==
    ASSUME IInv, UNCHANGED now,
           NEW n \in Nonce, NEW owner \in Peer \cup {Unknown}, NEW r \in Request,
           Register(n, owner, r)
    PROVE  IInv'
  <1> DEFINE c == [ state |-> "awaiting", op |-> r.op, owner |-> owner,
                    choices |-> r.choices, binding |-> r.binding, at |-> now,
                    attempts |-> 0, chosen |-> NoCred ]
  <1>1. now \in Nat
    BY GoodIsIInv DEF AllGood
  <1>2. r \in [op : Operation, choices : SUBSET Cred, binding : Binding]
    BY ConsentAssumption
  <1>3. c \in Ceremony
    BY <1>1, <1>2 DEF Ceremony, State
  <1>4. c.op = "assert" => c.choices # {}
    BY DEF Register, Refusable
  <1>5. MaxAttempts \in Nat /\ 0 < MaxAttempts
    BY ConsentAssumption
  <1>6. c.state = "awaiting" /\ c.attempts = 0
    OBVIOUS
  <1> HIDE DEF c
  <1>7. Good(c, NotProved, 0)
    BY <1>3, <1>4, <1>5, <1>6 DEF Good
  <1>8. /\ desk' = [Expire EXCEPT ![n] = c]
        /\ proved' = [proved EXCEPT ![n] = NotProved]
        /\ taken' = [taken EXCEPT ![n] = 0]
    BY DEF Register, c
  <1> QED
    BY <1>1, <1>7, <1>8, OneChanges

\* An approval chooses from the recorded credentials, in time.
LEMMA ApprovePreserves ==
    ASSUME IInv, UNCHANGED now,
           NEW n \in Nonce, NEW named \in Cred \cup {NoCred},
           ApproveProved(n, named)
    PROVE  IInv'
  <1> DEFINE c == Expire[n]
  <1>1. now \in Nat /\ TypeOK /\ taken \in [Nonce -> Nat]
    BY GoodIsIInv DEF AllGood, IInv
  <1>2. c.state = "awaiting"
    BY DEF ApproveProved
  <1>3. c \in Ceremony /\ now < c.at + TTL /\ Good(c, proved[n], taken[n])
    BY <1>1, <1>2, SweptCases, SweptGood
  <1>4. PICK x \in Selected(c, named) :
          desk' = [Expire EXCEPT ![n].state = "approved", ![n].chosen = x]
    BY DEF ApproveProved
  <1>5. \/ x \in c.choices
        \/ c.choices = {} /\ x = NoCred
    BY <1>4 DEF Selected
  <1>6. x \in Cred \cup {NoCred}
    BY <1>3, <1>5 DEF Ceremony
  <1> DEFINE d == [c EXCEPT !.state = "approved", !.chosen = x]
  <1>7. d \in Ceremony
    BY <1>3, <1>6 DEF Ceremony, State
  <1>8. c.op \in {"create", "assert"}
    BY <1>3 DEF Ceremony, Operation
  <1>9. /\ d.state = "approved" /\ d.chosen = x /\ d.op = c.op /\ d.at = c.at
        /\ d.choices = c.choices /\ d.attempts = c.attempts
    BY <1>3 DEF Ceremony
  <1>10. c.attempts \in Nat /\ MaxAttempts \in Nat /\ c.attempts < MaxAttempts
    BY <1>2, <1>3, ConsentAssumption DEF Good, Ceremony
  <1>11. desk' = [Expire EXCEPT ![n] = d]
    BY <1>4
  <1>12. taken[n] = 0 /\ taken' = [taken EXCEPT ![n] = 0]
    BY <1>1, <1>2, <1>3 DEF Good, ApproveProved
  <1>13. Good(d, now, 0)
    <2> HIDE DEF d
    <2>1. d.op = "assert" => d.choices # {}
      BY <1>2, <1>3, <1>9 DEF Good
    <2>2. \/ d.chosen \in d.choices
          \/ d.choices = {} /\ d.chosen = NoCred /\ d.op = "create"
      BY <1>5, <1>8, <1>9, <2>1
    <2>3. d.attempts < MaxAttempts /\ d.attempts <= MaxAttempts
      BY <1>9, <1>10
    <2>4. now # NotProved /\ now < d.at + TTL
      BY <1>1, <1>3, <1>9 DEF NotProved
    <2> QED
      BY <1>1, <1>7, <1>9, <2>1, <2>2, <2>3, <2>4 DEF Good
  <1>14. proved' = [proved EXCEPT ![n] = now]
    BY DEF ApproveProved
  <1> QED
    BY <1>1, <1>11, <1>12, <1>13, <1>14, OneChanges

\* A wrong passphrase is counted, and the last one allowed refuses.
LEMMA GuessPreserves ==
    ASSUME IInv, UNCHANGED now, NEW n \in Nonce, ApproveGuess(n)
    PROVE  IInv'
  <1> DEFINE c == Expire[n]
             s == IF c.attempts + 1 >= MaxAttempts THEN "refused" ELSE c.state
             d == [c EXCEPT !.attempts = @ + 1, !.state = s]
  <1>1. /\ now \in Nat /\ TypeOK
        /\ proved \in [Nonce -> Nat \cup {NotProved}] /\ taken \in [Nonce -> Nat]
    BY GoodIsIInv DEF AllGood, IInv
  <1>2. c.state = "awaiting"
    BY DEF ApproveGuess
  <1>3. c \in Ceremony /\ Good(c, proved[n], taken[n])
    BY <1>1, SweptCases, SweptGood
  <1>4. c.attempts \in Nat /\ MaxAttempts \in Nat /\ c.attempts < MaxAttempts
    BY <1>2, <1>3, ConsentAssumption DEF Good, Ceremony
  <1>5. d \in Ceremony
    <2>1. s \in State /\ c.attempts + 1 \in Nat
      BY <1>2, <1>4 DEF State
    <2> HIDE DEF s
    <2> QED
      BY <1>3, <2>1 DEF Ceremony
  <1>6. /\ d.state = s /\ d.op = c.op /\ d.choices = c.choices
        /\ d.attempts = c.attempts + 1
    BY <1>3 DEF Ceremony
  <1>7. s \in {"awaiting", "refused"} /\ (s = "awaiting" => c.attempts + 1 < MaxAttempts)
    BY <1>2, <1>4
  <1>8. Good(d, proved[n], taken[n])
    <2> HIDE DEF d, s
    <2>1. d.attempts <= MaxAttempts
      BY <1>4, <1>6
    <2>2. d.state \in {"awaiting", "refused"}
      BY <1>6, <1>7
    <2>3. d.state = "awaiting" => d.attempts < MaxAttempts
      BY <1>6, <1>7
    <2>4. taken[n] <= 1 /\ taken[n] # 1
      BY <1>2, <1>3 DEF Good
    <2>5. d.op = "assert" => d.choices # {}
      BY <1>2, <1>3, <1>6 DEF Good
    <2> QED
      BY <1>1, <1>5, <2>1, <2>2, <2>3, <2>4, <2>5 DEF Good
  <1>9. desk' = [Expire EXCEPT ![n] = d]
    BY DEF ApproveGuess
  <1>10. /\ proved' = [proved EXCEPT ![n] = proved[n]]
         /\ taken' = [taken EXCEPT ![n] = taken[n]]
    BY <1>1 DEF ApproveGuess
  <1> QED
    BY <1>1, <1>8, <1>9, <1>10, OneChanges

\* A refusal or a deferral, of whatever is there.
LEMMA SetStatePreserves ==
    ASSUME IInv, UNCHANGED now, NEW n \in Nonce,
           NEW s \in {"refused", "deferred"}, SetState(n, s)
    PROVE  IInv'
  <1> DEFINE c == Expire[n]
             d == [c EXCEPT !.state = s]
  <1>1. /\ now \in Nat /\ TypeOK
        /\ proved \in [Nonce -> Nat \cup {NotProved}] /\ taken \in [Nonce -> Nat]
    BY GoodIsIInv DEF AllGood, IInv
  <1>2. c \in Ceremony /\ Good(c, proved[n], taken[n]) /\ c.state # "free"
    BY <1>1, SweptCases, SweptGood DEF SetState
  <1>3. d \in Ceremony
    BY <1>2 DEF Ceremony, State
  <1>4. /\ d.state = s /\ d.op = c.op /\ d.choices = c.choices
        /\ d.attempts = c.attempts
    BY <1>2 DEF Ceremony
  <1>5. Good(d, proved[n], taken[n])
    <2> HIDE DEF d
    <2> QED
      BY <1>2, <1>3, <1>4 DEF Good
  <1>6. desk' = [Expire EXCEPT ![n] = d]
    BY DEF SetState
  <1>7. /\ proved' = [proved EXCEPT ![n] = proved[n]]
        /\ taken' = [taken EXCEPT ![n] = taken[n]]
    BY <1>1 DEF SetState
  <1> QED
    BY <1>1, <1>5, <1>6, <1>7, OneChanges

\* Collecting an answer frees the nonce; an approval has not been collected
\* before.
LEMMA TakePreserves ==
    ASSUME IInv, UNCHANGED now, NEW n \in Nonce, NEW peer \in Peer \cup {Unknown},
           TakeAnswered(n, peer)
    PROVE  IInv'
  <1> DEFINE c == Expire[n]
             t == taken[n] + (IF c.state = "approved" THEN 1 ELSE 0)
  <1>1. /\ now \in Nat /\ TypeOK
        /\ proved \in [Nonce -> Nat \cup {NotProved}] /\ taken \in [Nonce -> Nat]
    BY GoodIsIInv DEF AllGood, IInv
  <1>2. Good(c, proved[n], taken[n]) /\ c.state # "free"
    BY SweptGood DEF TakeAnswered, Collectable
  <1>3. taken[n] = 0
    BY <1>1, <1>2 DEF Good
  <1>4. t \in Nat /\ t <= 1
    BY <1>3
  <1>5. Good(Free, proved[n], t)
    BY <1>1, <1>4, FreeGood
  <1>6. /\ desk' = [Expire EXCEPT ![n] = Free]
        /\ proved' = [proved EXCEPT ![n] = proved[n]]
        /\ taken' = [taken EXCEPT ![n] = t]
    BY <1>1 DEF TakeAnswered
  <1> QED
    BY <1>1, <1>5, <1>6, OneChanges

\* A lock empties the desk (consent.rs: Desk::clear).
LEMMA ClearPreserves ==
    ASSUME IInv, UNCHANGED now, Clear
    PROVE  IInv'
  <1>1. /\ now \in Nat
        /\ proved \in [Nonce -> Nat \cup {NotProved}] /\ taken \in [Nonce -> Nat]
    BY GoodIsIInv DEF AllGood
  <1>2. \A n \in Nonce : taken[n] <= 1
    BY GoodIsIInv DEF AllGood, Good
  <1>3. \A n \in Nonce : Good(Free, proved[n], taken[n])
    BY <1>1, <1>2, FreeGood
  <1>4. \A n \in Nonce : Good(desk'[n], proved'[n], taken'[n])
    BY <1>3 DEF Clear
  <1>5. Free \in Ceremony
    BY DEF Free, Ceremony, State, Operation, Binding
  <1>6. desk' \in [Nonce -> Ceremony]
    BY <1>5 DEF Clear
  <1> QED
    BY <1>1, <1>4, <1>6, GoodIsIInv DEF AllGood, Clear

\* One case per call of the desk, and one for the clock.
LEMMA NextPreserves ==
    ASSUME IInv, [Next]_vars
    PROVE  IInv'
  <1>1. CASE Tick
    <2>1. now' \in Nat
      BY <1>1 DEF Tick
    <2> QED
      BY <1>1, <2>1, GoodIsIInv DEF AllGood, Tick, deskVars
  <1>2. CASE Call
    <2> USE <1>2
    <2>1. CASE \E n \in Nonce, r \in Request :
                 \E owner \in Peer \cup {Unknown} : Register(n, owner, r)
      BY <2>1, RegisterPreserves DEF Call
    <2>2. CASE \E n \in Nonce, named \in Cred \cup {NoCred} : ApproveProved(n, named)
      BY <2>2, ApprovePreserves DEF Call
    <2>3. CASE \E n \in Nonce : ApproveGuess(n)
      BY <2>3, GuessPreserves DEF Call
    <2>4. CASE \E n \in Nonce : Refuse(n) \/ Defer(n)
      BY <2>4, SetStatePreserves DEF Call, Refuse, Defer
    <2>5. CASE \E n \in Nonce, peer \in Peer \cup {Unknown} : TakeAnswered(n, peer)
      BY <2>5, TakePreserves DEF Call
    <2>6. CASE Clear
      BY <2>6, ClearPreserves DEF Call
    <2>7. CASE Fails
      BY <2>7, FailsPreserves DEF Call
    <2> QED
      BY <2>1, <2>2, <2>3, <2>4, <2>5, <2>6, <2>7
         DEF Call, RegisterFails, ApproveFails, SetStateFails, TakeFails
  <1>3. CASE UNCHANGED vars
    BY <1>3, GoodIsIInv DEF AllGood, vars
  <1> QED
    BY <1>1, <1>2, <1>3 DEF Next

\* A new desk is empty (consent.rs: Desk::new).
LEMMA InitEstablishes == Init => IInv
  <1> SUFFICES ASSUME Init PROVE IInv
    OBVIOUS
  <1>1. Free \in Ceremony
    BY DEF Free, Ceremony, State, Operation, Binding
  <1>2. \A n \in Nonce : desk[n] = Free /\ proved[n] = NotProved /\ taken[n] = 0
    BY DEF Init
  <1>3. \A n \in Nonce : Good(desk[n], proved[n], taken[n])
    BY <1>2, FreeGood DEF NotProved
  <1> QED
    BY <1>1, <1>3, GoodIsIInv DEF AllGood, Init

\* The whole invariant, in every reachable state of the desk.
THEOREM Invariant == Spec => []IInv
  <1>1. IInv /\ [Next]_vars => IInv'
    BY NextPreserves
  <1> QED
    BY InitEstablishes, <1>1, PTL DEF Spec

\* The desk's state is well typed, and a nonce whose ceremony was removed from
\* Desk::pending leaves nothing of it behind.
THEOREM TypeCorrect == Spec => []TypeOK
  BY Invariant, PTL DEF IInv

\* Desk::approve is the only way to the approved state: it takes the passphrase,
\* proved before the deadline, and a credential registered with the request.
THEOREM ApprovalNeedsProof == Spec => []ApprovedIsProved
  BY Invariant, PTL DEF IInv

\* Desk::take_answered hands an approval out at most once.
THEOREM SingleUse == Spec => []CollectedOnce
  BY Invariant, PTL DEF IInv

\* Desk::approve counts wrong passphrases, and they run out.
THEOREM NoOracle == Spec => []GuessesRunOut
  BY Invariant, PTL DEF IInv

----------------------------------------------------------------------------
\* Desk::pending never outgrows MAX_PENDING.  The only action that fills a nonce
\* is register, which counts what the expiry left.
LEMMA ExpireShrinks ==
    ASSUME TypeOK
    PROVE  {m \in Nonce : Expire[m].state # "free"} \subseteq Held
  <1> SUFFICES ASSUME NEW m \in Nonce, Expire[m].state # "free", m \notin Held
               PROVE  FALSE
    BY DEF Held
  <1>1. desk[m].state = "free"
    BY DEF Held
  <1>2. Free.state = "free"
    BY DEF Free
  <1>3. Expire[m] = desk[m] \/ Expire[m] = Free
    BY <1>1, SweptCases
  <1> QED
    BY <1>1, <1>2, <1>3

\* Only register adds to the desk, and it refuses when MAX_PENDING are held.
LEMMA BoundedPreserved ==
    ASSUME TypeOK, DeskBounded, [Next]_vars
    PROVE  DeskBounded'
  <1> DEFINE Left == {m \in Nonce : Expire[m].state # "free"}
  <1>1. IsFiniteSet(Nonce) /\ MaxPending \in Nat
    BY ConsentAssumption
  <1>2. Held \subseteq Nonce /\ Held' \subseteq Nonce /\ Left \subseteq Nonce
    BY DEF Held
  <1>3. /\ IsFiniteSet(Held) /\ IsFiniteSet(Held') /\ IsFiniteSet(Left)
        /\ Cardinality(Held) \in Nat /\ Cardinality(Held') \in Nat
        /\ Cardinality(Left) \in Nat
    BY <1>1, <1>2, FS_Subset, FS_CardinalityType
  <1>4. Expire = [n \in Nonce |-> Swept(desk[n])]
    BY DEF Expire
  <1>5. CASE \E n \in Nonce, owner \in Peer \cup {Unknown}, r \in Request :
               Register(n, owner, r)
    <2>1. PICK n \in Nonce, owner \in Peer \cup {Unknown}, r \in Request :
            Register(n, owner, r)
      BY <1>5
    <2>2. Held' = Left \cup {n} /\ n \notin Left
      BY <1>4, <2>1 DEF Register, Refusable, Held
    <2>3. Cardinality(Left) < MaxPending
      BY <1>1, <1>3, <2>1 DEF Register, Refusable
    <2>4. Cardinality(Held') = Cardinality(Left) + 1
      BY <1>3, <2>2, FS_AddElement
    <2> QED
      BY <1>1, <1>3, <2>3, <2>4 DEF DeskBounded, Len_
  <1>6. ASSUME Held' \subseteq Held PROVE DeskBounded'
    BY <1>1, <1>3, <1>6, FS_Subset DEF DeskBounded, Len_
  <1>7. ASSUME Held' \subseteq Left PROVE DeskBounded'
    BY <1>6, <1>7, ExpireShrinks
  <1>8. CASE Fails
    BY <1>7, <1>8 DEF Fails, Held
  <1>9. CASE \E n \in Nonce, named \in Cred \cup {NoCred} : ApproveProved(n, named)
    <2>1. PICK n \in Nonce, named \in Cred \cup {NoCred} : ApproveProved(n, named)
      BY <1>9
    <2>2. \A m \in Nonce \ {n} : desk'[m] = Expire[m]
      BY <1>4, <2>1 DEF ApproveProved
    <2>3. n \in Left
      BY <2>1 DEF ApproveProved
    <2> QED
      BY <1>7, <2>2, <2>3 DEF Held
  <1>10. CASE \E n \in Nonce : ApproveGuess(n) \/ Refuse(n) \/ Defer(n)
    <2>1. PICK n \in Nonce : ApproveGuess(n) \/ Refuse(n) \/ Defer(n)
      BY <1>10
    <2>2. \A m \in Nonce \ {n} : desk'[m] = Expire[m]
      BY <1>4, <2>1 DEF ApproveGuess, Refuse, Defer, SetState
    <2>3. n \in Left
      BY <2>1 DEF ApproveGuess, Refuse, Defer, SetState
    <2> QED
      BY <1>7, <2>2, <2>3 DEF Held
  <1>11. CASE \E n \in Nonce, peer \in Peer \cup {Unknown} : TakeAnswered(n, peer)
    <2>1. PICK n \in Nonce, peer \in Peer \cup {Unknown} : TakeAnswered(n, peer)
      BY <1>11
    <2>2. \A m \in Nonce \ {n} : desk'[m] = Expire[m]
      BY <1>4, <2>1 DEF TakeAnswered
    <2>3. desk'[n] = Free
      BY <1>4, <2>1 DEF TakeAnswered
    <2> QED
      BY <1>7, <2>2, <2>3 DEF Held, Free
  <1>12. CASE Clear
    BY <1>6, <1>12 DEF Clear, Held, Free
  <1>13. CASE Tick \/ UNCHANGED vars
    BY <1>6, <1>13 DEF Tick, vars, deskVars, Held
  <1> QED
    BY <1>5, <1>8, <1>9, <1>10, <1>11, <1>12, <1>13
       DEF Next, Call, RegisterFails, ApproveFails, SetStateFails, TakeFails

\* Desk::register keeps the desk within MAX_PENDING.
THEOREM Bounded == Spec => []DeskBounded
  <1>1. Init => DeskBounded
    <2> SUFFICES ASSUME Init PROVE DeskBounded
      OBVIOUS
    <2>1. Held = {}
      BY DEF Init, Held, Free
    <2> QED
      BY <2>1, FS_EmptySet, ConsentAssumption DEF DeskBounded, Len_
  <1>2. TypeOK /\ DeskBounded /\ [Next]_vars => DeskBounded'
    BY BoundedPreserved
  <1> QED
    BY <1>1, <1>2, TypeCorrect, PTL DEF Spec

----------------------------------------------------------------------------
\* No call changes the request of a ceremony that stays on the desk.
LEMMA SweptKeeps ==
    ASSUME TypeOK, NEW n \in Nonce
    PROVE  /\ KeepsRequest(desk[n], Expire[n])
           /\ desk[n].state # "free" /\ now < desk[n].at + TTL + TTL
              => /\ Expire[n].state # "free"
                 /\ Expire[n].op = desk[n].op /\ Expire[n].owner = desk[n].owner
                 /\ Expire[n].choices = desk[n].choices
                 /\ Expire[n].binding = desk[n].binding /\ Expire[n].at = desk[n].at
                 /\ Expire[n].state = "awaiting" => desk[n].state = "awaiting"
  <1>1. desk[n] \in Ceremony /\ now \in Nat /\ TTL \in Nat
    BY ConsentAssumption DEF TypeOK
  <1>2. desk[n].at \in Nat
    BY <1>1 DEF Ceremony
  <1>3. CASE Expire[n] = desk[n]
    BY <1>3 DEF KeepsRequest
  <1>4. CASE Expire[n] = Free
    <2>1. Expire[n].state = "free"
      BY <1>4 DEF Free
    <2>2. ~(desk[n].state # "free" /\ now < desk[n].at + TTL + TTL)
      <3> SUFFICES ASSUME desk[n].state # "free", now < desk[n].at + TTL + TTL
                   PROVE  FALSE
        OBVIOUS
      <3>1. ~(now >= ExpiresAt(desk[n]) + TTL)
        BY <1>1, <1>2 DEF ExpiresAt
      <3>2. Swept(desk[n]).state \in {"refused", desk[n].state}
        BY <1>1, <3>1 DEF Swept, Ceremony
      <3> QED
        BY <2>1, <3>2, SweptCases
    <2> QED
      BY <2>1, <2>2 DEF KeepsRequest
  <1>5. CASE /\ desk[n].state = "awaiting"
             /\ Expire[n] = [desk[n] EXCEPT !.state = "refused"]
    BY <1>1, <1>5 DEF KeepsRequest, Ceremony
  <1> QED
    BY <1>3, <1>4, <1>5, SweptCases

\* No call, and no tick, changes the request of a ceremony the desk goes on
\* holding (consent.rs: nothing but register writes the request).
LEMMA NextKeeps ==
    ASSUME TypeOK, [Next]_vars, NEW m \in Nonce
    PROVE  KeepsRequest(desk[m], desk'[m])
  <1>1. Expire = [n \in Nonce |-> Swept(desk[n])]
    BY DEF Expire
  <1>2. Expire[m] \in Ceremony /\ desk[m] \in Ceremony
    BY SweptCases DEF TypeOK
  <1>3. CASE desk'[m] = Expire[m]
    BY <1>3, SweptKeeps
  <1>4. CASE desk'[m].state = "free"
    BY <1>4 DEF KeepsRequest
  <1>5. CASE desk'[m] = desk[m]
    BY <1>5 DEF KeepsRequest
  <1>6. CASE \E owner \in Peer \cup {Unknown}, r \in Request : Register(m, owner, r)
    <2>1. Expire[m].state = "free"
      BY <1>6 DEF Register, Refusable
    <2> QED
      BY <2>1, SweptKeeps DEF KeepsRequest, ExpiresAt
  <1>7. CASE \E named \in Cred \cup {NoCred} : ApproveProved(m, named)
    <2>1. PICK named \in Cred \cup {NoCred} : ApproveProved(m, named)
      BY <1>7
    <2>2. PICK x : desk' = [Expire EXCEPT ![m].state = "approved", ![m].chosen = x]
      BY <2>1 DEF ApproveProved
    <2>3. desk'[m] = [Expire[m] EXCEPT !.state = "approved", !.chosen = x]
      BY <1>1, <2>2
    <2>4. Expire[m].state = "awaiting"
      BY <2>1 DEF ApproveProved
    <2>5. /\ desk'[m].op = Expire[m].op /\ desk'[m].owner = Expire[m].owner
          /\ desk'[m].choices = Expire[m].choices /\ desk'[m].at = Expire[m].at
          /\ desk'[m].binding = Expire[m].binding
      BY <1>2, <2>3 DEF Ceremony
    <2> QED
      BY <2>4, <2>5, SweptKeeps DEF KeepsRequest, ExpiresAt
  <1>8. CASE ApproveGuess(m)
    <2> DEFINE c == Expire[m]
               s == IF c.attempts + 1 >= MaxAttempts THEN "refused" ELSE c.state
    <2>1. desk'[m] = [c EXCEPT !.attempts = @ + 1, !.state = s]
      BY <1>1, <1>8 DEF ApproveGuess
    <2>2. s \in {"awaiting", "refused"}
      BY <1>8 DEF ApproveGuess
    <2> HIDE DEF s
    <2>3. /\ desk'[m].op = c.op /\ desk'[m].owner = c.owner
          /\ desk'[m].choices = c.choices /\ desk'[m].at = c.at
          /\ desk'[m].binding = c.binding /\ desk'[m].state = s
      BY <1>2, <2>1 DEF Ceremony
    <2> QED
      BY <2>2, <2>3, SweptKeeps DEF KeepsRequest, ExpiresAt
  <1>9. CASE Refuse(m) \/ Defer(m)
    <2>1. PICK s \in {"refused", "deferred"} : desk'[m] = [Expire[m] EXCEPT !.state = s]
      BY <1>1, <1>9 DEF Refuse, Defer, SetState
    <2>2. /\ desk'[m].op = Expire[m].op /\ desk'[m].owner = Expire[m].owner
          /\ desk'[m].choices = Expire[m].choices /\ desk'[m].at = Expire[m].at
          /\ desk'[m].binding = Expire[m].binding /\ desk'[m].state = s
      BY <1>2, <2>1 DEF Ceremony
    <2> QED
      BY <2>1, <2>2, SweptKeeps DEF KeepsRequest, ExpiresAt
  <1>10. CASE Call
    <2>1. CASE Fails
      BY <1>3, <2>1 DEF Fails
    <2>2. CASE Clear
      BY <1>4, <2>2 DEF Clear, Free
    <2>3. CASE \E n \in Nonce, owner \in Peer \cup {Unknown}, r \in Request :
                 Register(n, owner, r)
      <3>1. PICK n \in Nonce, owner \in Peer \cup {Unknown}, r \in Request :
              Register(n, owner, r)
        BY <2>3
      <3>2. n # m => desk'[m] = Expire[m]
        BY <1>1, <3>1 DEF Register
      <3> QED
        BY <1>3, <1>6, <3>1, <3>2
    <2>4. CASE \E n \in Nonce, named \in Cred \cup {NoCred} : ApproveProved(n, named)
      <3>1. PICK n \in Nonce, named \in Cred \cup {NoCred} : ApproveProved(n, named)
        BY <2>4
      <3>2. n # m => desk'[m] = Expire[m]
        BY <1>1, <3>1 DEF ApproveProved
      <3> QED
        BY <1>3, <1>7, <3>1, <3>2
    <2>5. CASE \E n \in Nonce : ApproveGuess(n)
      <3>1. PICK n \in Nonce : ApproveGuess(n)
        BY <2>5
      <3>2. n # m => desk'[m] = Expire[m]
        BY <1>1, <3>1 DEF ApproveGuess
      <3> QED
        BY <1>3, <1>8, <3>1, <3>2
    <2>6. CASE \E n \in Nonce : Refuse(n) \/ Defer(n)
      <3>1. PICK n \in Nonce : Refuse(n) \/ Defer(n)
        BY <2>6
      <3>2. n # m => desk'[m] = Expire[m]
        BY <1>1, <3>1 DEF Refuse, Defer, SetState
      <3> QED
        BY <1>3, <1>9, <3>1, <3>2
    <2>7. CASE \E n \in Nonce, peer \in Peer \cup {Unknown} : TakeAnswered(n, peer)
      <3>1. PICK n \in Nonce, peer \in Peer \cup {Unknown} : TakeAnswered(n, peer)
        BY <2>7
      <3>2. desk'[m] = IF n = m THEN Free ELSE Expire[m]
        BY <1>1, <3>1 DEF TakeAnswered
      <3> QED
        BY <1>3, <1>4, <3>2 DEF Free
    <2> QED
      BY <1>10, <2>1, <2>2, <2>3, <2>4, <2>5, <2>6, <2>7
         DEF Call, RegisterFails, ApproveFails, SetStateFails, TakeFails
  <1>11. CASE Tick \/ UNCHANGED vars
    BY <1>5, <1>11 DEF Tick, vars, deskVars
  <1> QED
    BY <1>10, <1>11 DEF Next

\* Between the prompt and the signature nobody can change what is signed.
THEOREM RequestFrozen == Spec => Frozen
  <1>1. TypeOK /\ [Next]_vars => [\A n \in Nonce : KeepsRequest(desk[n], desk'[n])]_vars
    BY NextKeeps
  <1> QED
    BY <1>1, TypeCorrect, PTL DEF Spec, Frozen

============================================================================
