-------------------------- MODULE FrontEndsProofs --------------------------
(***************************************************************************)
(* Proofs about the programs between the agent and its users, for every    *)
(* number of processes, keys, items and requests and every patience: no    *)
(* prompt and no ceremony stays on the deck unwanted, no thread is lost    *)
(* count of, and no application's item is overwritten by another's store.  *)
(***************************************************************************)
EXTENDS MCFrontEnds, TLAPS, FiniteSetTheorems

----------------------------------------------------------------------------
\* The SSH daemon.

Connection ==
    [ at   : {"none", "read", "ask", "sleep", "dismiss"},
      key  : Key \cup {"none"},
      polls : Nat,
      hung : BOOLEAN ]

Threads == {p \in Peer : conn[p].at # "none"}

\* A prompt is on the deck only for a key not granted, in a vault that is open.
SshPrompts ==
    /\ sshPrompts \cap sshGranted = {}
    /\ sshVault # "open" => sshPrompts = {}

SshInv ==
    /\ conn \in [Peer -> Connection]
    /\ live \in Nat
    /\ SshPrompts
    /\ Ssh!PromptIsWanted
    /\ Ssh!SlotsComeBack

\* A waiter for a key is a connection that asks about it.
LEMMA Wanted ==
    /\ Ssh!PromptIsWanted
       <=> \A k \in sshPrompts \ sshForsaken :
             \E p \in Peer : conn[p].at \in {"ask", "sleep", "dismiss"} /\ conn[p].key = k
    /\ Ssh!PromptIsWanted'
       <=> \A k \in sshPrompts' \ sshForsaken' :
             \E p \in Peer : conn'[p].at \in {"ask", "sleep", "dismiss"} /\ conn'[p].key = k
  BY DEF Ssh!PromptIsWanted, Ssh!Waiters, Ssh!Waiting

\* The daemon's count is the number of its threads.
LEMMA Counted ==
    /\ Ssh!SlotsComeBack <=> live = Cardinality(Threads) /\ live <= MaxLive
    /\ Ssh!SlotsComeBack' <=> live' = Cardinality(Threads') /\ live' <= MaxLive
  <1>1. \A S : Ssh!Cardinality(S) = Cardinality(S)
    BY DEF Ssh!Cardinality, Cardinality
  <1> QED
    BY <1>1 DEF Ssh!SlotsComeBack, Threads

\* A connection made, left or changed in the middle counts one thread more, one
\* less or as many (ssh_agent.rs: Guard).
LEMMA Slots ==
    ASSUME SshInv, NEW p \in Peer, NEW c \in Connection,
           conn' = [conn EXCEPT ![p] = c],
           \/ conn[p].at # "none" /\ c.at # "none" /\ live' = live
           \/ conn[p].at # "none" /\ c.at = "none" /\ live' = live - 1
           \/ conn[p].at = "none" /\ c.at # "none" /\ live' = live + 1 /\ live < MaxLive
    PROVE  live' \in Nat /\ conn' \in [Peer -> Connection] /\ Ssh!SlotsComeBack'
  <1>1. conn' \in [Peer -> Connection]
    BY DEF SshInv
  <1>2. live = Cardinality(Threads) /\ live \in Nat /\ live <= MaxLive /\ MaxLive \in Nat
    BY FrontEndsAssumption, Counted DEF SshInv
  <1>3. IsFiniteSet(Threads)
    BY FrontEndsAssumption, FS_Subset DEF Threads
  <1>4. live' = Cardinality(Threads') /\ live' \in Nat /\ live' <= MaxLive
    <2>1. CASE conn[p].at # "none" /\ c.at # "none" /\ live' = live
      <3>1. Threads' = Threads
        BY <2>1 DEF Threads, SshInv
      <3> QED
        BY <1>2, <2>1, <3>1
    <2>2. CASE conn[p].at # "none" /\ c.at = "none" /\ live' = live - 1
      <3>1. Threads' = Threads \ {p} /\ p \in Threads
        BY <2>2 DEF Threads, SshInv
      <3>2. Cardinality(Threads') = Cardinality(Threads) - 1
        BY <1>3, <3>1, FS_RemoveElement
      <3>3. Cardinality(Threads') \in Nat
        BY <1>3, <3>1, FS_Subset, FS_CardinalityType
      <3> QED
        BY <1>2, <2>2, <3>2, <3>3
    <2>3. CASE /\ conn[p].at = "none" /\ c.at # "none" /\ live' = live + 1
               /\ live < MaxLive
      <3>1. Threads' = Threads \cup {p} /\ p \notin Threads
        BY <2>3 DEF Threads, SshInv
      <3>2. Cardinality(Threads') = Cardinality(Threads) + 1
        BY <1>3, <3>1, FS_AddElement
      <3> QED
        BY <1>2, <2>3, <3>2
    <2> QED
      BY <2>1, <2>2, <2>3
  <1> QED
    BY <1>1, <1>4, Counted

\* The answer written, the thread reads the next message or ends.
LEMMA ReplySlots ==
    ASSUME SshInv, NEW p \in Peer, conn[p].at # "none", Ssh!Reply(p) \/ Ssh!End(p)
    PROVE  /\ live' \in Nat /\ conn' \in [Peer -> Connection] /\ Ssh!SlotsComeBack'
           /\ \A q \in Peer \ {p} : conn'[q] = conn[q]
  <1>1. PICK c \in Connection :
          /\ conn' = [conn EXCEPT ![p] = c]
          /\ \/ c.at # "none" /\ live' = live
             \/ c.at = "none" /\ live' = live - 1
    <2>1. Ssh!NoConn \in Connection /\ Ssh!NoConn.at = "none"
      BY DEF Ssh!NoConn, Connection
    <2>2. /\ [Ssh!NoConn EXCEPT !.at = "read"] \in Connection
          /\ [Ssh!NoConn EXCEPT !.at = "read"].at = "read"
      BY DEF Ssh!NoConn, Connection
    <2> QED
      BY <2>1, <2>2 DEF Ssh!Reply, Ssh!End
  <1> QED
    BY <1>1, Slots DEF SshInv

\* A waiter leaves only when the prompt is gone, or it says that it could not take
\* it down.
LEMMA WaiterLeaves ==
    ASSUME SshInv, NEW p \in Peer, Ssh!Reply(p), conn[p].at # "none",
           sshPrompts' \subseteq sshPrompts, sshForsaken \subseteq sshForsaken',
           conn[p].at # "read" => conn[p].key \notin sshPrompts' \ sshForsaken'
    PROVE  Ssh!PromptIsWanted'
  <1>1. \A q \in Peer \ {p} : conn'[q] = conn[q]
    BY ReplySlots
  <1> QED
    BY <1>1, Wanted DEF SshInv

\* A waiter that goes on waiting, or a thread that has asked for nothing yet.
LEMMA WaiterStays ==
    ASSUME SshInv, NEW p \in Peer, NEW c \in Connection, conn' = [conn EXCEPT ![p] = c],
           conn[p].at # "none", c.at # "none",
           conn[p].at # "read" => c.at # "read" /\ c.key = conn[p].key,
           UNCHANGED <<live, sshPrompts, sshGranted, sshVault, sshForsaken>>
    PROVE  SshInv'
  <1>1. live' \in Nat /\ conn' \in [Peer -> Connection] /\ Ssh!SlotsComeBack'
    BY Slots
  <1>2. Ssh!PromptIsWanted'
    BY <1>1, Wanted DEF SshInv, Connection
  <1> QED
    BY <1>1, <1>2 DEF SshInv, SshPrompts

\* One case per step of a connection.
LEMMA PeerStep ==
    ASSUME SshInv, NEW p \in Peer,
           \/ Ssh!Accept(p) \/ Ssh!HangUp(p) \/ Ssh!Finish(p) \/ Ssh!RespondNow(p)
           \/ \E k \in Key : Ssh!SignRequest(p, k)
           \/ Ssh!Serve(p) \/ Ssh!AskUnreadable(p)
    PROVE  SshInv'
  <1> USE DEF Ssh!agentVars
  <1>0. conn[p] \in Connection
    BY DEF SshInv
  <1>1. CASE Ssh!Accept(p)
    <2>1. CASE UNCHANGED <<live, conn>>
      BY <1>1, <2>1, Wanted DEF Ssh!Accept, SshInv, SshPrompts, Ssh!SlotsComeBack
    <2>2. CASE live < MaxLive /\ ~UNCHANGED <<live, conn>>
      <3> DEFINE c == [Ssh!NoConn EXCEPT !.at = "read"]
      <3>1. /\ conn' = [conn EXCEPT ![p] = c] /\ live' = live + 1 /\ conn[p].at = "none"
            /\ UNCHANGED <<sshPrompts, sshGranted, sshVault, sshForsaken>>
        BY <1>1, <2>2 DEF Ssh!Accept
      <3>2. c \in Connection /\ c.at = "read"
        BY DEF Ssh!NoConn, Connection
      <3> HIDE DEF c
      <3>3. live' \in Nat /\ conn' \in [Peer -> Connection] /\ Ssh!SlotsComeBack'
        BY <2>2, <3>1, <3>2, Slots
      <3>4. \A q \in Peer : conn[q].at # "none" => conn'[q] = conn[q]
        BY <3>1 DEF SshInv
      <3>5. Ssh!PromptIsWanted'
        BY <3>1, <3>4, Wanted DEF SshInv
      <3> QED
        BY <3>1, <3>3, <3>5 DEF SshInv, SshPrompts
    <2> QED
      BY <1>1, <2>1, <2>2, FrontEndsAssumption DEF Ssh!Accept, SshInv
  <1>2. CASE Ssh!Finish(p) \/ Ssh!RespondNow(p)
    <2>1. /\ conn[p].at = "read"
          /\ Ssh!Reply(p) \/ Ssh!End(p)
          /\ UNCHANGED <<sshPrompts, sshGranted, sshVault, sshForsaken>>
      BY <1>2 DEF Ssh!Finish, Ssh!RespondNow
    <2>2. /\ live' \in Nat /\ conn' \in [Peer -> Connection] /\ Ssh!SlotsComeBack'
          /\ \A q \in Peer \ {p} : conn'[q] = conn[q]
      BY <2>1, ReplySlots
    <2> QED
      BY <2>1, <2>2, Wanted DEF SshInv, SshPrompts
  <1>3. CASE (\E k \in Key : Ssh!SignRequest(p, k)) \/ Ssh!HangUp(p) \/ Ssh!Wake(p)
    <2>0. UNCHANGED <<live, sshPrompts, sshGranted, sshVault, sshForsaken>>
      BY <1>3 DEF Ssh!SignRequest, Ssh!HangUp, Ssh!Wake
    <2>1. CASE \E k \in Key : Ssh!SignRequest(p, k)
      <3>1. PICK k \in Key : Ssh!SignRequest(p, k)
        BY <2>1
      <3> DEFINE c == [conn[p] EXCEPT !.at = "ask", !.key = k, !.polls = 0]
      <3>2. conn' = [conn EXCEPT ![p] = c] /\ conn[p].at = "read"
        BY <3>1 DEF Ssh!SignRequest
      <3>3. c \in Connection /\ c.at = "ask"
        BY <1>0 DEF Connection
      <3> QED
        BY <2>0, <3>2, <3>3, WaiterStays
    <2>2. CASE Ssh!HangUp(p)
      <3> DEFINE c == [conn[p] EXCEPT !.hung = TRUE]
      <3>1. conn' = [conn EXCEPT ![p] = c] /\ conn[p].at # "none"
        BY <2>2 DEF Ssh!HangUp
      <3>2. c \in Connection /\ c.at = conn[p].at /\ c.key = conn[p].key
        BY <1>0 DEF Connection
      <3> QED
        BY <2>0, <3>1, <3>2, WaiterStays
    <2>3. CASE Ssh!Wake(p)
      <3> DEFINE n == conn[p].polls + 1
                 c == [conn[p] EXCEPT !.at = "ask", !.polls = n]
      <3>1. conn' = [conn EXCEPT ![p] = c] /\ conn[p].at = "sleep"
        BY <2>3 DEF Ssh!Wake
      <3>3. n \in Nat
        BY <1>0 DEF Connection
      <3> HIDE DEF n
      <3>2. c \in Connection /\ c.at = "ask" /\ c.key = conn[p].key
        BY <1>0, <3>3 DEF Connection
      <3> QED
        BY <2>0, <3>1, <3>2, WaiterStays
    <2> QED
      BY <1>3, <2>1, <2>2, <2>3
  <1>4. CASE Ssh!AskSigned(p)
    <2>1. /\ conn[p].at = "ask" /\ Ssh!Reply(p) /\ conn[p].key \in sshGranted
          /\ UNCHANGED <<sshPrompts, sshGranted, sshVault, sshForsaken>>
      BY <1>4 DEF Ssh!AskSigned, Ssh!Signs
    <2>2. Ssh!PromptIsWanted'
      BY <2>1, WaiterLeaves DEF SshInv, SshPrompts
    <2> QED
      BY <2>1, <2>2, ReplySlots DEF SshInv, SshPrompts
  <1>5. CASE Ssh!AskFailed(p) \/ Ssh!AskUnreadable(p)
    <2>1. /\ conn[p].at = "ask" /\ Ssh!Reply(p) /\ Ssh!Forsake(p)
          /\ UNCHANGED <<sshPrompts, sshGranted, sshVault>>
      BY <1>5 DEF Ssh!AskFailed, Ssh!AskUnreadable
    <2>2. Ssh!PromptIsWanted'
      BY <2>1, WaiterLeaves DEF Ssh!Forsake
    <2> QED
      BY <2>1, <2>2, ReplySlots DEF SshInv, SshPrompts
  <1>6. CASE Ssh!AskPending(p)
    <2> DEFINE k == conn[p].key
               s == IF conn[p].polls >= Patience THEN "dismiss" ELSE "sleep"
               c == [conn[p] EXCEPT !.at = s]
    <2>1. /\ conn' = [conn EXCEPT ![p] = c] /\ conn[p].at = "ask"
          /\ sshPrompts' = sshPrompts \cup {k} /\ sshForsaken' = sshForsaken \ {k}
          /\ k \notin sshGranted /\ sshVault = "open"
          /\ UNCHANGED <<live, sshVault, sshGranted>>
      BY <1>6 DEF Ssh!AskPending, Ssh!MustAsk
    <2>2. s \in {"dismiss", "sleep"}
      OBVIOUS
    <2> HIDE DEF s
    <2>3. c \in Connection /\ c.at = s /\ c.key = k
      BY <1>0, <2>2 DEF Connection
    <2> HIDE DEF c
    <2>4. live' \in Nat /\ conn' \in [Peer -> Connection] /\ Ssh!SlotsComeBack'
      BY <2>1, <2>2, <2>3, Slots
    <2>5. Ssh!PromptIsWanted'
      BY <2>1, <2>2, <2>3, Wanted DEF SshInv
    <2> QED
      BY <2>1, <2>4, <2>5 DEF SshInv, SshPrompts
  <1>7. CASE Ssh!Dismiss(p)
    <2>1. /\ conn[p].at = "dismiss" /\ Ssh!Reply(p)
          /\ sshPrompts' \subseteq sshPrompts /\ sshForsaken \subseteq sshForsaken'
          /\ UNCHANGED <<sshVault, sshGranted>>
      BY <1>7 DEF Ssh!Dismiss, Ssh!Forsake
    <2>2. conn[p].key \notin sshPrompts' \ sshForsaken'
      BY <1>7 DEF Ssh!Dismiss, Ssh!Forsake, SshInv, SshPrompts
    <2>3. Ssh!PromptIsWanted'
      BY <2>1, <2>2, WaiterLeaves
    <2> QED
      BY <2>1, <2>3, ReplySlots DEF SshInv, SshPrompts
  <1> QED
    BY <1>1, <1>2, <1>3, <1>4, <1>5, <1>6, <1>7 DEF Ssh!Serve

\* The person and the host take prompts away and grants with them; a daemon
\* started again has no threads and owns up to its prompts.
LEMMA WorldStep ==
    ASSUME SshInv, Ssh!World \/ Ssh!Restart
    PROVE  SshInv'
  <1>1. CASE Ssh!World
    <2>1. /\ sshPrompts' \subseteq sshPrompts /\ sshForsaken' = sshForsaken \cap sshPrompts'
          /\ UNCHANGED <<live, conn>>
      BY <1>1 DEF Ssh!World
    <2>2. Ssh!PromptIsWanted' /\ Ssh!SlotsComeBack'
      BY <2>1, Wanted DEF SshInv, Ssh!SlotsComeBack
    <2>3. SshPrompts'
      BY <1>1 DEF Ssh!World, SshInv, SshPrompts
    <2> QED
      BY <2>1, <2>2, <2>3 DEF SshInv
  <1>2. CASE Ssh!Restart
    <2>1. /\ live' = 0 /\ conn' = [p \in Peer |-> Ssh!NoConn] /\ sshForsaken' = sshPrompts'
          /\ UNCHANGED <<sshVault, sshGranted, sshPrompts>>
      BY <1>2 DEF Ssh!Restart
    <2>2. Threads' = {} /\ conn' \in [Peer -> Connection]
      BY <2>1 DEF Threads, Ssh!NoConn, Connection
    <2>3. Ssh!SlotsComeBack'
      BY <2>1, <2>2, Counted, FS_EmptySet, FrontEndsAssumption
    <2> QED
      BY <2>1, <2>2, <2>3, Wanted DEF SshInv, SshPrompts
  <1> QED
    BY <1>1, <1>2

\* A request served to a caller that gave up puts its key on the deck, and says that
\* nobody waits for it unless another does.
LEMMA LateSign ==
    ASSUME SshInv, NEW k \in sshOverdue, Ssh!ServedLate(k)
    PROVE  SshInv'
  <1>1. /\ sshPrompts' = sshPrompts \cup {k} /\ k \notin sshGranted /\ sshVault = "open"
        /\ sshForsaken' = IF Ssh!Waiters(k) = {} THEN sshForsaken \cup {k}
                          ELSE sshForsaken \ {k}
        /\ UNCHANGED <<live, conn, sshVault, sshGranted>>
    BY DEF Ssh!ServedLate, Ssh!MustAsk
  <1>2. Ssh!PromptIsWanted'
    <2>1. ASSUME NEW j \in sshPrompts' \ sshForsaken'
          PROVE  Ssh!Waiters(j)' # {}
      <3>1. Ssh!Waiters(j)' = Ssh!Waiters(j)
        BY <1>1 DEF Ssh!Waiters, Ssh!Waiting
      <3>2. Ssh!Waiters(j) # {}
        BY <1>1, <2>1 DEF SshInv, Ssh!PromptIsWanted
      <3> QED
        BY <3>1, <3>2
    <2> QED
      BY <2>1 DEF Ssh!PromptIsWanted
  <1>3. Ssh!SlotsComeBack'
    BY <1>1 DEF SshInv, Ssh!SlotsComeBack
  <1> QED
    BY <1>1, <1>2, <1>3 DEF SshInv, SshPrompts

\* The SSH daemon keeps its invariant.
LEMMA SshStep ==
    ASSUME SshInv, Ssh!Next \/ UNCHANGED sshVars
    PROVE  SshInv'
  <1>1. CASE UNCHANGED sshVars
    BY <1>1, Wanted, Counted DEF sshVars, SshInv, SshPrompts, Threads
  <1> QED
    BY <1>1, PeerStep, LateSign, WorldStep DEF Ssh!Next

\* It starts with no thread and no prompt.
LEMMA SshStart == Ssh!Init => SshInv
  <1> SUFFICES ASSUME Ssh!Init PROVE SshInv
    OBVIOUS
  <1>1. Threads = {} /\ conn \in [Peer -> Connection]
    BY DEF Ssh!Init, Threads, Ssh!NoConn, Connection
  <1> QED
    BY <1>1, Counted, Wanted, FS_EmptySet, FrontEndsAssumption
       DEF Ssh!Init, SshInv, SshPrompts

----------------------------------------------------------------------------
\* The Secret Service.

Values == [attrs : Attrs, by : App \cup {"nobody"}]

Calls ==
    [ op    : {"none", "create", "set", "delete", "get"},
      at    : {"idle", "list", "put", "ask", "sleep", "dismiss", "encrypt"},
      item  : Nat,
      rest  : SUBSET Nat,
      attrs : Attrs,
      polls : Nat ]

Reads(c) == c.at \in {"ask", "sleep", "dismiss"}

\* A call names items that were made.
Known(c) == c.item <= made /\ \A i \in c.rest : i <= made

\* A call that reads does nothing else, one that deletes has nothing to look up,
\* one that has not looked names no item,
\* and one that stores knows the attributes of the item it stores over.
Consistent(c) ==
    /\ Reads(c) \/ c.at = "encrypt" => c.op = "get"
    /\ c.op = "delete" => c.at = "put"
    /\ c.op = "create" /\ c.at = "list" => c.item = 0
    /\ c.at = "put" /\ c.op \in {"create", "set"} /\ c.item \in Secrets!Held
       => store[c.item].attrs = c.attrs

\* A store about to make an item leaves a twin only where that is explained.
TwinIsExplained(c) ==
    c.op = "create" /\ c.at = "put" /\ c.item = 0 =>
        \/ c.attrs = {} \/ c.attrs \in twinned
        \/ \A i \in Secrets!Held : store[i].attrs # c.attrs

ServiceTypes ==
    /\ made \in 0 .. MaxItem
    /\ store \in [1 .. MaxItem -> Values]
    /\ \A i \in Secrets!Held : i <= made
    /\ call \in [App -> Calls]

SecretPrompts ==
    /\ prompts \cap granted = {}
    /\ vault # "open" => prompts = {}

Sound(c) == Known(c) /\ Consistent(c) /\ TwinIsExplained(c)

ServiceInv ==
    /\ ServiceTypes /\ SecretPrompts
    /\ \A a \in App : Sound(call[a])
    /\ Secrets!ItemsKeptApart
    /\ Secrets!ReadPromptIsWanted

\* A daemon with nothing to do is sound.
LEMMA Idle ==
    /\ Secrets!NoCall \in Calls /\ Secrets!NoCall.at = "idle" /\ Secrets!NoCall.op = "none"
    /\ Secrets!Nothing \in Values
    /\ ServiceTypes => Sound(Secrets!NoCall)
    /\ (ServiceTypes => Sound(Secrets!NoCall))'
  <1>1. {} \in Attrs
    BY DEF Attrs
  <1> QED
    BY <1>1 DEF Secrets!Nothing, Values, Secrets!NoCall, Calls, Secrets!None, Sound, Known,
       Consistent, TwinIsExplained, Reads, ServiceTypes

\* A call goes on and the vault's items stay as they are.
LEMMA CallMoves ==
    ASSUME ServiceInv, NEW a \in App, NEW c \in Calls, call' = [call EXCEPT ![a] = c],
           UNCHANGED <<store, made, clobbered>>, twinned \subseteq twinned',
           Sound(c)'
    PROVE  (ServiceTypes /\ (\A b \in App : Sound(call[b])) /\ Secrets!ItemsKeptApart)'
  <1>1. Secrets!Held' = Secrets!Held
    BY DEF Secrets!Held
  <1>2. ServiceTypes'
    BY <1>1 DEF ServiceInv, ServiceTypes
  <1>3. \A b \in App : call'[b] = IF b = a THEN c ELSE call[b]
    BY DEF ServiceInv, ServiceTypes
  <1>4. \A d : Known(d)' <=> Known(d)
    BY DEF Known
  <1>5. \A d : Consistent(d)' <=> Consistent(d)
    BY <1>1 DEF Consistent
  <1>6. \A d : TwinIsExplained(d) => TwinIsExplained(d)'
    BY <1>1 DEF TwinIsExplained
  <1>7. \A d : Sound(d) => Sound(d)'
    BY <1>4, <1>5, <1>6 DEF Sound
  <1>8. Secrets!ItemsKeptApart'
    BY <1>1 DEF ServiceInv, Secrets!ItemsKeptApart, Secrets!ReplaceIsExact,
       Secrets!TwinsAreExplained
  <1>9. (\A b \in App : Sound(call[b]))'
    BY <1>3, <1>7 DEF ServiceInv
  <1> QED
    BY <1>2, <1>8, <1>9

\* A prompt nobody answers for afterwards had its reader, which still reads it or
\* was another.
LEMMA ReaderMoves ==
    ASSUME ServiceInv, NEW a \in App, NEW c \in Calls, call' = [call EXCEPT ![a] = c],
           \A i \in prompts' \ forsaken' :
              \/ Reads(c) /\ c.item = i
              \/ i \in prompts \ forsaken /\ ~(Reads(call[a]) /\ call[a].item = i)
    PROVE  Secrets!ReadPromptIsWanted'
  <1>1. \A b \in App : call'[b] = IF b = a THEN c ELSE call[b]
    BY DEF ServiceInv, ServiceTypes
  <1> QED
    BY <1>1 DEF ServiceInv, Secrets!ReadPromptIsWanted, Secrets!Readers, Reads

\* Together, where the vault and what is approved stay as they are.
LEMMA CallGoesOn ==
    ASSUME ServiceInv, NEW a \in App, NEW c \in Calls, call' = [call EXCEPT ![a] = c],
           UNCHANGED <<store, made, clobbered, vault, granted, prompts, forsaken>>,
           twinned \subseteq twinned', Sound(c)',
           Reads(call[a]) /\ call[a].item \in prompts \ forsaken
              => Reads(c) /\ c.item = call[a].item
    PROVE  ServiceInv'
  <1>1. Secrets!ReadPromptIsWanted'
    BY ReaderMoves
  <1>2. SecretPrompts'
    BY DEF ServiceInv, SecretPrompts
  <1> QED
    BY <1>1, <1>2, CallMoves DEF ServiceInv

\* Soundness depends on the items, on how many were made and on the twins.
LEMMA SoundAsBefore ==
    ASSUME UNCHANGED <<store, made>>, twinned \subseteq twinned', NEW c, Sound(c)
    PROVE  Sound(c)'
  <1>1. Secrets!Held' = Secrets!Held
    BY SMTT(30) DEF Secrets!Held
  <1> QED
    BY <1>1 DEF Sound, Known, Consistent, TwinIsExplained

\* The next item of a get, if any, is read as the first was.
LEMMA NextItemMoves ==
    ASSUME ServiceInv, NEW a \in App, Secrets!NextItem(a),
           Reads(call[a]) \/ call[a].at = "encrypt", UNCHANGED <<store, made, twinned>>
    PROVE  \E c \in Calls : call' = [call EXCEPT ![a] = c] /\ Sound(c)'
  <1>1. call[a] \in Calls /\ Sound(call[a]) /\ call[a].op = "get" /\ call \in [App -> Calls]
    BY DEF ServiceInv, ServiceTypes, Sound, Consistent
  <1>2. CASE Secrets!Answer(a)
    <2>1. call' = [call EXCEPT ![a] = Secrets!NoCall] /\ Sound(Secrets!NoCall)
      BY <1>2, Idle DEF Secrets!Answer, ServiceInv
    <2> QED
      BY <2>1, Idle, SoundAsBefore
  <1>3. ASSUME NEW i \in call[a].rest,
               call' = [call EXCEPT ![a].item = i, ![a].rest = @ \ {i}, ![a].at = "ask",
                                    ![a].polls = 0]
        PROVE  \E c \in Calls : call' = [call EXCEPT ![a] = c] /\ Sound(c)'
    <2> DEFINE c == [call[a] EXCEPT !.item = i, !.rest = @ \ {i}, !.at = "ask", !.polls = 0]
    <2>1. c \in Calls
      BY <1>1 DEF Calls
    <2>2. call' = [call EXCEPT ![a] = c]
      BY <1>1, <1>3
    <2>3. Sound(c)
      BY <1>1 DEF Sound, Known, Consistent, TwinIsExplained, Reads, Calls
    <2>4. PICK d \in Calls : d = c
      BY <2>1
    <2>5. call' = [call EXCEPT ![a] = d] /\ Sound(d)
      BY <2>2, <2>3, <2>4
    <2> QED
      BY <2>5, SoundAsBefore
  <1> QED
    BY <1>2, <1>3 DEF Secrets!NextItem

\* A call begins: it knows items that were made and looks nothing over yet.
LEMMA CallBegins ==
    ASSUME ServiceInv, NEW a \in App,
           \/ \E s \in sessions, attrs \in Attrs, replace \in BOOLEAN : Secrets!CreateItem(a, s, attrs, replace)
           \/ \E i \in 1 .. made, s \in sessions : Secrets!SetSecret(a, s, i)
           \/ \E i \in 1 .. made : Secrets!DeleteItem(a, i)
           \/ \E items \in SUBSET (1 .. made) : Secrets!GetSecrets(a, items)
    PROVE  ServiceInv'
  <1> DEFINE Moved ==
        \E c \in Calls :
            /\ call' = [call EXCEPT ![a] = c] /\ Sound(c)' /\ twinned \subseteq twinned'
            /\ UNCHANGED <<store, made, clobbered, vault, granted, prompts, forsaken>>
            /\ call[a] = Secrets!NoCall
  <1>1. Moved
    <2>0. made \in Nat /\ {} \in Attrs
      BY DEF ServiceInv, ServiceTypes, Attrs
    <2>1. ASSUME NEW s \in sessions, NEW attrs \in Attrs, NEW replace \in BOOLEAN,
                 Secrets!CreateItem(a, s, attrs, replace)
          PROVE  Moved
      <3> DEFINE c == [Secrets!NoCall EXCEPT !.op = "create", !.attrs = attrs,
                                     !.at = IF replace THEN "list" ELSE "put"]
      <3>1. c \in Calls
        BY DEF Calls, Secrets!NoCall, Secrets!None
      <3>2. /\ call' = [call EXCEPT ![a] = c] /\ call[a] = Secrets!NoCall
            /\ twinned' = IF replace THEN twinned ELSE twinned \cup {attrs}
            /\ UNCHANGED <<store, made, clobbered, vault, granted, prompts, forsaken>>
        BY <2>1 DEF Secrets!CreateItem, Secrets!agentVars
      <3>3. /\ c.op = "create" /\ c.attrs = attrs /\ c.item = 0 /\ c.rest = {}
            /\ c.at = IF replace THEN "list" ELSE "put"
        BY DEF Secrets!NoCall, Secrets!None
      <3>4. PICK d \in Calls : d = c
        BY <3>1
      <3>5. Secrets!Held' = Secrets!Held /\ 0 \notin Secrets!Held
        BY <3>2 DEF Secrets!Held, Secrets!Item
      <3>6. Sound(d)'
        BY <2>0, <3>2, <3>3, <3>4, <3>5 DEF Sound, Known, Consistent, TwinIsExplained, Reads
      <3> QED
        BY <3>2, <3>4, <3>6
    <2>2. ASSUME NEW c \in Calls, Secrets!Begin(a, c), Sound(c)
          PROVE  Moved
      <3>1. /\ call' = [call EXCEPT ![a] = c] /\ call[a] = Secrets!NoCall
            /\ UNCHANGED <<store, made, clobbered, vault, granted, prompts, forsaken, twinned>>
        BY <2>2 DEF Secrets!Begin, Secrets!agentVars, Secrets!pastVars
      <3> QED
        BY <2>2, <3>1, SoundAsBefore
    <2>3. ASSUME NEW i \in 1 .. made, NEW s \in sessions, Secrets!SetSecret(a, s, i)
          PROVE  Moved
      <3> DEFINE c == [Secrets!NoCall EXCEPT !.op = "set", !.item = i, !.at = "list"]
      <3>3. i \in Nat /\ i <= made
        BY <2>0
      <3>4. /\ c \in Calls /\ c.op = "set" /\ c.at = "list" /\ c.item = i
            /\ c.rest = {}
        BY <2>0, <3>3 DEF Calls, Secrets!NoCall, Secrets!None
      <3>1. c \in Calls /\ Sound(c)
        BY <2>0, <3>3, <3>4 DEF Sound, Known, Consistent, TwinIsExplained, Reads
      <3>2. Secrets!Begin(a, c)
        BY <2>3 DEF Secrets!SetSecret
      <3> QED
        BY <2>2, <3>1, <3>2
    <2>4. ASSUME NEW i \in 1 .. made, Secrets!DeleteItem(a, i)
          PROVE  Moved
      <3> DEFINE c == [Secrets!NoCall EXCEPT !.op = "delete", !.item = i, !.at = "put"]
      <3>3. i \in Nat /\ i <= made
        BY <2>0
      <3>4. /\ c \in Calls /\ c.op = "delete" /\ c.at = "put" /\ c.item = i
            /\ c.rest = {}
        BY <2>0, <3>3 DEF Calls, Secrets!NoCall, Secrets!None
      <3>1. c \in Calls /\ Sound(c)
        BY <2>0, <3>3, <3>4 DEF Sound, Known, Consistent, TwinIsExplained, Reads
      <3>2. Secrets!Begin(a, c)
        BY <2>4 DEF Secrets!DeleteItem
      <3> QED
        BY <2>2, <3>1, <3>2
    <2>5. ASSUME NEW items \in SUBSET (1 .. made), Secrets!GetSecrets(a, items)
          PROVE  Moved
      <3>1. PICK i \in items :
               Secrets!Begin(a, [Secrets!NoCall EXCEPT !.op = "get", !.item = i,
                                                       !.rest = items \ {i}, !.at = "ask"])
        BY <2>5 DEF Secrets!GetSecrets
      <3> DEFINE c == [Secrets!NoCall EXCEPT !.op = "get", !.item = i,
                                             !.rest = items \ {i}, !.at = "ask"]
      <3>3. i \in Nat /\ i <= made /\ items \ {i} \in SUBSET Nat
        BY <2>0
      <3>4. /\ c \in Calls /\ c.op = "get" /\ c.at = "ask" /\ c.item = i
            /\ c.rest = items \ {i}
        BY <2>0, <3>3 DEF Calls, Secrets!NoCall, Secrets!None
      <3>2. c \in Calls /\ Sound(c)
        BY <2>0, <3>3, <3>4 DEF Sound, Known, Consistent, TwinIsExplained, Reads
      <3> QED
        BY <2>2, <3>1, <3>2
    <2> QED
      BY <2>1, <2>3, <2>4, <2>5
  <1>2. ~Reads(Secrets!NoCall)
    BY Idle DEF Reads
  <1> QED
    BY <1>1, <1>2, CallGoesOn

\* A store that looks first finds an item with its attributes exactly, finds none,
\* or could not look; one that names its item takes that item's attributes.
LEMMA Lists ==
    ASSUME ServiceInv, NEW a \in App, Secrets!ListForCreate(a) \/ Secrets!ListForSet(a)
    PROVE  ServiceInv'
  <1>0. /\ call[a] \in Calls /\ Sound(call[a]) /\ call \in [App -> Calls]
        /\ \A i \in Secrets!Held : i \in Nat /\ i <= made /\ i # 0 /\ store[i].attrs \in Attrs
        /\ made \in Nat
    BY DEF ServiceInv, ServiceTypes, Secrets!Held, Secrets!Item, Values
  <1>1. ASSUME Secrets!ListForCreate(a)
        PROVE  \E c \in Calls : call' = [call EXCEPT ![a] = c] /\ Sound(c)'
    <2>0. /\ call[a].op = "create" /\ call[a].at = "list" /\ call[a].item = 0
          /\ twinned \subseteq twinned' /\ UNCHANGED <<store, made>>
          /\ vault # "open" => call[a].attrs \in twinned'
          /\ Secrets!Held' = Secrets!Held
      BY <1>0, <1>1 DEF Secrets!ListForCreate, Sound, Consistent, Secrets!agentVars, Secrets!Held
    <2> DEFINE target == IF vault = "open"
                         THEN Secrets!ReplacementTarget(Secrets!Search(call[a].attrs), call[a].attrs)
                         ELSE {}
    <2>1. CASE target = {} /\ call' = [call EXCEPT ![a].at = "put"]
      <3> DEFINE c == [call[a] EXCEPT !.at = "put"]
      <3>1. /\ c \in Calls /\ c.op = "create" /\ c.at = "put" /\ c.item = 0
            /\ c.rest = call[a].rest /\ c.attrs = call[a].attrs
        BY <1>0, <2>0 DEF Calls
      <3>2. call' = [call EXCEPT ![a] = c]
        BY <1>0, <2>1
      <3>3. \/ call[a].attrs = {} \/ vault # "open"
            \/ \A i \in Secrets!Held : store[i].attrs # call[a].attrs
        BY <2>1 DEF Secrets!ReplacementTarget, Secrets!Search, Secrets!Matches
      <3>4. PICK d \in Calls : d = c
        BY <3>1
      <3>5. Known(d)'
        BY <1>0, <2>0, <3>1, <3>4 DEF Sound, Known
      <3>6. Consistent(d)'
        BY <1>0, <2>0, <3>1, <3>4 DEF Consistent, Reads
      <3>7. TwinIsExplained(d)'
        BY <2>0, <3>1, <3>3, <3>4 DEF TwinIsExplained
      <3> QED
        BY <3>2, <3>4, <3>5, <3>6, <3>7 DEF Sound
    <2>2. ASSUME NEW i \in target, call' = [call EXCEPT ![a].at = "put", ![a].item = i]
          PROVE  \E c \in Calls : call' = [call EXCEPT ![a] = c] /\ Sound(c)'
      <3>1. i \in Secrets!Held /\ store[i].attrs = call[a].attrs
        BY DEF Secrets!ReplacementTarget, Secrets!Search
      <3> DEFINE c == [call[a] EXCEPT !.at = "put", !.item = i]
      <3>2. /\ c \in Calls /\ c.op = "create" /\ c.at = "put" /\ c.item = i
            /\ c.rest = call[a].rest /\ c.attrs = call[a].attrs
        BY <1>0, <2>0, <3>1 DEF Calls
      <3>3. call' = [call EXCEPT ![a] = c]
        BY <1>0, <2>2
      <3>4. PICK d \in Calls : d = c
        BY <3>2
      <3>5. Known(d)'
        BY <1>0, <2>0, <3>1, <3>2, <3>4 DEF Sound, Known
      <3>6. Consistent(d)'
        BY <1>0, <2>0, <3>1, <3>2, <3>4 DEF Consistent, Reads
      <3>7. TwinIsExplained(d)'
        BY <1>0, <3>1, <3>2, <3>4 DEF TwinIsExplained
      <3> QED
        BY <3>3, <3>4, <3>5, <3>6, <3>7 DEF Sound
    <2> QED
      BY <1>1, <2>1, <2>2 DEF Secrets!ListForCreate
  <1>2. ASSUME Secrets!ListForSet(a)
        PROVE  \E c \in Calls : call' = [call EXCEPT ![a] = c] /\ Sound(c)'
    <2>0. /\ call[a].op = "set" /\ UNCHANGED <<store, made, twinned>>
          /\ Secrets!Held' = Secrets!Held
      BY <1>2 DEF Secrets!ListForSet, Secrets!agentVars, Secrets!pastVars, Secrets!Held
    <2>1. CASE /\ call[a].item \in Secrets!Held
               /\ call' = [call EXCEPT ![a].at = "put",
                                       ![a].attrs = store[call[a].item].attrs]
      <3> DEFINE i == call[a].item
                 c == [call[a] EXCEPT !.at = "put", !.attrs = store[i].attrs]
      <3>1. /\ c \in Calls /\ c.op = "set" /\ c.at = "put" /\ c.item = i
            /\ c.rest = call[a].rest /\ c.attrs = store[i].attrs
        BY <1>0, <2>0, <2>1 DEF Calls
      <3>2. call' = [call EXCEPT ![a] = c]
        BY <1>0, <2>1
      <3>4. PICK d \in Calls : d = c
        BY <3>1
      <3>5. Known(d)'
        BY <1>0, <2>0, <3>1, <3>4 DEF Sound, Known
      <3>6. Consistent(d)'
        BY <1>0, <2>0, <3>1, <3>4 DEF Consistent, Reads
      <3>7. TwinIsExplained(d)'
        BY <3>1, <3>4 DEF TwinIsExplained
      <3> QED
        BY <3>2, <3>4, <3>5, <3>6, <3>7 DEF Sound
    <2>2. CASE Secrets!Answer(a)
      <3>1. call' = [call EXCEPT ![a] = Secrets!NoCall] /\ Sound(Secrets!NoCall)
        BY <2>2, Idle DEF Secrets!Answer, ServiceInv
      <3> QED
        BY <2>0, <3>1, Idle, SoundAsBefore
    <2> QED
      BY <1>2, <2>1, <2>2 DEF Secrets!ListForSet
  <1>3. /\ ~Reads(call[a]) /\ twinned \subseteq twinned'
        /\ UNCHANGED <<store, made, clobbered, vault, granted, prompts, forsaken>>
    BY <1>0 DEF Secrets!ListForCreate, Secrets!ListForSet, Secrets!agentVars, Secrets!pastVars,
       Reads
  <1> QED
    BY <1>1, <1>2, <1>3, CallGoesOn

\* Items that stay keep their attributes, and no item comes: what was sound stays so.
LEMMA ItemsShrink ==
    ASSUME ServiceInv, store' \in [1 .. MaxItem -> Values], UNCHANGED <<made, twinned, clobbered>>,
           \A i \in Secrets!Held' : i \in Secrets!Held /\ store'[i].attrs = store[i].attrs
    PROVE  /\ (\A i \in Secrets!Held : i <= made)' /\ Secrets!ItemsKeptApart'
           /\ \A d : Sound(d) => Sound(d)'
  <1>1. (\A i \in Secrets!Held : i <= made)'
    BY DEF ServiceInv, ServiceTypes
  <1>2. Secrets!ItemsKeptApart'
    BY DEF ServiceInv, Secrets!ItemsKeptApart, Secrets!ReplaceIsExact, Secrets!TwinsAreExplained
  <1>3. \A d : Known(d) => Known(d)'
    BY DEF Known
  <1>4. \A d : Consistent(d) => Consistent(d)'
    BY DEF Consistent
  <1>5. \A d : TwinIsExplained(d) => TwinIsExplained(d)'
    BY DEF TwinIsExplained
  <1> QED
    BY <1>1, <1>2, <1>3, <1>4, <1>5 DEF Sound

\* A call that did not read is answered, and the prompts and grants stay.
LEMMA Answered ==
    ASSUME ServiceInv, NEW a \in App, Secrets!Answer(a), ~Reads(call[a]),
           UNCHANGED <<vault, granted, prompts, forsaken>>
    PROVE  /\ call' \in [App -> Calls] /\ SecretPrompts' /\ Secrets!ReadPromptIsWanted'
           /\ \A b \in App : call'[b] = IF b = a THEN Secrets!NoCall ELSE call[b]
  <1>1. call' = [call EXCEPT ![a] = Secrets!NoCall]
    BY DEF Secrets!Answer
  <1>2. Secrets!ReadPromptIsWanted'
    BY <1>1, Idle, ReaderMoves
  <1> QED
    BY <1>1, <1>2, Idle DEF ServiceInv, ServiceTypes, SecretPrompts

\* A new item: other calls name older ones, and a rival with the same attributes
\* is an overlap.
LEMMA ItemAppears ==
    ASSUME ServiceInv, NEW a \in App, Secrets!PutNew(a)
    PROVE  ServiceInv'
  <1>0. /\ call[a] \in Calls /\ Sound(call[a]) /\ call \in [App -> Calls]
        /\ \A i \in Secrets!Held : i \in 1 .. made
        /\ made \in Nat /\ MaxItem \in Nat /\ store \in [1 .. MaxItem -> Values]
    BY FrontEndsAssumption DEF ServiceInv, ServiceTypes, Secrets!Held, Secrets!Item
  <1> DEFINE n == made + 1
             new == [attrs |-> call[a].attrs, by |-> a]
  <1>1. /\ call[a].op = "create" /\ call[a].at = "put" /\ call[a].item = 0
        /\ made < MaxItem /\ made' = n /\ store' = [store EXCEPT ![n] = new]
        /\ Secrets!Answer(a) /\ clobbered' = clobbered
        /\ twinned' = IF Secrets!Rivals(a) = {} THEN twinned ELSE twinned \cup {call[a].attrs}
        /\ UNCHANGED <<vault, granted, prompts, forsaken>>
    BY DEF Secrets!PutNew, Secrets!None
  <1>2. ~Reads(call[a])
    BY <1>1 DEF Reads
  <1>3. n \in 1 .. MaxItem /\ n \notin Secrets!Held /\ new \in Values /\ n # 0
    BY <1>0, <1>1 DEF Values, Calls
  <1>4. store' \in [1 .. MaxItem -> Values] /\ store'[n] = new
        /\ \A i \in 1 .. MaxItem \ {n} : store'[i] = store[i]
    BY <1>0, <1>1, <1>3
  <1>5. \A i \in Secrets!Held' : i = n \/ (i \in Secrets!Held /\ store'[i] = store[i])
    BY <1>4 DEF Secrets!Held, Secrets!Item
  <1>6. made' \in 0 .. MaxItem /\ (\A i \in Secrets!Held : i <= made)'
    BY <1>0, <1>1, <1>5
  <1>7. \A i \in Secrets!Held : \/ store[i].attrs # call[a].attrs \/ call[a].attrs = {}
                               \/ call[a].attrs \in twinned
    BY <1>0, <1>1 DEF Sound, TwinIsExplained
  <1>8. twinned \subseteq twinned'
    BY <1>1
  <1>9. Secrets!ItemsKeptApart'
    <2>1. Secrets!ReplaceIsExact'
      BY <1>1 DEF ServiceInv, Secrets!ItemsKeptApart, Secrets!ReplaceIsExact
    <2>2. ASSUME NEW i \in Secrets!Held', NEW j \in Secrets!Held', i # j,
                 store'[i].attrs = store'[j].attrs
          PROVE  store'[i].attrs = {} \/ store'[i].attrs \in twinned'
      <3>1. CASE i # n /\ j # n
        BY <1>5, <1>8, <2>2, <3>1 DEF ServiceInv, Secrets!ItemsKeptApart, Secrets!TwinsAreExplained
      <3>2. new.attrs = call[a].attrs
        OBVIOUS
      <3> QED
        BY <1>4, <1>5, <1>7, <1>8, <2>2, <3>1, <3>2
    <2> QED
      BY <2>1, <2>2 DEF Secrets!ItemsKeptApart, Secrets!TwinsAreExplained
  <1>10. ASSUME NEW b \in App \ {a}
         PROVE  Sound(call[b])'
    <2>0. call'[b] = call[b] /\ Sound(call[b]) /\ call[b] \in Calls
      BY <1>1, <1>2, Answered DEF ServiceInv, ServiceTypes
    <2>1. Known(call[b])'
      <3>1. \A i \in call[b].rest : i \in Nat /\ i <= made
        BY <2>0 DEF Sound, Known, Calls
      <3>2. call[b].item \in Nat /\ call[b].item <= made
        BY <2>0 DEF Sound, Known, Calls
      <3> QED
        BY <1>0, <1>1, <2>0, <3>1, <3>2 DEF Known
    <2>2. Consistent(call[b])'
      <3>1. call[b].item # n
        BY <1>0, <2>0 DEF Sound, Known, Calls
      <3> QED
        BY <1>5, <2>0, <3>1 DEF Sound, Consistent, Reads
    <2>3. TwinIsExplained(call[b])'
      <3>1. CASE call[b].op = "create" /\ call[b].at = "put" /\ call[b].item = 0
                 /\ call[b].attrs = call[a].attrs
        <4>1. b \in Secrets!Rivals(a)
          BY <3>1 DEF Secrets!Rivals, Secrets!None
        <4> QED
          BY <1>1, <2>0, <3>1, <4>1 DEF TwinIsExplained
      <3>2. CASE call[b].attrs # call[a].attrs
        BY <1>4, <1>5, <1>8, <2>0, <3>2 DEF Sound, TwinIsExplained
      <3> QED
        BY <2>0, <3>1, <3>2 DEF TwinIsExplained
    <2> QED
      BY <2>1, <2>2, <2>3 DEF Sound
  <1>11. /\ call' \in [App -> Calls] /\ SecretPrompts' /\ Secrets!ReadPromptIsWanted'
         /\ call'[a] = Secrets!NoCall
    BY <1>1, <1>2, Answered
  <1>12. ServiceTypes'
    BY <1>4, <1>6, <1>11 DEF ServiceTypes
  <1>13. (\A b \in App : Sound(call[b]))'
    BY <1>10, <1>11, <1>12, Idle
  <1> QED
    BY <1>9, <1>11, <1>12, <1>13 DEF ServiceInv

\* An item is stored over by one with its attributes, or deleted; or the agent
\* refused the write.
LEMMA Writes ==
    ASSUME ServiceInv, NEW a \in App,
           Secrets!PutOver(a) \/ Secrets!DeleteDone(a) \/ Secrets!PutRefused(a)
    PROVE  ServiceInv'
  <1>0. /\ call[a] \in Calls /\ Sound(call[a]) /\ call \in [App -> Calls]
        /\ store \in [1 .. MaxItem -> Values] /\ Secrets!Held \subseteq 1 .. MaxItem
    BY DEF ServiceInv, ServiceTypes, Secrets!Held, Secrets!Item
  <1>1. /\ call[a].at = "put" /\ ~Reads(call[a]) /\ Secrets!Answer(a)
        /\ UNCHANGED <<made, twinned, vault, granted, prompts, forsaken>>
    BY <1>0 DEF Secrets!PutOver, Secrets!DeleteDone, Secrets!PutRefused, Reads, Sound, Consistent,
       Secrets!agentVars, Secrets!pastVars
  <1>2. /\ store' \in [1 .. MaxItem -> Values] /\ clobbered' = clobbered
        /\ \A i \in Secrets!Held' : i \in Secrets!Held /\ store'[i].attrs = store[i].attrs
    <2>1. CASE Secrets!PutOver(a)
      <3> DEFINE i == call[a].item
                 new == [attrs |-> call[a].attrs, by |-> a]
      <3>1. /\ i \in Secrets!Held /\ call[a].op \in {"create", "set"}
            /\ store' = [store EXCEPT ![i] = new]
            /\ clobbered' = IF store[i].attrs = call[a].attrs THEN clobbered
                            ELSE clobbered \cup {i}
        BY <2>1 DEF Secrets!PutOver
      <3>2. store[i].attrs = call[a].attrs
        BY <1>0, <1>1, <3>1 DEF Sound, Consistent
      <3>3. new \in Values /\ new.attrs = call[a].attrs
        BY <1>0 DEF Values, Calls
      <3>4. \A j \in 1 .. MaxItem : store'[j] = IF j = i THEN new ELSE store[j]
        BY <1>0, <3>1
      <3> QED
        BY <1>0, <3>1, <3>2, <3>3, <3>4 DEF Secrets!Held, Secrets!Item
    <2>2. CASE Secrets!DeleteDone(a)
      <3> DEFINE i == call[a].item
      <3>1. i \in Secrets!Held /\ store' = [store EXCEPT ![i] = Secrets!Nothing]
            /\ clobbered' = clobbered
        BY <2>2 DEF Secrets!DeleteDone, Secrets!pastVars
      <3>2. \A j \in 1 .. MaxItem : store'[j] = IF j = i THEN Secrets!Nothing ELSE store[j]
        BY <1>0, <3>1
      <3> QED
        BY <1>0, <3>1, <3>2, Idle DEF Secrets!Held, Secrets!Item
    <2>3. CASE Secrets!PutRefused(a)
      BY <1>0, <2>3 DEF Secrets!PutRefused, Secrets!agentVars, Secrets!pastVars, Secrets!Held
    <2> QED
      BY <2>1, <2>2, <2>3
  <1>3. /\ call' \in [App -> Calls] /\ SecretPrompts' /\ Secrets!ReadPromptIsWanted'
        /\ \A b \in App : call'[b] = IF b = a THEN Secrets!NoCall ELSE call[b]
    BY <1>1, Answered
  <1>4. /\ (\A i \in Secrets!Held : i <= made)' /\ Secrets!ItemsKeptApart'
        /\ \A d : Sound(d) => Sound(d)'
    BY <1>1, <1>2, ItemsShrink
  <1>5. ServiceTypes'
    BY <1>1, <1>2, <1>3, <1>4 DEF ServiceInv, ServiceTypes
  <1>6. (\A b \in App : Sound(call[b]))'
    BY <1>3, <1>4, <1>5, Idle DEF ServiceInv
  <1> QED
    BY <1>3, <1>4, <1>5, <1>6 DEF ServiceInv

\* A call that reads asks, waits, is refused or goes on to the next item.
LEMMA ReadsStep ==
    ASSUME ServiceInv, NEW a \in App,
           \/ Secrets!AskRead(a) \/ Secrets!Encrypt(a) \/ Secrets!AskFailed(a)
           \/ Secrets!AskPending(a) \/ Secrets!Wake(a) \/ Secrets!Dismiss(a)
           \/ Secrets!AskRefused(a)
    PROVE  ServiceInv'
  <1> DEFINE Moved(c) == call' = [call EXCEPT ![a] = c] /\ Sound(c)'
  <1>0. /\ call[a] \in Calls /\ Sound(call[a]) /\ call \in [App -> Calls]
        /\ UNCHANGED <<vault, store, made, granted, clobbered, twinned>>
    BY DEF ServiceInv, ServiceTypes, Secrets!AskRead, Secrets!Encrypt, Secrets!AskFailed,
       Secrets!AskRefused, Secrets!AskPending, Secrets!Wake, Secrets!Dismiss, Secrets!agentVars, Secrets!pastVars
  <1>1. ASSUME NEW at \in {"ask", "sleep", "dismiss", "encrypt"}, NEW n \in Nat, Reads(call[a])
        PROVE  LET c == [call[a] EXCEPT !.at = at, !.polls = n] IN
               c \in Calls /\ c.at = at /\ c.item = call[a].item /\ Sound(c)
    <2> DEFINE c == [call[a] EXCEPT !.at = at, !.polls = n]
    <2>1. /\ c \in Calls /\ c.at = at /\ c.item = call[a].item /\ c.op = call[a].op
          /\ c.rest = call[a].rest
      BY <1>0 DEF Calls
    <2>2. Sound(c)
      BY <1>0, <1>1, <2>1 DEF Sound, Known, Consistent, TwinIsExplained, Reads
    <2> QED
      BY <2>1, <2>2
  <1>2. CASE Secrets!AskRead(a)
    <2>1. /\ Reads(call[a]) /\ call[a].item \in granted /\ UNCHANGED <<prompts, forsaken>>
          /\ call' = [call EXCEPT ![a].at = "encrypt"]
      BY <1>2 DEF Secrets!AskRead, Secrets!Readable, Reads, Secrets!agentVars, Secrets!pastVars
    <2> DEFINE c == [call[a] EXCEPT !.at = "encrypt", !.polls = call[a].polls]
    <2>2. c \in Calls /\ Sound(c)
      BY <1>0, <1>1, <2>1 DEF Calls
    <2>3. call' = [call EXCEPT ![a] = c]
      BY <1>0, <2>1 DEF Calls
    <2>4. PICK d \in Calls : d = c
      BY <2>2
    <2>5. call[a].item \notin prompts
      BY <2>1 DEF ServiceInv, SecretPrompts
    <2> QED
      BY <1>0, <2>1, <2>2, <2>3, <2>4, <2>5, CallGoesOn, SoundAsBefore
  <1>3. CASE Secrets!Encrypt(a)
    <2>1. Secrets!NextItem(a) /\ ~Reads(call[a]) /\ call[a].at = "encrypt"
          /\ UNCHANGED <<prompts, forsaken>>
      BY <1>3 DEF Secrets!Encrypt, Reads, Secrets!agentVars, Secrets!pastVars
    <2> QED
      BY <1>0, <2>1, NextItemMoves, CallGoesOn
  <1>4. CASE Secrets!AskFailed(a) \/ Secrets!AskRefused(a)
    <2>1. /\ Secrets!NextItem(a) /\ Reads(call[a]) /\ prompts' = prompts
          /\ forsaken' = forsaken \cup (prompts \cap {call[a].item})
      BY <1>4 DEF Secrets!AskFailed, Secrets!AskRefused, Secrets!Forsake, Reads,
         Secrets!agentVars
    <2>2. PICK c \in Calls : call' = [call EXCEPT ![a] = c] /\ Sound(c)'
      BY <1>0, <2>1, NextItemMoves
    <2>3. Secrets!ReadPromptIsWanted'
      BY <2>1, <2>2, ReaderMoves
    <2> QED
      BY <1>0, <2>1, <2>2, <2>3, CallMoves DEF ServiceInv, SecretPrompts
  <1>5. CASE Secrets!AskPending(a)
    <2> DEFINE at == IF call[a].polls >= Patience THEN "dismiss" ELSE "sleep"
               i == call[a].item
    <2>1. /\ Reads(call[a]) /\ vault = "open" /\ i \notin granted
          /\ prompts' = prompts \cup {i} /\ forsaken' = forsaken \ {i}
          /\ call' = [call EXCEPT ![a].at = at]
      BY <1>5 DEF Secrets!AskPending, Secrets!MustAsk, Reads
    <2> DEFINE c == [call[a] EXCEPT !.at = at, !.polls = call[a].polls]
    <2>2. at \in {"sleep", "dismiss"}
      OBVIOUS
    <2> HIDE DEF at
    <2>3. c \in Calls /\ Sound(c) /\ Reads(c) /\ c.item = i
      BY <1>0, <1>1, <2>1, <2>2 DEF Calls, Reads
    <2>4. call' = [call EXCEPT ![a] = c]
      BY <1>0, <2>1 DEF Calls
    <2>5. PICK d \in Calls : d = c
      BY <2>3
    <2>6. call' = [call EXCEPT ![a] = d] /\ Sound(d)' /\ Reads(d) /\ d.item = i
      BY <1>0, <2>3, <2>4, <2>5, SoundAsBefore
    <2>7. Secrets!ReadPromptIsWanted'
      BY <2>1, <2>6, ReaderMoves, ZenonT(60)
    <2>8. SecretPrompts'
      BY <1>0, <2>1 DEF ServiceInv, SecretPrompts
    <2> QED
      BY <1>0, <2>6, <2>7, <2>8, CallMoves DEF ServiceInv
  <1>6. CASE Secrets!Wake(a)
    <2>1. /\ Reads(call[a]) /\ UNCHANGED <<prompts, forsaken>>
          /\ call' = [call EXCEPT ![a].at = "ask", ![a].polls = @ + 1]
      BY <1>6 DEF Secrets!Wake, Reads, Secrets!agentVars, Secrets!pastVars
    <2>2. PICK n \in Nat : n = call[a].polls + 1
      BY <1>0 DEF Calls
    <2> DEFINE c == [call[a] EXCEPT !.at = "ask", !.polls = n]
    <2>3. c \in Calls /\ Sound(c) /\ Reads(c) /\ c.item = call[a].item
      BY <1>0, <1>1, <2>1 DEF Reads
    <2>4. call' = [call EXCEPT ![a] = c]
      BY <1>0, <2>1, <2>2 DEF Calls
    <2>5. PICK d \in Calls : d = c
      BY <2>3
    <2> QED
      BY <1>0, <2>1, <2>3, <2>4, <2>5, CallGoesOn, SoundAsBefore
  <1>7. CASE Secrets!Dismiss(a)
    <2>1. /\ Secrets!NextItem(a) /\ Reads(call[a])
          /\ \/ /\ prompts' = IF vault = "gone" THEN prompts ELSE prompts \ {call[a].item}
                /\ forsaken' = forsaken
             \/ /\ prompts' = prompts
                /\ forsaken' = forsaken \cup (prompts \cap {call[a].item})
      BY <1>7 DEF Secrets!Dismiss, Secrets!Forsake, Reads
    <2>2. PICK c \in Calls : call' = [call EXCEPT ![a] = c] /\ Sound(c)'
      BY <1>0, <2>1, NextItemMoves
    <2>3. vault = "gone" => prompts = {}
      BY DEF ServiceInv, SecretPrompts
    <2>4. Secrets!ReadPromptIsWanted'
      BY <2>1, <2>2, <2>3, ReaderMoves
    <2>5. SecretPrompts'
      BY <1>0, <2>1 DEF ServiceInv, SecretPrompts
    <2> QED
      BY <1>0, <2>1, <2>2, <2>4, <2>5, CallMoves DEF ServiceInv
  <1> QED
    BY <1>2, <1>3, <1>4, <1>5, <1>6, <1>7

\* A request served to a caller that gave up puts its item on the deck, and says
\* that nobody waits for it unless another does.
LEMMA LateRead ==
    ASSUME ServiceInv, NEW i \in overdue, Secrets!ServedLate(i)
    PROVE  ServiceInv'
  <1>1. /\ prompts' = prompts \cup {i} /\ i \notin granted /\ vault = "open"
        /\ forsaken' = IF Secrets!Readers(i) = {} THEN forsaken \cup {i} ELSE forsaken \ {i}
        /\ UNCHANGED <<call, vault, store, made, granted, clobbered, twinned>>
    BY DEF Secrets!ServedLate, Secrets!MustAsk
  <1>2. Secrets!ReadPromptIsWanted'
    <2>1. ASSUME NEW j \in prompts' \ forsaken'
          PROVE  Secrets!Readers(j)' # {}
      <3>1. Secrets!Readers(j)' = Secrets!Readers(j)
        BY <1>1 DEF Secrets!Readers
      <3>2. Secrets!Readers(j) # {}
        BY <1>1, <2>1 DEF ServiceInv, Secrets!ReadPromptIsWanted
      <3> QED
        BY <3>1, <3>2
    <2> QED
      BY <2>1 DEF Secrets!ReadPromptIsWanted
  <1>3. Secrets!Held' = Secrets!Held
    BY <1>1 DEF Secrets!Held
  <1>4. ServiceTypes' /\ SecretPrompts'
    BY <1>1, <1>3 DEF ServiceInv, ServiceTypes, SecretPrompts
  <1>5. (\A a \in App : Sound(call[a]))'
    BY <1>1, SoundAsBefore DEF ServiceInv
  <1>6. Secrets!ItemsKeptApart'
    BY <1>1, <1>3 DEF ServiceInv, Secrets!ItemsKeptApart, Secrets!ReplaceIsExact,
       Secrets!TwinsAreExplained
  <1> QED
    BY <1>2, <1>4, <1>5, <1>6 DEF ServiceInv

\* The person and the host take prompts and items away.
LEMMA SecretWorldStep ==
    ASSUME ServiceInv, Secrets!World
    PROVE  ServiceInv'
  <1>1. /\ UNCHANGED <<call, made, clobbered, twinned, forsaken>>
        /\ prompts' \subseteq prompts /\ SecretPrompts'
    BY DEF Secrets!World, Secrets!pastVars, ServiceInv, SecretPrompts
  <1>2. /\ store' \in [1 .. MaxItem -> Values]
        /\ \A i \in Secrets!Held' : i \in Secrets!Held /\ store'[i].attrs = store[i].attrs
    <2>1. CASE UNCHANGED store
      BY <2>1 DEF ServiceInv, ServiceTypes, Secrets!Held
    <2>2. ASSUME NEW i \in Secrets!Held, store' = [store EXCEPT ![i] = Secrets!Nothing]
          PROVE  <1>2
      <3>1. i \in 1 .. MaxItem /\ store \in [1 .. MaxItem -> Values]
        BY DEF ServiceInv, ServiceTypes, Secrets!Held, Secrets!Item
      <3>2. \A j \in 1 .. MaxItem : store'[j] = IF j = i THEN Secrets!Nothing ELSE store[j]
        BY <2>2, <3>1
      <3> QED
        BY <2>2, <3>1, <3>2, Idle DEF Secrets!Held, Secrets!Item
    <2> QED
      BY <2>1, <2>2 DEF Secrets!World
  <1>3. /\ (\A i \in Secrets!Held : i <= made)' /\ Secrets!ItemsKeptApart'
        /\ \A d : Sound(d) => Sound(d)'
    BY <1>1, <1>2, ItemsShrink
  <1>4. ServiceTypes'
    BY <1>1, <1>2, <1>3 DEF ServiceInv, ServiceTypes
  <1>5. (\A a \in App : Sound(call[a]))'
    BY <1>1, <1>3 DEF ServiceInv
  <1>6. Secrets!ReadPromptIsWanted'
    BY <1>1 DEF ServiceInv, Secrets!ReadPromptIsWanted, Secrets!Readers
  <1> QED
    BY <1>1, <1>3, <1>4, <1>5, <1>6 DEF ServiceInv

\* The Secret Service keeps its invariant.
LEMMA ServiceStep ==
    ASSUME ServiceInv, Secrets!Next \/ UNCHANGED appVars
    PROVE  ServiceInv'
  <1>1. CASE UNCHANGED <<call, store, made, clobbered, twinned, vault, granted, prompts, forsaken>>
    <2>1. Secrets!Held' = Secrets!Held
      BY <1>1 DEF Secrets!Held
    <2>2. (\A a \in App : Sound(call[a]))'
      BY <1>1, SoundAsBefore DEF ServiceInv
    <2> QED
      BY <1>1, <2>1, <2>2 DEF ServiceInv, ServiceTypes, SecretPrompts, Secrets!ItemsKeptApart,
         Secrets!ReplaceIsExact, Secrets!TwinsAreExplained, Secrets!ReadPromptIsWanted, Secrets!Readers
  <1>2. ASSUME NEW a \in App, Secrets!Serve(a)
        PROVE  ServiceInv'
    BY <1>2, Lists, ItemAppears, Writes, ReadsStep DEF Secrets!Serve
  <1>9. ASSUME NEW a \in App, Secrets!AskRefused(a)
        PROVE  ServiceInv'
    BY <1>9, ReadsStep
  <1>3. ASSUME NEW a \in App, Secrets!OpenSession(a)
        PROVE  ServiceInv'
    BY <1>1, <1>3 DEF Secrets!OpenSession, Secrets!agentVars, Secrets!pastVars
  <1>4. ASSUME NEW s \in sessions, Secrets!CloseSession(s)
        PROVE  ServiceInv'
    BY <1>1, <1>4 DEF Secrets!CloseSession, Secrets!agentVars, Secrets!pastVars
  <1>5. CASE UNCHANGED appVars
    BY <1>1, <1>5 DEF appVars
  <1>6. ASSUME NEW a \in App, NEW s \in sessions, NEW attrs \in Attrs, NEW replace \in BOOLEAN,
               Secrets!CreateItem(a, s, attrs, replace)
        PROVE  ServiceInv'
    BY <1>6, CallBegins
  <1>7. ASSUME NEW a \in App, NEW i \in 1 .. made,
               (\E s \in sessions : Secrets!SetSecret(a, s, i)) \/ Secrets!DeleteItem(a, i)
        PROVE  ServiceInv'
    <2>1. \A s \in sessions : Secrets!SetSecret(a, s, i) => ServiceInv'
      BY CallBegins
    <2>2. Secrets!DeleteItem(a, i) => ServiceInv'
      BY CallBegins
    <2> QED
      BY <1>7, <2>1, <2>2
  <1>8. ASSUME NEW a \in App, NEW items \in SUBSET (1 .. made), Secrets!GetSecrets(a, items)
        PROVE  ServiceInv'
    BY <1>8, CallBegins
  <1> QED
    BY <1>2, <1>3, <1>4, <1>5, <1>6, <1>7, <1>8, <1>9, LateRead, SecretWorldStep
    DEF Secrets!Next

\* It starts with no item, no call and no prompt.
LEMMA ServiceStart == Secrets!Init => ServiceInv
  <1> SUFFICES ASSUME Secrets!Init PROVE ServiceInv
    OBVIOUS
  <1>1. /\ call = [a \in App |-> Secrets!NoCall] /\ vault = "open" /\ made = 0
        /\ store = [i \in 1 .. MaxItem |-> Secrets!Nothing]
        /\ granted = {} /\ prompts = {} /\ clobbered = {} /\ MaxItem \in Nat
    BY FrontEndsAssumption DEF Secrets!Init, Secrets!Item
  <1>2. Secrets!Held = {}
    BY <1>1 DEF Secrets!Held, Secrets!Item
  <1>3. ServiceTypes
    BY <1>1, <1>2, Idle DEF ServiceTypes
  <1> QED
    BY <1>1, <1>2, <1>3, Idle DEF ServiceInv, SecretPrompts, Secrets!ItemsKeptApart,
       Secrets!ReplaceIsExact, Secrets!TwinsAreExplained, Secrets!ReadPromptIsWanted, Secrets!Readers

----------------------------------------------------------------------------
\* The browser.

Ended == {"result", "error", "stand aside"}

\* Where a request can be: not handed over yet; parked, with nothing begun; begun,
\* with the worker and its host at the same stage; or without the worker, with a
\* host that finds out.
Placed(r) ==
    /\ chrome[r] = "idle" \/ r \in jobs =>
          work[r] = "none" /\ host[r] = "none" /\ desk[r] = "none" /\ r \notin ceremonies
    /\ r \in jobs => chrome[r] = "asked"
    /\ r \in ceremonies => work[r] = "collect"
    /\ work[r] = "none" => host[r] \in {"none", "orphan", "begin orphan"}
    /\ work[r] = "begin" => host[r] \in {"begin", "registered", "error"}
    /\ work[r] = "collect" => host[r] \in {"poll"} \cup Ended

\* A ceremony is on the desk once its host has asked; a host that may still ask for
\* one does so for a request that Chromium waits for or that nobody could withdraw;
\* one that has ended left none behind that somebody could, and one still to come
\* is nobody's.
Accounted(r) ==
    /\ host[r] \in {"begin", "begin orphan"} => desk[r] = "none"
    /\ work[r] = "begin" \/ r \in ceremonies => chrome[r] = "asked" \/ r \in missed
    /\ host[r] = "begin orphan" => r \in missed
    /\ host[r] \in Ended => desk[r] # "waiting" \/ r \in missed
    /\ desk[r] = "late" => r \in missed

CeremonyWanted(r) ==
    desk[r] = "waiting" => chrome[r] = "asked" \/ r \in cancels \/ r \in missed

WebTypes ==
    /\ chrome \in [Request -> {"idle", "asked", "signed", "refused", "cancelled"}]
    /\ work \in [Request -> {"none", "begin", "collect"}]
    /\ host \in [Request -> {"none", "begin", "begin orphan", "registered", "poll", "orphan"}
                            \cup Ended]
    /\ desk \in [Request -> {"none", "waiting", "approved", "deferred", "late"}]

WebInv == WebTypes /\ \A r \in Request : Placed(r) /\ Accounted(r) /\ CeremonyWanted(r)

\* What one request's step leaves of the others.
LEMMA OthersStay ==
    ASSUME WebInv, WebTypes', NEW r \in Request,
           \A q \in Request \ {r} :
              /\ chrome'[q] = chrome[q] /\ work'[q] = work[q] /\ host'[q] = host[q]
              /\ desk'[q] = desk[q]
              /\ q \in jobs' <=> q \in jobs
              /\ q \in ceremonies' <=> q \in ceremonies
              /\ q \in cancels' <=> q \in cancels
              /\ q \in missed' <=> q \in missed,
           Placed(r)', Accounted(r)', CeremonyWanted(r)'
    PROVE  WebInv'
  <1>1. ASSUME NEW q \in Request \ {r}
        PROVE  Placed(q)' /\ Accounted(q)' /\ CeremonyWanted(q)'
    BY DEF WebInv, Placed, Accounted, CeremonyWanted
  <1> QED
    BY <1>1 DEF WebInv

\* The worker: a request is parked, its page connects, its host answers, it is
\* completed, cancelled, or its page closed.
LEMMA WorkerStep ==
    ASSUME WebInv, NEW r \in Request,
           \/ Web!Park(r) \/ Web!Connect(r) \/ Web!Begun(r) \/ Web!Complete(r)
           \/ Web!Canceled(r) \/ Web!ClosePage(r)
    PROVE  WebInv'
  <1>0. WebTypes /\ Placed(r) /\ Accounted(r) /\ CeremonyWanted(r)
    BY DEF WebInv
  <1>1. CASE Web!Park(r)
    <2>1. WebTypes'
      BY <1>0, <1>1 DEF Web!Park, Web!hostVars, WebTypes
    <2>2. Placed(r)' /\ Accounted(r)' /\ CeremonyWanted(r)'
      BY <1>0, <1>1 DEF Web!Park, Web!hostVars, WebTypes, Placed, Accounted, CeremonyWanted, Ended
    <2> QED
      BY <1>0, <1>1, <2>1, <2>2, OthersStay DEF Web!Park, Web!hostVars, WebTypes
  <1>2. CASE Web!Connect(r)
    <2>1. WebTypes'
      BY <1>0, <1>2 DEF Web!Connect, WebTypes
    <2>2. Placed(r)' /\ Accounted(r)' /\ CeremonyWanted(r)'
      BY <1>0, <1>2 DEF Web!Connect, WebTypes, Placed, Accounted, CeremonyWanted, Ended
    <2> QED
      BY <1>0, <1>2, <2>1, <2>2, OthersStay DEF Web!Connect, WebTypes
  <1>3. CASE Web!Begun(r)
    <2>1. WebTypes'
      BY <1>0, <1>3 DEF Web!Begun, WebTypes
    <2>2. Placed(r)' /\ Accounted(r)' /\ CeremonyWanted(r)'
      BY <1>0, <1>3 DEF Web!Begun, WebTypes, Placed, Accounted, CeremonyWanted, Ended
    <2> QED
      BY <1>0, <1>3, <2>1, <2>2, OthersStay DEF Web!Begun, WebTypes
  <1>4. CASE Web!Complete(r)
    <2>1. WebTypes'
      BY <1>0, <1>4 DEF Web!Complete, WebTypes
    <2>2. Placed(r)' /\ Accounted(r)' /\ CeremonyWanted(r)'
      BY <1>0, <1>4 DEF Web!Complete, WebTypes, Placed, Accounted, CeremonyWanted, Ended
    <2> QED
      BY <1>0, <1>4, <2>1, <2>2, OthersStay DEF Web!Complete, WebTypes
  <1>5. CASE Web!Canceled(r)
    <2>1. WebTypes'
      BY <1>0, <1>5 DEF Web!Canceled, Web!hostVars, WebTypes
    <2>2. Placed(r)' /\ Accounted(r)' /\ CeremonyWanted(r)'
      BY <1>0, <1>5 DEF Web!Canceled, Web!hostVars, Web!Miss, WebTypes, Placed, Accounted,
         CeremonyWanted, Ended
    <2> QED
      BY <1>0, <1>5, <2>1, <2>2, OthersStay DEF Web!Canceled, Web!hostVars, Web!Miss, WebTypes
  <1>6. CASE Web!ClosePage(r)
    BY <1>0, <1>6 DEF Web!ClosePage, Web!workerVars, Web!hostVars, WebInv, WebTypes, Placed,
       Accounted, CeremonyWanted
  <1> QED
    BY <1>1, <1>2, <1>3, <1>4, <1>5, <1>6

\* The host and the desk: a ceremony is begun, collected, waited for, given up,
\* cancelled or decided.
LEMMA HostStep ==
    ASSUME WebInv, NEW r \in Request,
           \/ Web!Hosts(r)
           \/ Web!HostCollectFails(r)
           \/ Web!ServedLate(r)
           \/ \E answer \in Web!Answers : Web!Decide(r, answer)
    PROVE  WebInv'
  <1>0. WebTypes /\ Placed(r) /\ Accounted(r) /\ CeremonyWanted(r)
    BY DEF WebInv
  <1>1. CASE Web!HostBegin(r)
    <2>1. WebTypes'
      BY <1>0, <1>1 DEF Web!HostBegin, Web!HostError, Web!Miss, Web!workerVars, WebTypes, Ended
    <2>2. Placed(r)' /\ Accounted(r)' /\ CeremonyWanted(r)'
      BY <1>0, <1>1 DEF Web!HostBegin, Web!HostError, Web!Miss, Web!workerVars, WebTypes, Placed, Accounted,
         CeremonyWanted, Ended
    <2> QED
      BY <1>0, <1>1, <2>1, <2>2, OthersStay DEF Web!HostBegin, Web!HostError, Web!Miss, Web!workerVars, WebTypes
  <1>2. CASE Web!HostCollect(r)
    <2>1. WebTypes'
      BY <1>0, <1>2 DEF Web!HostCollect, Web!HostCollectAnswer, Web!Collected, Web!workerVars, WebTypes, Ended
    <2>2. Placed(r)' /\ Accounted(r)' /\ CeremonyWanted(r)'
      BY <1>0, <1>2 DEF Web!HostCollect, Web!HostCollectAnswer, Web!Collected, Web!workerVars, WebTypes, Placed,
         Accounted, CeremonyWanted, Ended
    <2> QED
      BY <1>0, <1>2, <2>1, <2>2, OthersStay
      DEF Web!HostCollect, Web!HostCollectAnswer, Web!Collected, Web!workerVars, WebTypes
  <1>3. CASE Web!HostWait(r)
    <2>1. WebTypes'
      BY <1>0, <1>3 DEF Web!HostWait, Web!HostError, Web!Collected, Web!workerVars, WebTypes, Ended
    <2>2. Placed(r)' /\ Accounted(r)' /\ CeremonyWanted(r)'
      BY <1>0, <1>3 DEF Web!HostWait, Web!HostError, Web!Collected, Web!Miss, Web!workerVars, WebTypes, Placed, Accounted,
         CeremonyWanted, Ended
    <2> QED
      BY <1>0, <1>3, <2>1, <2>2, OthersStay DEF Web!HostWait, Web!HostError, Web!Collected, Web!Miss, Web!workerVars, WebTypes
  <1>4. CASE Web!HostCancel(r)
    <2>1. WebTypes'
      BY <1>0, <1>4 DEF Web!HostCancel, Web!Miss, Web!workerVars, Web!hostVars, WebTypes
    <2>2. Placed(r)' /\ Accounted(r)' /\ CeremonyWanted(r)'
      BY <1>0, <1>4 DEF Web!HostCancel, Web!Miss, Web!workerVars, Web!hostVars, WebTypes, Placed, Accounted,
         CeremonyWanted, Ended
    <2> QED
      BY <1>0, <1>4, <2>1, <2>2, OthersStay DEF Web!HostCancel, Web!Miss, Web!workerVars, Web!hostVars, WebTypes
  <1>5. ASSUME NEW answer \in Web!Answers, Web!Decide(r, answer)
        PROVE  WebInv'
    <2>0. answer \in {"none", "approved", "deferred"}
      BY DEF Web!Answers
    <2>1. WebTypes'
      BY <1>0, <1>5, <2>0 DEF Web!Decide, Web!workerVars, Web!hostVars, WebTypes
    <2>2. Placed(r)' /\ Accounted(r)' /\ CeremonyWanted(r)'
      BY <1>0, <1>5, <2>0 DEF Web!Decide, Web!workerVars, Web!hostVars, WebTypes, Placed, Accounted,
         CeremonyWanted, Ended
    <2> QED
      BY <1>0, <1>5, <2>1, <2>2, OthersStay DEF Web!Decide, Web!workerVars, Web!hostVars, WebTypes
  <1>6. CASE Web!HostCollectFails(r)
    <2>1. WebTypes'
      BY <1>0, <1>6 DEF Web!HostCollectFails, Web!HostError, Web!workerVars, WebTypes, Ended
    <2>2. Placed(r)' /\ Accounted(r)' /\ CeremonyWanted(r)'
      BY <1>0, <1>6 DEF Web!HostCollectFails, Web!HostError, Web!Miss, Web!workerVars, WebTypes,
         Placed, Accounted, CeremonyWanted, Ended
    <2> QED
      BY <1>0, <1>6, <2>1, <2>2, OthersStay
      DEF Web!HostCollectFails, Web!HostError, Web!Miss, Web!workerVars, WebTypes
  <1>7. CASE Web!ServedLate(r)
    <2>1. WebTypes'
      BY <1>0, <1>7 DEF Web!ServedLate, Web!workerVars, Web!hostVars, WebTypes
    <2>2. Placed(r)' /\ Accounted(r)' /\ CeremonyWanted(r)'
      BY <1>0, <1>7 DEF Web!ServedLate, Web!workerVars, Web!hostVars, WebTypes, Placed, Accounted,
         CeremonyWanted, Ended
    <2> QED
      BY <1>0, <1>7, <2>1, <2>2, OthersStay
      DEF Web!ServedLate, Web!workerVars, Web!hostVars, WebTypes
  <1> QED
    BY <1>1, <1>2, <1>3, <1>4, <1>5, <1>6, <1>7 DEF Web!Hosts

\* Torn down, the worker forgets every request; what it waited for is missed.
LEMMA TearDownStep ==
    ASSUME WebInv, Web!TearDown
    PROVE  WebInv'
  <1>1. /\ jobs' = {} /\ ceremonies' = {} /\ work' = [r \in Request |-> "none"]
        /\ missed' = missed \cup {r \in Request : work[r] # "none"}
        /\ UNCHANGED <<chrome, desk, cancels>>
        /\ host' = [r \in Request |->
                      CASE host[r] = "poll" -> "orphan"
                        [] host[r] = "begin" -> "begin orphan"
                        [] OTHER -> IF host[r] \in {"orphan", "begin orphan"} THEN host[r]
                                    ELSE "none"]
    BY DEF Web!TearDown
  <1>2. ASSUME NEW r \in Request
        PROVE  /\ work'[r] = "none"
               /\ \/ host[r] = "poll" /\ host'[r] = "orphan"
                  \/ host[r] = "begin" /\ host'[r] = "begin orphan"
                  \/ host[r] \in {"orphan", "begin orphan"} /\ host'[r] = host[r]
                  \/ host[r] \notin {"poll", "begin", "orphan", "begin orphan"} /\ host'[r] = "none"
    BY <1>1
  <1>3. WebTypes'
    BY <1>1, <1>2 DEF WebInv, WebTypes
  <1>4. ASSUME NEW r \in Request
        PROVE  Placed(r)' /\ Accounted(r)' /\ CeremonyWanted(r)'
    <2>1. Placed(r) /\ Accounted(r) /\ CeremonyWanted(r)
      BY DEF WebInv
    <2>2. host[r] = "begin" => r \in missed'
      BY <1>1, <2>1 DEF Placed, WebInv, WebTypes, Ended
    <2> QED
      BY <1>1, <1>2, <2>1, <2>2 DEF Placed, Accounted, CeremonyWanted, Ended, WebInv, WebTypes
  <1> QED
    BY <1>3, <1>4 DEF WebInv

\* The browser's programs keep their invariant.
LEMMA WebStep ==
    ASSUME WebInv, Web!Next \/ UNCHANGED webVars
    PROVE  WebInv'
  <1>1. CASE UNCHANGED webVars
    BY <1>1 DEF webVars, WebInv, WebTypes, Placed, Accounted, CeremonyWanted
  <1> QED
    BY <1>1, WorkerStep, HostStep, TearDownStep DEF Web!Next, Web!Works

\* They start with no request.
LEMMA WebStart == Web!Init => WebInv
  BY DEF Web!Init, WebInv, WebTypes, Placed, Accounted, CeremonyWanted, Ended

----------------------------------------------------------------------------
\* The front ends side by side.

\* Whichever of them runs, each keeps its invariant: the SSH daemon's threads and
\* prompts, the Secret Service's items and prompts and the browser's ceremonies are
\* accounted for.  It says nothing of the clipboard.
THEOREM FrontEndsInvariant == Spec => [](SshInv /\ ServiceInv /\ WebInv)
  <1>1. Init => SshInv /\ ServiceInv /\ WebInv
    BY SshStart, ServiceStart, WebStart DEF Init
  <1>2. SshInv /\ ServiceInv /\ WebInv /\ [Next]_vars => (SshInv /\ ServiceInv /\ WebInv)'
    <2> SUFFICES ASSUME SshInv, ServiceInv, WebInv, [Next]_vars
                 PROVE  (SshInv /\ ServiceInv /\ WebInv)'
      OBVIOUS
    <2>1. Ssh!Next \/ UNCHANGED sshVars
      BY DEF Next, vars, OnlySecrets, OnlyWeb, OnlyClip
    <2>2. Secrets!Next \/ UNCHANGED appVars
      BY DEF Next, vars, OnlySsh, OnlyWeb, OnlyClip
    <2>3. Web!Next \/ UNCHANGED webVars
      BY DEF Next, vars, OnlySsh, OnlySecrets, OnlyClip
    <2> QED
      BY <2>1, <2>2, <2>3, SshStep, ServiceStep, WebStep
  <1> QED
    BY <1>1, <1>2, PTL DEF Spec

\* No prompt outlives those that wait for it, except where its key or item went away,
\* a question or the dismissal failed, or the daemon stopped, so that nobody took it
\* down; and every thread of the SSH daemon that ends gives its place back
\* (ssh_agent.rs: VaultSigner::sign, Guard; secretservice.rs: read_with_approval).
THEOREM PromptsAreWanted == Spec => []NothingLeaks
  <1>1. SshInv /\ ServiceInv => NothingLeaks
    BY DEF SshInv, ServiceInv, NothingLeaks
  <1> QED
    BY <1>1, FrontEndsInvariant, PTL

\* No store of the Secret Service overwrites an item with other attributes, however
\* its search and the stores of other applications interleave, and items with the
\* same attributes are explained (secretservice.rs: create_item, replacement_target).
THEOREM StoresKeepApart == Spec => []ItemsKeptApart
  <1>1. ServiceInv => ItemsKeptApart
    BY DEF ServiceInv, ItemsKeptApart
  <1> QED
    BY <1>1, FrontEndsInvariant, PTL

\* A ceremony waits on the desk only for a request that Chromium waits for, or its
\* withdrawal is on the way, or it could not be withdrawn: a cancel that came too
\* early, a worker torn down, the host's ceiling, or a begin, a collect or a cancel that
\* failed (sw.js, passkey_host.rs).
THEOREM CeremoniesAreWanted == Spec => []CeremonyIsWanted
  <1>1. WebInv => CeremonyIsWanted
    BY DEF WebInv, CeremonyWanted, CeremonyIsWanted, Web!CeremonyIsWanted
  <1> QED
    BY <1>1, FrontEndsInvariant, PTL

============================================================================
