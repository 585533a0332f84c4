------------------------- MODULE SecurityKeyProofs -------------------------
(***************************************************************************)
(* Proofs about the virtual security key, for every number of programs,    *)
(* kinds of requests, lengths and limits: no prompt outlives its request,  *)
(* no answer is signed that nobody approved, and, as long as the channel   *)
(* numbers last, programs that share the key do not meet in it.            *)
(***************************************************************************)
EXTENDS SecurityKey, TLAPS, FiniteSetTheorems, SequenceTheorems

----------------------------------------------------------------------------
\* What is on the wire.

Channel == 1 .. Broadcast - 1

Report ==
    [ cid : Cid, kind : Kind \cup {"cancel", "short"}, len : Nat, msg : Nat,
      index : Nat \ {0}, seq : Int ]
Answering == [cid : Cid, kind : {"error", "answer", "init"}, of : Nat, new : Nat]
Msg == [id : Nat, cid : Cid, kind : Kind \cup {"none"}, len : Nat]
Program == [chan : 0 .. Broadcast - 1, msg : Msg, sent : Nat, cancelled : BOOLEAN,
            given : Seq(Answering)]
Transaction == [msg : Nat, kind : Kind \cup {"none", "cancel", "short"}, len : Nat,
                parts : Seq(Nat \X (Nat \ {0})), next : Nat]

\* A report that begins a request, and one that goes on with it.
Opens(p) == p.seq = Start /\ p.kind \notin {"init", "cancel"}
Continues(p) == p.seq # Start

\* A report is one that a program's message has, or a malformed one.
Sound(p) ==
    /\ p.seq = IF p.index = 1 THEN Start ELSE p.index - 2
    /\ p.msg <= count
    /\ p.cid \in Channel =>
          /\ p.kind # "short" /\ p.msg # 0
          /\ p.len \in 1 .. MaxLen /\ p.index \in 1 .. p.len
          /\ p.kind \in {"init", "cancel"} => p.len = 1
    /\ p.cid \notin Channel =>
          /\ p.index = 1 /\ p.kind # "cancel"
          /\ IsInit(p.kind) => p.len = 1 \/ p.len > MaxLen
    /\ p.kind = "init" /\ p.len = 1 => p.msg # 0

\* The message a program has begun.
Composed(x) ==
    IF x.msg = NoMsg
    THEN x.sent = 0
    ELSE /\ x.msg.id \in 1 .. count /\ x.msg.kind # "none"
         /\ x.msg.len \in 1 .. MaxLen /\ x.sent \in 0 .. x.msg.len
         /\ x.msg.cid = IF x.chan = 0 THEN Broadcast ELSE x.chan
         /\ x.chan = 0 => x.msg.kind = "init"
         /\ x.msg.kind = "init" => x.msg.len = 1

\* A transaction under way has its fragments in their places, and lacks some.
Partial(x) ==
    /\ Len(x.parts) \in 1 .. x.len - 1 /\ x.len <= MaxLen
    /\ x.next = Len(x.parts) - 1
    /\ x.kind \notin {"none", "cancel", "init", "short"} /\ x.msg \in 1 .. count
    /\ \A k \in 1 .. Len(x.parts) : x.parts[k][2] = k

KeyTypes ==
    /\ queue \in Seq(Report) /\ count \in Nat
    /\ frames \in [Cid -> Transaction] /\ nextCid \in Channel
    /\ client \in [Client -> Program]
    /\ cur \in Msg /\ reused \subseteq Channel
    /\ at \in {"recv", "list", "begin", "poll", "refuse", "gone"}
    /\ \A j \in 1 .. Len(queue) : Sound(queue[j])
    /\ \A c \in Client : Composed(client[c])
    /\ \A i \in Cid : frames[i] # Idle => i \in Channel /\ Partial(frames[i])
    /\ IF at \in {"recv", "gone"} THEN cur = NoMsg
       ELSE cur.cid \in Channel /\ cur.id \in 1 .. count

\* The last channel number handed out.
Last == IF nextCid = Broadcast - 1 THEN 0 ELSE nextCid

\* The INITs the key has yet to answer.
Inits ==
    {p.msg : p \in {queue[j] : j \in {j \in 1 .. Len(queue) : queue[j].kind = "init" /\ queue[j].len = 1}}}
    \cup {client[c].msg.id : c \in {c \in Client : client[c].msg.kind = "init" /\ client[c].sent = 0}}

\* Messages are numbered; what a program has not written is not on the wire.
Numbers ==
    /\ count <= MaxMsg
    /\ Last + Cardinality(Inits) <= count
    /\ \A c, d \in Client : c # d /\ client[c].msg # NoMsg => client[c].msg.id # client[d].msg.id
    /\ \A c \in Client, j \in 1 .. Len(queue) :
         client[c].msg # NoMsg /\ queue[j].msg = client[c].msg.id => queue[j].index <= client[c].sent
    /\ \A j, k \in 1 .. Len(queue) :
         j # k /\ queue[j].kind = "init" /\ queue[k].kind = "init"
               /\ queue[j].len = 1 /\ queue[k].len = 1
         => queue[j].msg # queue[k].msg

\* The answer to its INIT lies ready for a program.
Promised(c, k) ==
    /\ client[c].msg # NoMsg
    /\ client[c].given[k].kind = "init" /\ client[c].given[k].of = client[c].msg.id

Unused(i) ==
    \/ Last < i /\ i < Broadcast - Cardinality(Client)
    \/ \E c \in Client : \E k \in 1 .. Len(client[c].given) :
         Promised(c, k) /\ client[c].given[k].new = i

Unheard(i) ==
    /\ i \notin reused /\ frames[i] = Idle /\ cur.cid # i
    /\ \A c \in Client : client[c].chan # i
    /\ \A j \in 1 .. Len(queue) : queue[j].cid # i

\* Every program has a channel of its own, and the next one it gets was never used.
Channels ==
    /\ \A c, d \in Client : c # d /\ client[c].chan # 0 => client[c].chan # client[d].chan
    /\ \A i \in Channel : Unused(i) => Unheard(i)
    /\ \A c \in Client : \A k \in 1 .. Len(client[c].given) :
         LET r == client[c].given[k] IN
         /\ r.cid = Listens(c) /\ r.cid # 0 /\ r.of <= count
         /\ r.kind = "init" =>
              /\ r.new \in 1 .. Last
              /\ \A d \in Client : \A l \in 1 .. Len(client[d].given) :
                   client[d].given[l].kind = "init" /\ client[d].given[l].new = r.new
                   => client[d].given[l].of = r.of

\* On a channel that was not used on after a message was given up, what follows the
\* beginning of a request belongs to that request, in order.
Wire(i) ==
    /\ \A j, k \in 1 .. Len(queue) :
         j < k /\ queue[j].cid = i /\ queue[k].cid = i =>
            /\ Opens(queue[j]) => /\ ~Opens(queue[k])
                                  /\ Continues(queue[k]) => queue[k].msg = queue[j].msg
            /\ Continues(queue[j]) /\ Continues(queue[k]) /\ queue[j].msg = queue[k].msg
               => queue[j].index < queue[k].index
    /\ frames[i] # Idle =>
         /\ \A k \in 1 .. Len(frames[i].parts) : frames[i].parts[k] = <<frames[i].msg, k>>
         /\ \A j \in 1 .. Len(queue) : queue[j].cid = i =>
              /\ ~Opens(queue[j])
              /\ Continues(queue[j]) => /\ queue[j].msg = frames[i].msg
                                        /\ queue[j].index > Len(frames[i].parts)

\* Nothing of a program's is under way: on the wire, in the table, before a human, or
\* answered and not taken.
NotOpening(c) == \A j \in 1 .. Len(queue) : ~(queue[j].cid = client[c].chan /\ Opens(queue[j]))
Quiet(c) ==
    /\ NotOpening(c)
    /\ frames[client[c].chan] = Idle /\ cur.cid # client[c].chan /\ client[c].given = <<>>

\* A program that waits for no INIT has at most one thing under way, its request.
OneAtATime(c) ==
    LET x == client[c] i == x.chan IN
    i # 0 /\ i \notin reused /\ x.msg.kind # "init" =>
        /\ \A j \in 1 .. Len(queue) : queue[j].cid = i =>
             /\ queue[j].kind # "init"
             /\ Opens(queue[j]) => queue[j].msg = x.msg.id
        /\ frames[i] # Idle => frames[i].msg = x.msg.id /\ Len(frames[i].parts) <= x.sent
        /\ cur.cid = i => /\ cur.id = x.msg.id /\ NotOpening(c)
                          /\ frames[i] = Idle /\ x.given = <<>>
        /\ x.given # <<>> => /\ Len(x.given) = 1 /\ x.given[1].of = x.msg.id
                             /\ NotOpening(c) /\ frames[i] = Idle
        /\ x.sent = 0 => Quiet(c)

\* What went wrong so far is on channels used on after a message was given up.
PastIsFit == FramesAreWhole /\ misread \subseteq reused

WireInv ==
    /\ KeyTypes /\ Numbers /\ Channels
    /\ \A i \in Channel \ reused : Wire(i)
    /\ \A c \in Client : OneAtATime(c)
    /\ PastIsFit

\* There are programs, and more channel numbers than they and their messages use.
Roomy == Client # {} /\ MaxMsg + Cardinality(Client) < Broadcast

\* A prompt on the screen is the current request's or an orphan, and the approval of
\* the current request is of its message.
PromptInv ==
    /\ prompt \in Prompt /\ signed = {}
    /\ at \in {"recv", "list", "begin"} /\ prompt # "none" => orphan
    /\ at \in {"poll", "refuse"} => ~orphan
    /\ at = "poll" /\ prompt = "approved" => yes = cur.id

----------------------------------------------------------------------------
\* The prompt.

\* Nothing of the prompt changes.
LEMMA PromptKept ==
    ASSUME PromptInv, UNCHANGED <<agentVars, at, cur>>
    PROVE  PromptInv'
  BY DEF PromptInv, agentVars

\* A request answered leaves nothing on the screen, or an orphan.
LEMMA PromptAnswered ==
    ASSUME PromptInv, NEW ok \in BOOLEAN, Answer(ok), ok => at = "poll" /\ prompt = "approved",
           prompt' \in Prompt, prompt' # "none" => orphan'
    PROVE  PromptInv'
  BY DEF PromptInv, Answer

\* Every step keeps the prompt's invariant.
LEMMA PromptStep == PromptInv /\ [Next]_vars => PromptInv'
  <1> SUFFICES ASSUME PromptInv, [Next]_vars PROVE PromptInv'
    OBVIOUS
  <1>1. CASE UNCHANGED vars
    <2>1. UNCHANGED <<agentVars, at, cur>>
      BY <1>1 DEF vars, threadVars
    <2> QED
      BY <2>1, PromptKept
  <1>2. ASSUME NEW c \in Client,
               \/ \E a \in Asks \cup {<<"init", 1>>} : StartMessage(c, a[1], a[2])
               \/ Resync(c) \/ Send(c) \/ Cancel(c) \/ GiveUp(c) \/ TakeAnswer(c)
        PROVE  PromptInv'
    <2>1. UNCHANGED <<agentVars, at, cur>>
      BY <1>2 DEF StartMessage, Resync, Send, Cancel, GiveUp, TakeAnswer, threadVars
    <2> QED
      BY <2>1, PromptKept
  <1>3. CASE Stray
    <2>1. UNCHANGED <<agentVars, at, cur>>
      BY <1>3 DEF Stray, threadVars
    <2> QED
      BY <2>1, PromptKept
  <1>4. CASE Recv
    <2>1. UNCHANGED agentVars /\ at = "recv" /\ at' \in {"recv", "list", "begin"}
      BY <1>4 DEF Recv, threadVars
    <2> QED
      BY <2>1 DEF PromptInv, agentVars
  <1>5. CASE List
    <2>1. CASE Answer(FALSE)
      <3>1. prompt' = prompt /\ orphan' = orphan /\ at = "list"
        BY <1>5 DEF List
      <3> QED
        BY <2>1, <3>1, PromptAnswered DEF PromptInv
    <2>2. CASE at' = "begin" /\ UNCHANGED <<cur, client, yes, signed>>
      BY <1>5, <2>2 DEF List, PromptInv
    <2> QED
      BY <1>5, <2>1, <2>2 DEF List
  <1>6. CASE Begin
    <2>1. CASE Answer(FALSE) /\ UNCHANGED <<prompt, orphan>>
      <3>1. at = "begin"
        BY <1>6 DEF Begin
      <3> QED
        BY <2>1, <3>1, PromptAnswered DEF PromptInv
    <2>2. CASE /\ prompt' = "waiting" /\ orphan' = FALSE
               /\ at' = "poll" /\ UNCHANGED <<cur, client, signed>>
      BY <2>2 DEF PromptInv, Prompt
    <2> QED
      BY <1>6, <2>1, <2>2 DEF Begin
  <1>7. CASE Collect
    <2>1. at = "poll" /\ prompt' = "none" /\ "none" \in Prompt
      BY <1>7 DEF Collect, Prompt
    <2>2. CASE prompt = "approved" /\ Answer(TRUE)
      BY <2>1, <2>2, PromptAnswered
    <2>3. CASE Answer(FALSE)
      BY <2>1, <2>3, PromptAnswered
    <2> QED
      BY <1>7, <2>2, <2>3 DEF Collect
  <1>8. CASE AgentLost
    <2>1. prompt' \in Prompt /\ orphan' = TRUE /\ Answer(FALSE)
      BY <1>8 DEF AgentLost, Prompt, PromptInv
    <2> QED
      BY <2>1, PromptAnswered
  <1>9. CASE StopWaiting
    BY <1>9 DEF StopWaiting, PromptInv, agentVars
  <1>10. CASE Withdraw
    <2>1. prompt' = "none" /\ prompt' \in Prompt /\ Answer(FALSE)
      BY <1>10 DEF Withdraw, Prompt
    <2> QED
      BY <2>1, PromptAnswered
  <1>11. CASE Stops
    BY <1>11 DEF Stops, PromptInv, agentVars
  <1>12. CASE Human
    BY <1>12 DEF Human, PromptInv, Prompt, threadVars
  <1> QED
    BY <1>1, <1>2, <1>3, <1>4, <1>5, <1>6, <1>7, <1>8, <1>9, <1>10, <1>11, <1>12
    DEF Next, Thread

\* While the key waits for requests nothing of an earlier one is on the screen, unless
\* the agent was lost while it was (uhid.rs: ceremony, "Take the prompt off the screen").
THEOREM PromptsComeDown == Spec => []PromptWithdrawn
  <1>1. Init => PromptInv
    BY DEF Init, PromptInv, Prompt
  <1>2. PromptInv => PromptWithdrawn
    BY DEF PromptInv, PromptWithdrawn
  <1> QED
    BY <1>1, <1>2, PromptStep, PTL DEF Spec

NothingForged == signed = {}

\* Only what a human approved is signed, and for the message it was asked for (uhid.rs:
\* ceremony).
THEOREM OnlyTheApproved == Spec => []NothingForged
  <1>1. Init => PromptInv
    BY DEF Init, PromptInv, Prompt
  <1>2. PromptInv => NothingForged
    BY DEF PromptInv, NothingForged
  <1> QED
    BY <1>1, <1>2, PromptStep, PTL DEF Spec

----------------------------------------------------------------------------
\* Numbers, sequences and tables.

\* The constants as numbers.
LEMMA Sizes ==
    /\ Broadcast \in Nat /\ Cardinality(Client) \in Nat /\ Broadcast > Cardinality(Client)
    /\ SeqMod \in Nat \ {0} /\ MaxLen = SeqMod + 1 /\ MaxMsg \in Nat
    /\ Roomy => Cardinality(Client) >= 1 /\ MaxMsg < Broadcast - 1
  <1>1. Cardinality(Client) \in Nat
    BY KeyAssumption, FS_CardinalityType
  <1>2. Client # {} => Cardinality(Client) # 0
    BY KeyAssumption, FS_EmptySet
  <1> QED
    BY <1>1, <1>2, KeyAssumption DEF MaxLen, Roomy

\* Sequence numbers are told apart within one message.
LEMMA SmallModulo ==
    /\ \A n \in 0 .. SeqMod - 1 : n % SeqMod = n
    /\ \A n \in Nat : n % SeqMod \in Nat
  BY KeyAssumption

\* The queue with its first report taken, and with one more.
LEMMA Dequeued ==
    ASSUME queue \in Seq(Report), queue # <<>>, queue' = Tail(queue)
    PROVE  /\ queue' \in Seq(Report) /\ Head(queue) = queue[1] /\ queue[1] \in Report
           /\ Len(queue) \in Nat \ {0} /\ 1 \in 1 .. Len(queue)
           /\ \A j \in 1 .. Len(queue') : j + 1 \in 2 .. Len(queue) /\ queue'[j] = queue[j + 1]
  BY HeadTailProperties, EmptySeq, ElementOfSeq

\* What Write leaves in the queue.
LEMMA Enqueued ==
    ASSUME queue \in Seq(Report), NEW p \in Report, Write(p)
    PROVE  /\ queue' \in Seq(Report)
           /\ \A j \in 1 .. Len(queue') :
                \/ j \in 1 .. Len(queue) /\ queue'[j] = queue[j]
                \/ j = Len(queue) + 1 /\ queue'[j] = p
  <1>1. Len(queue) \in Nat
    BY LenProperties
  <1>2. CASE queue' = queue
    BY <1>1, <1>2
  <1>3. CASE queue' = Append(queue, p)
    BY <1>1, <1>3, AppendProperties
  <1> QED
    BY <1>2, <1>3 DEF Write

\* What a reply changes of the programs.
LEMMA Heard ==
    ASSUME client \in [Client -> Program], NEW r \in Answering, Hear(r)
    PROVE  /\ client' \in [Client -> Program]
           /\ \A c \in Client :
                /\ client'[c].chan = client[c].chan /\ client'[c].msg = client[c].msg
                /\ client'[c].sent = client[c].sent
                /\ client'[c].given = IF r.cid # 0 /\ Listens(c) = r.cid
                                      THEN Append(client[c].given, r) ELSE client[c].given
  <1>1. ASSUME NEW c \in Client
        PROVE  /\ client'[c] \in Program
               /\ client'[c].chan = client[c].chan /\ client'[c].msg = client[c].msg
               /\ client'[c].sent = client[c].sent
               /\ client'[c].given = IF r.cid # 0 /\ Listens(c) = r.cid
                                     THEN Append(client[c].given, r) ELSE client[c].given
    <2>1. client[c] \in Program /\ client[c].given \in Seq(Answering)
      BY DEF Program
    <2>2. Append(client[c].given, r) \in Seq(Answering)
      BY <2>1, AppendProperties
    <2>3. client'[c] = IF r.cid # 0 /\ Listens(c) = r.cid
                       THEN [client[c] EXCEPT !.given = Append(client[c].given, r)]
                       ELSE client[c]
      BY DEF Hear
    <2> QED
      BY <2>1, <2>2, <2>3 DEF Program
  <1>2. client' = [c \in Client |-> client'[c]]
    BY DEF Hear
  <1> QED
    BY <1>1, <1>2

\* The INITs to answer are messages, and finitely many.
LEMMA InitsFinite ==
    ASSUME KeyTypes
    PROVE  IsFiniteSet(Inits) /\ Inits \subseteq 1 .. count /\ Cardinality(Inits) \in Nat
  <1>1. Inits \subseteq 1 .. count
    <2>1. ASSUME NEW j \in 1 .. Len(queue), queue[j].kind = "init", queue[j].len = 1
          PROVE  queue[j].msg \in 1 .. count
      <3>1. Sound(queue[j]) /\ queue[j] \in Report /\ count \in Nat
        BY ElementOfSeq DEF KeyTypes
      <3> QED
        BY <2>1, <3>1 DEF Sound, Report
    <2>2. ASSUME NEW c \in Client, client[c].msg.kind = "init"
          PROVE  client[c].msg.id \in 1 .. count
      <3>1. Composed(client[c])
        BY DEF KeyTypes
      <3> QED
        BY <2>2, <3>1 DEF Composed, NoMsg
    <2> QED
      BY <2>1, <2>2 DEF Inits
  <1>2. IsFiniteSet(1 .. count)
    BY FS_Interval DEF KeyTypes
  <1> QED
    BY <1>1, <1>2, FS_Subset, FS_CardinalityType

\* Which INITs are to be answered, before a step and after it.
LEMMA InitMember ==
    \A x : x \in Inits
           <=> \/ \E j \in 1 .. Len(queue) :
                    queue[j].kind = "init" /\ queue[j].len = 1 /\ queue[j].msg = x
               \/ \E c \in Client : client[c].msg.kind = "init" /\ client[c].sent = 0
                                    /\ client[c].msg.id = x
  BY DEF Inits

\* The same, after a step.
LEMMA InitMemberNext ==
    \A x : x \in Inits'
           <=> \/ \E j \in 1 .. Len(queue') :
                    queue'[j].kind = "init" /\ queue'[j].len = 1 /\ queue'[j].msg = x
               \/ \E c \in Client : client'[c].msg.kind = "init" /\ client'[c].sent = 0
                                    /\ client'[c].msg.id = x
  BY DEF Inits

\* An empty transaction is none.
LEMMA IdleIsEmpty ==
    ASSUME NEW x \in Transaction, Len(x.parts) >= 1
    PROVE  x # Idle
  BY DEF Idle, Transaction

\* An idle channel is one of the table, and no message one of the messages.
LEMMA IdleType == Idle \in Transaction /\ NoMsg \in Msg
  <1>1. <<>> \in Seq(Nat \X (Nat \ {0}))
    BY EmptySeq
  <1> QED
    BY <1>1, Sizes DEF Idle, Transaction, NoMsg, Msg, Cid

----------------------------------------------------------------------------
\* What taking one report comes to.

\* The transaction on p's channel with p's fragment added.
Longer(p) ==
    [frames[p.cid] EXCEPT !.parts = Append(@, <<p.msg, p.index>>),
                          !.next = (@ + 1) % SeqMod]

\* A continuation of nothing is ignored.
Ignored(p, s) ==
    /\ s.step = "continue" /\ s.frames = frames
    /\ Continues(p) /\ frames[p.cid] = Idle
\* A report is refused and the table left as it is.
Refused(p, s) ==
    /\ s.step = "error" /\ s.frames = frames
    /\ p.cid \notin Channel \/ Opens(p)
\* A report ends the transaction it does not fit.
Abandoned(p, s) ==
    /\ s.step = "error" /\ s.frames = Clear(p.cid)
    /\ Continues(p) /\ frames[p.cid] # Idle
\* A report begins one.
Starts(p, s) ==
    /\ s.step = "continue" /\ s.frames = [frames EXCEPT ![p.cid] = Begun(p)]
    /\ p.cid \in Channel /\ Opens(p) /\ p.len >= 2 /\ frames[p.cid] = Idle
\* A report goes on with one.
Grows(p, s) ==
    /\ s.step = "continue" /\ s.frames = [frames EXCEPT ![p.cid] = Longer(p)]
    /\ Continues(p) /\ frames[p.cid] # Idle /\ p.seq = frames[p.cid].next
    /\ Len(Longer(p).parts) # frames[p.cid].len
\* A report completes one.
Completes(p, s) ==
    /\ s.step = "done" /\ s.frames = Clear(p.cid) /\ s.part = Longer(p)
    /\ Continues(p) /\ frames[p.cid] # Idle /\ p.seq = frames[p.cid].next
    /\ Len(Longer(p).parts) = frames[p.cid].len
\* A report is a message by itself.
Single(p, s) ==
    /\ s.step = "done" /\ s.frames = Clear(p.cid) /\ s.part = Begun(p)
    /\ p.seq = Start /\ p.len = 1
    /\ \/ p.kind \in {"init", "cancel", "short"}
       \/ p.cid \in Channel /\ Opens(p) /\ frames[p.cid] = Idle

\* Reassembler.push, its outcomes told apart.
PushOutcome(p, s) ==
    \/ Ignored(p, s) \/ Refused(p, s) \/ Abandoned(p, s) \/ Starts(p, s) \/ Grows(p, s)
    \/ Completes(p, s) \/ Single(p, s)

\* That is all that Reassembler.push does.
LEMMA Pushed ==
    ASSUME KeyTypes, NEW p \in Report, Sound(p), NEW s, s = Push(p)
    PROVE  PushOutcome(p, s)
  <1> USE DEF PushOutcome, Ignored, Refused, Abandoned, Starts, Grows, Completes, Single
  <1>1. /\ p.cid \in Cid /\ p.len \in Nat /\ p.index \in Nat \ {0} /\ Broadcast \in Nat
        /\ p.cid \in Channel \/ p.cid = 0 \/ p.cid = Broadcast
    BY Sizes DEF Report, Cid, Channel
  <1>2. frames[p.cid] # Idle => p.cid \in Channel
    BY <1>1 DEF KeyTypes
  <1>3. p.cid \in Opened <=> frames[p.cid] # Idle
    BY <1>1 DEF Opened
  <1>4. CASE p.cid = 0
    <2>1. s = Refuse(frames) /\ p.cid \notin Channel
      BY <1>4 DEF Push, Channel
    <2> QED
      BY <2>1 DEF Refuse, Effect
  <1>5. CASE p.cid # 0 /\ p.seq # Start
    <2>1. s = PushContinuation(p)
      BY <1>5 DEF Push
    <2>2. Longer(p).len = frames[p.cid].len
      BY <1>1 DEF Longer, KeyTypes, Transaction
    <2> QED
      BY <1>3, <1>5, <2>1, <2>2 DEF PushContinuation, Effect, Refuse, Longer, Continues
  <1>6. CASE p.cid # 0 /\ p.seq = Start
    <2>1. s = PushStart(p)
      BY <1>6 DEF Push
    <2>2. p.index = 1
      BY <1>1, <1>6 DEF Sound, Start
    <2>3. p.kind = "cancel" => p.len = 1
      BY <1>1 DEF Sound
    <2>4. IsInit(p.kind) => p.len = 1 \/ p.len > MaxLen
      BY <1>1, <1>6 DEF Sound, IsInit
    <2>5. ~IsInit(p.kind) /\ p.kind # "cancel" => Opens(p)
      BY <1>6 DEF IsInit, Opens
    <2>6. IsInit(p.kind) => p.kind \in {"init", "short"}
      BY DEF IsInit
    <2>7. IsInit(p.kind) /\ p.len > MaxLen => p.cid \notin Channel \/ Opens(p)
      BY <1>6, Sizes DEF Sound, IsInit, Opens
    <2>8. Broadcast \notin Channel
      BY Sizes DEF Channel
    <2>9. CASE p.kind = "cancel"
      BY <1>6, <2>1, <2>3, <2>9 DEF PushStart, Effect
    <2>10. CASE p.kind # "cancel" /\ (p.cid \in Opened /\ ~IsInit(p.kind))
      BY <2>1, <2>5, <2>10 DEF PushStart, Effect, Refuse
    <2>11. CASE p.kind # "cancel" /\ ~(p.cid \in Opened /\ ~IsInit(p.kind))
      <3>1. CASE p.len > MaxLen
        BY <2>1, <2>5, <2>7, <2>11, <3>1 DEF PushStart, Effect, Refuse
      <3>2. CASE ~(p.len > MaxLen) /\ (p.cid = Broadcast /\ ~IsInit(p.kind))
        BY <2>1, <2>8, <2>11, <3>2 DEF PushStart, Effect, Refuse
      <3>3. CASE ~(p.len > MaxLen) /\ ~(p.cid = Broadcast /\ ~IsInit(p.kind))
        <4>1. CASE p.len = 1
          <5>1. s = Effect("done", Clear(p.cid), Begun(p))
            BY <2>1, <2>11, <3>3, <4>1 DEF PushStart
          <5>2. \/ p.kind \in {"init", "cancel", "short"}
                \/ p.cid \in Channel /\ Opens(p) /\ frames[p.cid] = Idle
            BY <1>1, <1>3, <1>6, <2>5, <2>6, <2>11, <3>3
          <5> QED
            BY <1>6, <4>1, <5>1, <5>2 DEF Effect
        <4>2. CASE p.len # 1
          <5>1. ~IsInit(p.kind) /\ Opens(p) /\ p.cid \in Channel /\ frames[p.cid] = Idle
            BY <1>1, <1>3, <1>6, <2>4, <2>5, <2>11, <3>3, <4>2
          <5>2. p.len >= 2
            BY <1>1, <4>2, <5>1 DEF Sound
          <5>3. \/ s = Refuse(frames)
                \/ s = Effect("continue", [frames EXCEPT ![p.cid] = Begun(p)], Idle)
            BY <2>1, <2>11, <3>3, <4>2, SMTT(30) DEF PushStart
          <5> QED
            BY <5>1, <5>2, <5>3 DEF Effect, Refuse
        <4> QED
          BY <4>1, <4>2
      <3> QED
        BY <3>1, <3>2, <3>3
    <2> QED
      BY <2>9, <2>10, <2>11
  <1> QED
    BY <1>4, <1>5, <1>6

\* A fragment that fits goes to its own place, whole messages on well-used channels
\* are whole.
LEMMA Fitting ==
    ASSUME KeyTypes, NEW p \in Report, Sound(p), Continues(p), frames[p.cid] # Idle,
           p.seq = frames[p.cid].next
    PROVE  LET x == frames[p.cid] y == Longer(p) IN
           /\ y \in Transaction /\ y.msg = x.msg /\ y.kind = x.kind /\ y.len = x.len
           /\ p.index = Len(x.parts) + 1 /\ Len(y.parts) = Len(x.parts) + 1
           /\ y.parts[Len(x.parts) + 1] = <<p.msg, p.index>>
           /\ \A k \in 1 .. Len(x.parts) : y.parts[k] = x.parts[k]
           /\ \A k \in 1 .. Len(y.parts) : y.parts[k][2] = k
           /\ Len(x.parts) \in Nat \ {0} /\ Len(x.parts) <= x.len - 1 /\ x.len \in Nat
           /\ Len(y.parts) # y.len => Partial(y)
           /\ p.cid \in Channel
  <1>1. PICK x \in Transaction : x = frames[p.cid] /\ Partial(x) /\ p.cid \in Channel
    BY DEF KeyTypes, Report
  <1>2. PICK n \in Nat \ {0} : n = Len(x.parts) /\ n <= x.len - 1 /\ x.len <= MaxLen
                               /\ x.next = n - 1 /\ x.len \in Nat
    BY <1>1, LenProperties DEF Partial, Transaction
  <1>3. p.index \in Nat \ {0} /\ p.index # 1 /\ p.seq = p.index - 2
    BY DEF Report, Sound, Continues
  <1>4. p.index = n + 1
    BY <1>1, <1>2, <1>3, SMTT(30)
  <1>5. PICK y : y = Longer(p)
    OBVIOUS
  <1>6. x.parts \in Seq(Nat \X (Nat \ {0})) /\ <<p.msg, p.index>> \in Nat \X (Nat \ {0})
    BY <1>1, <1>3 DEF Transaction, Report
  <1>7. y.parts = Append(x.parts, <<p.msg, p.index>>) /\ y.msg = x.msg /\ y.kind = x.kind
        /\ y.len = x.len /\ y.next = (x.next + 1) % SeqMod
    BY <1>1, <1>5 DEF Longer, Transaction
  <1>8. /\ Len(y.parts) = n + 1 /\ y.parts[n + 1] = <<p.msg, p.index>>
        /\ \A k \in 1 .. n : y.parts[k] = x.parts[k]
        /\ y.parts \in Seq(Nat \X (Nat \ {0}))
    BY <1>2, <1>6, <1>7, AppendProperties, SMTT(30)
  <1>9. (x.next + 1) % SeqMod \in Nat
    <2>1. x.next + 1 = n /\ n \in Nat
      BY <1>2, SMTT(30)
    <2> QED
      BY <2>1, SmallModulo
  <1>10. y \in Transaction
    BY <1>1, <1>5, <1>7, <1>8, <1>9 DEF Longer, Transaction
  <1>11. \A k \in 1 .. n + 1 : y.parts[k][2] = k
    <2>1. \A k \in 1 .. n : y.parts[k][2] = k
      BY <1>1, <1>2, <1>8 DEF Partial
    <2>2. y.parts[n + 1][2] = n + 1
      BY <1>4, <1>8
    <2> QED
      BY <1>2, <2>1, <2>2
  <1>12. ASSUME Len(y.parts) # y.len PROVE Partial(y)
    <2>1. n + 1 <= x.len - 1
      BY <1>2, <1>7, <1>8, <1>12, SMTT(30)
    <2>2. n \in 0 .. SeqMod - 1
      BY <1>2, <2>1, Sizes
    <2>3. y.next = n
      <3>1. x.next + 1 = n
        BY <1>2
      <3> QED
        BY <1>7, <2>2, <3>1, SmallModulo
    <2>4. Len(y.parts) \in 1 .. y.len - 1 /\ y.len <= MaxLen /\ y.next = Len(y.parts) - 1
      BY <1>2, <1>7, <1>8, <2>1, <2>3
    <2>5. \A k \in 1 .. Len(y.parts) : y.parts[k][2] = k
      BY <1>8, <1>11
    <2>6. y.kind \notin {"none", "cancel", "init", "short"} /\ y.msg \in 1 .. count
      BY <1>1, <1>7 DEF Partial
    <2> QED
      BY <2>4, <2>5, <2>6 DEF Partial
  <1> QED
    BY <1>1, <1>2, <1>4, <1>5, <1>7, <1>8, <1>10, <1>11, <1>12

\* The report is taken and nothing said: ignored, a CANCEL, a beginning or one more
\* fragment; y is what the table then holds for its channel.
Silent(p, y) ==
    /\ UNCHANGED <<at, cur, nextCid, client>>
    /\ \/ y = frames[p.cid] /\ Continues(p) /\ frames[p.cid] = Idle
       \/ y = Idle /\ p.kind = "cancel" /\ p.seq = Start
       \/ y = Begun(p) /\ Opens(p) /\ p.cid \in Channel /\ p.len >= 2 /\ frames[p.cid] = Idle
       \/ /\ y = Longer(p) /\ Continues(p) /\ frames[p.cid] # Idle
          /\ p.seq = frames[p.cid].next /\ Len(y.parts) # frames[p.cid].len

\* ... or something is said on its channel: an error, an answer, or a new channel.
Replied(p, y, r) ==
    /\ UNCHANGED <<at, cur>>
    /\ r \in Answering /\ r.cid = p.cid /\ r.of <= count /\ Hear(r)
    /\ \/ /\ r.kind # "init" /\ nextCid' = nextCid
          /\ \/ p.cid \notin Channel /\ y \in {frames[p.cid], Idle}
             \/ p.cid \in Channel /\ Opens(p) /\ r.of = p.msg /\ y = frames[p.cid]
             \/ /\ p.cid \in Channel /\ Continues(p) /\ frames[p.cid] # Idle /\ y = Idle
                /\ r.of \in {p.msg, frames[p.cid].msg}
       \/ /\ p.kind = "init" /\ p.len = 1 /\ p.seq = Start /\ y = Idle
          /\ r.kind = "init" /\ r.of = p.msg
          /\ nextCid' = Allocate(nextCid) /\ r.new = nextCid'

\* ... or a ceremony is to be held.
Asked(p, y) ==
    /\ UNCHANGED <<client, nextCid>>
    /\ at' \in {"begin", "list"} /\ p.cid \in Channel /\ y = Idle
    /\ cur' \in Msg /\ cur'.cid = p.cid /\ cur'.id \in 1 .. count
    /\ \/ Opens(p) /\ frames[p.cid] = Idle /\ cur'.id = p.msg
       \/ Continues(p) /\ frames[p.cid] # Idle /\ cur'.id = frames[p.cid].msg

\* A message handed on is whole, but for the channels used on.
TornFits(i) ==
    \/ torn' = torn
    \/ i \in reused /\ torn' = torn \cup {[cid |-> i, inPlace |-> TRUE]}

\* What the key replies is an answer.
LEMMA ReplyType ==
    ASSUME NEW i \in Cid, NEW m \in Nat, NEW k \in {"error", "answer", "init"}
    PROVE  /\ Reply(i, k, m) \in Answering /\ Reply(i, k, m).cid = i
           /\ Reply(i, k, m).kind = k /\ Reply(i, k, m).of = m
           /\ \A n \in Nat : /\ [Reply(i, k, m) EXCEPT !.new = n] \in Answering
                             /\ [Reply(i, k, m) EXCEPT !.new = n].cid = i
                             /\ [Reply(i, k, m) EXCEPT !.new = n].kind = k
                             /\ [Reply(i, k, m) EXCEPT !.new = n].of = m
                             /\ [Reply(i, k, m) EXCEPT !.new = n].new = n
  BY DEF Reply, Answering

\* The next channel is a program's (hid.rs: allocate).
LEMMA AllocateType == \A i \in Channel : Allocate(i) \in Channel
  BY Sizes DEF Allocate, Channel

\* What a first report begins (hid.rs: push).
LEMMA BegunType ==
    ASSUME NEW p \in Report, Sound(p)
    PROVE  /\ Begun(p) \in Transaction /\ Begun(p).msg = p.msg /\ Begun(p).kind = p.kind
           /\ Begun(p).len = p.len /\ Begun(p).parts = <<<<p.msg, 1>>>>
           /\ Len(Begun(p).parts) = 1 /\ Begun(p).parts[1] = <<p.msg, 1>>
           /\ Begun(p).next = 0
  <1>1. <<p.msg, 1>> \in Nat \X (Nat \ {0})
    BY DEF Report
  <1>2. <<<<p.msg, 1>>>> \in Seq(Nat \X (Nat \ {0}))
    BY <1>1
  <1>3. p.kind \in Kind \cup {"none", "cancel", "short"} /\ p.msg \in Nat /\ p.len \in Nat
    BY DEF Report
  <1> QED
    BY <1>2, <1>3 DEF Begun, Transaction

\* A message handed on fits its channel.
LEMMA HandedOn ==
    ASSUME WireInv, NEW p \in Report, p = queue[1], 1 \in 1 .. Len(queue), Sound(p), NEW y,
           torn' = IF Whole(y) THEN torn ELSE torn \cup {[cid |-> p.cid, inPlace |-> InPlace(y)]},
           \/ y = Begun(p) /\ p.len = 1
           \/ /\ y = Longer(p) /\ Continues(p) /\ frames[p.cid] # Idle
              /\ p.seq = frames[p.cid].next /\ Len(y.parts) = frames[p.cid].len
    PROVE  TornFits(p.cid)
  <1>1. CASE y = Begun(p) /\ p.len = 1
    <2>1. y.parts = [i \in 1 .. y.len |-> <<y.msg, i>>]
      BY <1>1, BegunType
    <2> QED
      BY <2>1 DEF TornFits, Whole
  <1>2. CASE /\ y = Longer(p) /\ Continues(p) /\ frames[p.cid] # Idle
             /\ p.seq = frames[p.cid].next /\ Len(y.parts) = frames[p.cid].len
    <2> DEFINE x == frames[p.cid]
    <2>1. /\ y \in Transaction /\ y.msg = x.msg /\ y.kind = x.kind /\ y.len = x.len
          /\ p.index = Len(x.parts) + 1 /\ Len(y.parts) = Len(x.parts) + 1
          /\ y.parts[Len(x.parts) + 1] = <<p.msg, p.index>>
          /\ \A k \in 1 .. Len(x.parts) : y.parts[k] = x.parts[k]
          /\ \A k \in 1 .. Len(y.parts) : y.parts[k][2] = k
          /\ Len(x.parts) \in Nat \ {0} /\ x.len \in Nat
          /\ p.cid \in Channel
      BY <1>2, Fitting DEF WireInv
    <2>2. InPlace(y)
      BY <1>2, <2>1 DEF InPlace
    <2>3. ASSUME p.cid \notin reused PROVE Whole(y)
      <3>1. Wire(p.cid)
        BY <2>1, <2>3 DEF WireInv
      <3>2. p.msg = x.msg /\ \A k \in 1 .. Len(x.parts) : x.parts[k] = <<x.msg, k>>
        BY <1>2, <3>1 DEF Wire
      <3>3. \A k \in 1 .. Len(y.parts) : y.parts[k] = <<y.msg, k>>
        <4>1. PICK n \in Nat : n = Len(x.parts)
          BY <2>1, SMTT(30)
        <4>2. y.parts[n + 1] = <<y.msg, n + 1>>
          BY <2>1, <3>2, <4>1, ZenonT(60)
        <4>3. \A k \in 1 .. n : y.parts[k] = <<y.msg, k>>
          BY <2>1, <3>2, <4>1
        <4>4. Len(y.parts) = n + 1
          BY <2>1, <4>1
        <4>5. ASSUME NEW k \in 1 .. n + 1 PROVE y.parts[k] = <<y.msg, k>>
          <5>1. CASE k = n + 1
            BY <4>2, <5>1
          <5>2. CASE k # n + 1
            <6>1. k \in 1 .. n
              BY <4>1, <5>2, SMTT(30)
            <6> QED
              BY <4>3, <6>1
          <5> QED
            BY <5>1, <5>2
        <4> QED
          BY <4>4, <4>5, SMTT(30)
      <3>4. y.parts = [k \in 1 .. Len(y.parts) |-> y.parts[k]]
        BY <2>1, LenProperties DEF Transaction
      <3>5. Len(y.parts) = y.len
        BY <1>2, <2>1
      <3>6. y.parts = [k \in 1 .. y.len |-> <<y.msg, k>>]
        BY <3>3, <3>4, <3>5
      <3> QED
        BY <3>6, SMTT(30) DEF Whole
    <2> QED
      BY <2>2, <2>3, SMTT(30) DEF TornFits
  <1> QED
    BY <1>1, <1>2

\* What one report does, whatever it is (hid.rs: push; uhid.rs: answer).
LEMMA Received ==
    ASSUME WireInv, Recv
    PROVE  /\ queue # <<>> /\ queue' = Tail(queue) /\ at = "recv"
           /\ UNCHANGED <<count, reused, misread>>
           /\ \E y \in Transaction :
                /\ frames' = [frames EXCEPT ![queue[1].cid] = y]
                /\ \/ Silent(queue[1], y)
                   \/ \E r \in Answering : Replied(queue[1], y, r)
                   \/ Asked(queue[1], y)
           /\ TornFits(queue[1].cid)
  <1>1. queue # <<>> /\ queue' = Tail(queue) /\ at = "recv" /\ UNCHANGED <<count, reused, misread>>
    BY DEF Recv, pastVars
  <1>2. KeyTypes
    BY DEF WireInv
  <1>3. PICK p \in Report : /\ p = Head(queue) /\ p = queue[1] /\ Sound(p) /\ 1 \in 1 .. Len(queue)
    BY <1>1, <1>2, Dequeued DEF KeyTypes
  <1>4. PICK s : s = Push(p)
    OBVIOUS
  <1>5. /\ frames' = s.frames
        /\ torn' = IF s.step # "done" \/ Whole(s.part) THEN torn
                   ELSE torn \cup {[cid |-> p.cid, inPlace |-> InPlace(s.part)]}
        /\ \/ /\ s.step = "continue" \/ (s.step = "done" /\ s.part.kind = "cancel")
              /\ UNCHANGED <<threadVars, nextCid, client>>
           \/ /\ s.step = "error" \/ (s.step = "done" /\ s.part.kind = "short")
              /\ Hear(Reply(p.cid, "error", p.msg))
              /\ UNCHANGED <<threadVars, nextCid>>
           \/ /\ s.step = "done" /\ s.part.kind = "init"
              /\ nextCid' = Allocate(nextCid)
              /\ Hear([Reply(p.cid, "init", s.part.msg) EXCEPT !.new = nextCid'])
              /\ UNCHANGED threadVars
           \/ /\ s.step = "done" /\ s.part.kind = "now"
              /\ Hear(Reply(p.cid, "answer", s.part.msg))
              /\ UNCHANGED <<threadVars, nextCid>>
           \/ /\ s.step = "done" /\ s.part.kind \in Ceremony
              /\ at' \in {"begin", "list"}
              /\ cur' = [id |-> s.part.msg, cid |-> p.cid, kind |-> s.part.kind,
                         len |-> s.part.len]
              /\ UNCHANGED <<nextCid, client>>
    BY <1>3, <1>4 DEF Recv
  <1>6. /\ p.cid \in Cid /\ p.msg \in Nat /\ p.msg <= count /\ p.len \in Nat
        /\ p.kind \in Kind \cup {"cancel", "short"}
    BY <1>3 DEF Report, Sound
  <1>7. frames[p.cid] \in Transaction /\ Idle \in Transaction
    BY <1>2, <1>6, IdleType DEF KeyTypes
  <1>8. frames' = frames => frames' = [frames EXCEPT ![p.cid] = frames[p.cid]]
    BY <1>2, <1>6 DEF KeyTypes
  <1>9. Clear(p.cid) = [frames EXCEPT ![p.cid] = Idle]
    BY DEF Clear
  <1>10. /\ Reply(p.cid, "error", p.msg) \in Answering
         /\ Reply(p.cid, "error", p.msg).cid = p.cid
         /\ Reply(p.cid, "error", p.msg).kind = "error"
         /\ Reply(p.cid, "error", p.msg).of = p.msg
    BY <1>6, ReplyType
  <1> USE DEF Ignored, Refused, Abandoned, Starts, Grows, Completes, Single
  <1>11. CASE Ignored(p, s)
    <2>1. Silent(p, frames[p.cid]) /\ torn' = torn
      BY <1>5, <1>11 DEF Silent, threadVars
    <2> QED
      BY <1>1, <1>3, <1>5, <1>7, <1>8, <1>11, <2>1 DEF TornFits
  <1>12. CASE Refused(p, s)
    <2>1. Replied(p, frames[p.cid], Reply(p.cid, "error", p.msg)) /\ torn' = torn
      BY <1>5, <1>6, <1>10, <1>12 DEF Replied, threadVars
    <2> QED
      BY <1>1, <1>3, <1>5, <1>7, <1>8, <1>10, <1>12, <2>1 DEF TornFits
  <1>13. CASE Abandoned(p, s)
    <2>1. p.cid \in Channel
      BY <1>2, <1>6, <1>13 DEF KeyTypes
    <2>2. Replied(p, Idle, Reply(p.cid, "error", p.msg)) /\ torn' = torn
      BY <1>5, <1>6, <1>10, <1>13, <2>1 DEF Replied, threadVars
    <2> QED
      BY <1>1, <1>3, <1>5, <1>7, <1>9, <1>10, <1>13, <2>2 DEF TornFits
  <1>14. CASE Starts(p, s)
    <2>1. Silent(p, Begun(p)) /\ torn' = torn
      BY <1>5, <1>14 DEF Silent, threadVars
    <2> QED
      BY <1>1, <1>3, <1>5, <1>14, <2>1, BegunType DEF TornFits
  <1>15. CASE Grows(p, s)
    <2>1. Silent(p, Longer(p)) /\ torn' = torn
      BY <1>5, <1>15 DEF Silent, threadVars
    <2>2. Longer(p) \in Transaction
      BY <1>2, <1>3, <1>15, Fitting
    <2> QED
      BY <1>1, <1>3, <1>5, <1>15, <2>1, <2>2 DEF TornFits
  <1>16. CASE Completes(p, s)
    <2>1. /\ s.part.msg = frames[p.cid].msg /\ s.part.kind = frames[p.cid].kind
          /\ s.part.len \in Nat /\ p.cid \in Channel
      BY <1>2, <1>3, <1>16, Fitting
    <2>2. s.part.kind \in {"now"} \cup Ceremony /\ s.part.msg \in 1 .. count
      BY <1>2, <1>6, <1>7, <1>16, <2>1 DEF KeyTypes, Partial, Transaction, Kind
    <2>3. TornFits(p.cid)
      BY <1>3, <1>5, <1>16, HandedOn
    <2>4. CASE s.part.kind = "now"
      <3>1. Hear(Reply(p.cid, "answer", s.part.msg)) /\ UNCHANGED <<threadVars, nextCid>>
        BY <1>5, <1>16, <2>4 DEF Ceremony
      <3>2. count \in Nat /\ s.part.msg \in Nat /\ s.part.msg <= count
        BY <1>2, <2>2 DEF KeyTypes
      <3>3. Replied(p, Idle, Reply(p.cid, "answer", s.part.msg))
        BY <1>6, <1>16, <2>1, <3>1, <3>2, ReplyType DEF Replied, threadVars
      <3>4. Reply(p.cid, "answer", s.part.msg) \in Answering
        BY <1>6, <3>2, ReplyType
      <3> QED
        BY <1>1, <1>3, <1>5, <1>7, <1>9, <1>16, <2>3, <3>3, <3>4
    <2>5. CASE s.part.kind \in Ceremony
      <3>1. /\ at' \in {"begin", "list"} /\ UNCHANGED <<nextCid, client>>
            /\ cur' = [id |-> s.part.msg, cid |-> p.cid, kind |-> s.part.kind,
                       len |-> s.part.len]
        BY <1>5, <1>16, <2>5 DEF Ceremony
      <3>2. cur' \in Msg /\ cur'.cid = p.cid /\ cur'.id = s.part.msg
        BY <1>2, <1>6, <2>1, <2>2, <2>5, <3>1 DEF Msg, Kind, KeyTypes
      <3>3. Asked(p, Idle)
        BY <1>16, <2>1, <2>2, <3>1, <3>2 DEF Asked
      <3> QED
        BY <1>1, <1>3, <1>5, <1>7, <1>9, <1>16, <2>3, <3>3
    <2> QED
      BY <2>2, <2>4, <2>5
  <1>17. CASE Single(p, s)
    <2>1. s.part.msg = p.msg /\ s.part.kind = p.kind /\ s.part.len = 1
      BY <1>3, <1>17, BegunType
    <2>2. TornFits(p.cid)
      BY <1>3, <1>5, <1>17, HandedOn
    <2>3. \E y \in {Idle} : \/ Silent(p, y)
                            \/ \E r \in Answering : Replied(p, y, r)
                            \/ Asked(p, y)
      <3>1. CASE p.kind = "cancel"
        <4>1. UNCHANGED <<threadVars, nextCid, client>>
          BY <1>5, <1>17, <2>1, <3>1 DEF Ceremony
        <4>2. Silent(p, Idle)
          BY <1>17, <3>1, <4>1 DEF Silent, threadVars
        <4> QED
          BY <4>2
      <3>2. CASE p.kind = "short"
        <4>1. p.cid \notin Channel
          BY <1>3, <3>2 DEF Sound
        <4>2. Hear(Reply(p.cid, "error", p.msg)) /\ UNCHANGED <<threadVars, nextCid>>
          BY <1>5, <1>17, <2>1, <3>2 DEF Ceremony
        <4>3. Replied(p, Idle, Reply(p.cid, "error", p.msg))
          BY <1>6, <1>10, <4>1, <4>2 DEF Replied, threadVars
        <4> QED
          BY <1>10, <4>3
      <3>3. CASE p.kind = "init"
        <4>1. /\ nextCid' = Allocate(nextCid) /\ UNCHANGED threadVars
              /\ Hear([Reply(p.cid, "init", p.msg) EXCEPT !.new = nextCid'])
          BY <1>5, <1>17, <2>1, <3>3 DEF Ceremony
        <4>2. nextCid' \in Nat
          BY <1>2, <4>1, AllocateType, Sizes DEF KeyTypes, Channel
        <4>3. PICK r : r = [Reply(p.cid, "init", p.msg) EXCEPT !.new = nextCid']
          OBVIOUS
        <4>4. r \in Answering /\ r.cid = p.cid /\ r.kind = "init" /\ r.of = p.msg /\ r.new = nextCid'
          BY <1>6, <4>2, <4>3, ReplyType
        <4>5. Replied(p, Idle, r)
          BY <1>6, <1>17, <3>3, <4>1, <4>3, <4>4 DEF Replied, threadVars
        <4> QED
          BY <4>4, <4>5
      <3>4. CASE p.kind \notin {"init", "cancel", "short"}
        <4>1. p.cid \in Channel /\ Opens(p) /\ frames[p.cid] = Idle /\ p.msg # 0
          BY <1>3, <1>17, <3>4 DEF Sound
        <4>2. p.kind \in {"now"} \cup Ceremony
          BY <1>6, <3>4 DEF Kind
        <4>3. CASE p.kind = "now"
          <5>1. Hear(Reply(p.cid, "answer", p.msg)) /\ UNCHANGED <<threadVars, nextCid>>
            BY <1>5, <1>17, <2>1, <4>3 DEF Ceremony
          <5>2. Replied(p, Idle, Reply(p.cid, "answer", p.msg))
            BY <1>6, <4>1, <5>1, ReplyType DEF Replied, threadVars
          <5>3. Reply(p.cid, "answer", p.msg) \in Answering
            BY <1>6, ReplyType
          <5> QED
            BY <5>2, <5>3
        <4>4. CASE p.kind \in Ceremony
          <5>1. /\ at' \in {"begin", "list"} /\ UNCHANGED <<nextCid, client>>
                /\ cur' = [id |-> p.msg, cid |-> p.cid, kind |-> p.kind, len |-> 1]
            BY <1>5, <1>17, <2>1, <4>4 DEF Ceremony
          <5>2. cur' \in Msg /\ cur'.cid = p.cid /\ cur'.id = p.msg
            BY <1>6, <4>4, <5>1 DEF Msg, Kind
          <5>3. p.msg \in 1 .. count
            BY <1>2, <1>6, <4>1 DEF KeyTypes
          <5>4. Asked(p, Idle)
            BY <4>1, <5>1, <5>2, <5>3 DEF Asked
          <5> QED
            BY <5>4
        <4> QED
          BY <4>2, <4>3, <4>4
      <3> QED
        BY <3>1, <3>2, <3>3, <3>4
    <2> QED
      BY <1>1, <1>3, <1>5, <1>7, <1>9, <1>17, <2>2, <2>3
  <1>18. PushOutcome(p, s)
    BY <1>2, <1>3, <1>4, Pushed
  <1> QED
    BY <1>11, <1>12, <1>13, <1>14, <1>15, <1>16, <1>17, <1>18 DEF PushOutcome

----------------------------------------------------------------------------
\* A report is taken.

\* Report p is taken from the queue, and y is what the table then holds for its channel.
Taken(p, y) ==
    /\ queue # <<>> /\ queue' = Tail(queue) /\ at = "recv"
    /\ p = queue[1] /\ p \in Report /\ Sound(p)
    /\ UNCHANGED <<count, reused, misread>>
    /\ y \in Transaction /\ frames' = [frames EXCEPT ![p.cid] = y]
    /\ Silent(p, y) \/ (\E r \in Answering : Replied(p, y, r)) \/ Asked(p, y)

\* Every report read is taken in one of these ways.
LEMMA TakenAt ==
    ASSUME WireInv, Recv
    PROVE  \E p \in Report, y \in Transaction : Taken(p, y) /\ TornFits(p.cid)
  <1>1. /\ queue # <<>> /\ queue' = Tail(queue) /\ at = "recv"
        /\ UNCHANGED <<count, reused, misread>>
        /\ TornFits(queue[1].cid)
    BY Received
  <1>2. PICK y \in Transaction :
           /\ frames' = [frames EXCEPT ![queue[1].cid] = y]
           /\ \/ Silent(queue[1], y)
              \/ \E r \in Answering : Replied(queue[1], y, r)
              \/ Asked(queue[1], y)
    BY Received
  <1>3. queue[1] \in Report /\ Sound(queue[1])
    BY <1>1, Dequeued DEF WireInv, KeyTypes
  <1>4. Taken(queue[1], y)
    BY <1>1, <1>2, <1>3 DEF Taken
  <1> QED
    BY <1>1, <1>3, <1>4

\* What is the same of a program, but for what it was told.
SameButTold(c) ==
    /\ client'[c].chan = client[c].chan /\ client'[c].msg = client[c].msg
    /\ client'[c].sent = client[c].sent

\* The reports on the wire, the table and the programs after a report was taken.
LEMMA TakenBasics ==
    ASSUME WireInv, NEW p, NEW y, Taken(p, y)
    PROVE  /\ queue' \in Seq(Report) /\ Len(queue) \in Nat /\ Len(queue') \in Nat
           /\ 1 \in 1 .. Len(queue)
           /\ \A j \in 1 .. Len(queue') : j + 1 \in 2 .. Len(queue) /\ queue'[j] = queue[j + 1]
           /\ p.cid \in Cid /\ frames'[p.cid] = y
           /\ \A i \in Cid \ {p.cid} : frames'[i] = frames[i]
           /\ client' \in [Client -> Program]
           /\ \A c \in Client : SameButTold(c)
           /\ cur = NoMsg
  <1>1. /\ queue' \in Seq(Report) /\ Len(queue) \in Nat /\ Len(queue') \in Nat
        /\ 1 \in 1 .. Len(queue)
        /\ \A j \in 1 .. Len(queue') : j + 1 \in 2 .. Len(queue) /\ queue'[j] = queue[j + 1]
    <2>1. queue \in Seq(Report) /\ queue # <<>> /\ queue' = Tail(queue)
      BY DEF WireInv, KeyTypes, Taken
    <2> QED
      BY <2>1, Dequeued, LenProperties
  <1>2. p.cid \in Cid
    BY DEF Taken, Report
  <1>3. frames'[p.cid] = y /\ \A i \in Cid \ {p.cid} : frames'[i] = frames[i]
    BY <1>2 DEF Taken, WireInv, KeyTypes
  <1>4. client' \in [Client -> Program] /\ \A c \in Client : SameButTold(c)
    <2>1. client \in [Client -> Program]
      BY DEF WireInv, KeyTypes
    <2>2. CASE client' = client
      BY <2>1, <2>2 DEF SameButTold
    <2>3. CASE \E r \in Answering : Hear(r)
      BY <2>1, <2>3, Heard DEF SameButTold
    <2> QED
      BY <2>2, <2>3 DEF Taken, Silent, Replied, Asked
  <1>5. cur = NoMsg
    BY DEF Taken, WireInv, KeyTypes
  <1> QED
    BY <1>1, <1>2, <1>3, <1>4, <1>5

\* What the table then holds is none, or a transaction begun or gone on with.
LEMMA TakenTable ==
    ASSUME WireInv, NEW p, NEW y, Taken(p, y), y # Idle
    PROVE  /\ p.cid \in Channel /\ Partial(y)
           /\ \/ frames[p.cid] # Idle /\ y = frames[p.cid] /\ Opens(p)
              \/ y = Begun(p) /\ Opens(p) /\ p.len >= 2 /\ frames[p.cid] = Idle
              \/ /\ y = Longer(p) /\ Continues(p) /\ frames[p.cid] # Idle
                 /\ p.seq = frames[p.cid].next
  <1>1. /\ p \in Report /\ Sound(p) /\ p.cid \in Cid /\ KeyTypes
    BY TakenBasics DEF Taken, WireInv
  <1>2. frames[p.cid] # Idle => p.cid \in Channel /\ Partial(frames[p.cid])
    BY <1>1 DEF KeyTypes
  <1>3. CASE y = Begun(p) /\ Opens(p) /\ p.cid \in Channel /\ p.len >= 2 /\ frames[p.cid] = Idle
    <2>1. /\ Begun(p).msg = p.msg /\ Begun(p).kind = p.kind
          /\ Begun(p).len = p.len /\ Len(Begun(p).parts) = 1 /\ Begun(p).parts[1] = <<p.msg, 1>>
          /\ Begun(p).next = 0
      BY <1>1, BegunType
    <2>2. p.kind \notin {"none", "cancel", "init", "short"} /\ p.msg \in 1 .. count
          /\ p.len \in 1 .. MaxLen
      BY <1>1, <1>3 DEF Sound, Opens, Report, Kind, Ceremony, KeyTypes
    <2>3. Partial(y)
      BY <1>3, <2>1, <2>2, Sizes DEF Partial
    <2> QED
      BY <1>3, <2>3
  <1>4. CASE /\ y = Longer(p) /\ Continues(p) /\ frames[p.cid] # Idle
             /\ p.seq = frames[p.cid].next /\ Len(y.parts) # frames[p.cid].len
    BY <1>1, <1>4, Fitting
  <1>5. CASE Silent(p, y)
    BY <1>3, <1>4, <1>5 DEF Silent
  <1>6. CASE \E r \in Answering : Replied(p, y, r)
    BY <1>2, <1>6 DEF Replied
  <1>7. CASE Asked(p, y)
    BY <1>7 DEF Asked
  <1> QED
    BY <1>5, <1>6, <1>7 DEF Taken

\* A report taken keeps the types.
LEMMA TakenTypes ==
    ASSUME WireInv, NEW p, NEW y, Taken(p, y)
    PROVE  KeyTypes'
  <1>1. KeyTypes
    BY DEF WireInv
  <1>2. queue' \in Seq(Report) /\ \A j \in 1 .. Len(queue') : Sound(queue[j])'
    <2>1. ASSUME NEW j \in 1 .. Len(queue') PROVE Sound(queue[j])'
      <3>1. Sound(queue[j + 1]) /\ queue'[j] = queue[j + 1] /\ count' = count
        BY <1>1, TakenBasics DEF KeyTypes, Taken
      <3> QED
        BY <3>1 DEF Sound
    <2> QED
      BY <2>1, TakenBasics
  <1>3. \A c \in Client : Composed(client[c])'
    <2>1. ASSUME NEW c \in Client PROVE Composed(client[c])'
      <3>1. Composed(client[c]) /\ SameButTold(c) /\ count' = count
        BY <1>1, TakenBasics DEF KeyTypes, Taken
      <3> QED
        BY <3>1 DEF Composed, SameButTold
    <2> QED
      BY <2>1
  <1>4. frames' \in [Cid -> Transaction]
    BY <1>1, TakenBasics DEF Taken, KeyTypes
  <1>5. ASSUME NEW i \in Cid, frames'[i] # Idle
        PROVE  i \in Channel /\ Partial(frames[i])'
    <2>1. i \in Channel /\ Partial(frames'[i])
      <3>1. CASE i = p.cid
        BY <1>5, <3>1, TakenBasics, TakenTable
      <3>2. CASE i # p.cid
        BY <1>1, <1>5, <3>2, TakenBasics DEF KeyTypes
      <3> QED
        BY <3>1, <3>2
    <2> QED
      BY <2>1 DEF Partial, Taken
  <1>6. nextCid' \in Channel
    BY <1>1, AllocateType DEF Taken, Silent, Replied, Asked, KeyTypes
  <1>7. /\ cur' \in Msg /\ at' \in {"recv", "list", "begin", "poll", "refuse", "gone"}
        /\ IF at' \in {"recv", "gone"} THEN cur' = NoMsg
           ELSE cur'.cid \in Channel /\ cur'.id \in 1 .. count
    <2>1. CASE UNCHANGED <<at, cur>>
      BY <1>1, <2>1 DEF KeyTypes
    <2>2. CASE Asked(p, y)
      BY <2>2 DEF Asked
    <2> QED
      BY <2>1, <2>2 DEF Taken, Silent, Replied
  <1> QED
    BY <1>1, <1>2, <1>3, <1>4, <1>5, <1>6, <1>7, TakenBasics DEF KeyTypes, Taken

\* The INITs not yet answered are as many or, if one was answered, one fewer.
LEMMA TakenInits ==
    ASSUME WireInv, NEW p, NEW y, Taken(p, y)
    PROVE  /\ Inits' \subseteq Inits
           /\ p.kind = "init" /\ p.len = 1 => p.msg \in Inits \ Inits'
  <1>1. KeyTypes /\ Numbers
    BY DEF WireInv
  <1>2. Inits' \subseteq Inits
    <2>1. ASSUME NEW x, NEW j \in 1 .. Len(queue'),
                 queue'[j].kind = "init" /\ queue'[j].len = 1 /\ queue'[j].msg = x
          PROVE  x \in Inits
      <3>1. j + 1 \in 1 .. Len(queue) /\ queue'[j] = queue[j + 1]
        BY TakenBasics
      <3> QED
        BY <2>1, <3>1, InitMember
    <2>2. ASSUME NEW x, NEW c \in Client,
                 client'[c].msg.kind = "init" /\ client'[c].sent = 0 /\ client'[c].msg.id = x
          PROVE  x \in Inits
      <3>1. SameButTold(c)
        BY TakenBasics
      <3> QED
        BY <2>2, <3>1, InitMember DEF SameButTold
    <2> QED
      BY <2>1, <2>2, InitMemberNext
  <1>3. ASSUME p.kind = "init", p.len = 1
        PROVE  p.msg \in Inits \ Inits'
    <2>1. p = queue[1] /\ 1 \in 1 .. Len(queue) /\ p \in Report
      BY TakenBasics DEF Taken
    <2>2. p.msg \in Inits
      BY <1>3, <2>1, InitMember
    <2>3. ASSUME NEW j \in 1 .. Len(queue'),
                 queue'[j].kind = "init" /\ queue'[j].len = 1 /\ queue'[j].msg = p.msg
          PROVE  FALSE
      <3>1. j + 1 \in 1 .. Len(queue) /\ queue'[j] = queue[j + 1] /\ j + 1 # 1
        BY TakenBasics
      <3> QED
        BY <1>1, <1>3, <2>1, <2>3, <3>1 DEF Numbers
    <2>4. ASSUME NEW c \in Client,
                 client'[c].msg.kind = "init" /\ client'[c].sent = 0
                 /\ client'[c].msg.id = p.msg
          PROVE  FALSE
      <3>1. /\ client[c].msg.kind = "init" /\ client[c].sent = 0
            /\ client[c].msg.id = queue[1].msg
        BY <2>1, <2>4, TakenBasics DEF SameButTold
      <3>2. client[c].msg # NoMsg
        BY <3>1 DEF NoMsg
      <3>3. queue[1].index <= 0
        BY <1>1, <2>1, <3>1, <3>2 DEF Numbers
      <3>4. queue[1].index \in Nat \ {0}
        BY <2>1 DEF Report
      <3> QED
        BY <3>3, <3>4
    <2> QED
      BY <2>2, <2>3, <2>4, InitMemberNext
  <1> QED
    BY <1>2, <1>3

\* While the channel numbers last, an INIT is answered with the one after the last.
LEMMA NextChannel ==
    ASSUME WireInv, Roomy, NEW p, NEW y, NEW r, Taken(p, y), Replied(p, y, r), r.kind = "init"
    PROVE  /\ Last \in Nat /\ nextCid' = Last + 1 /\ Last' = Last + 1
           /\ Last + 1 < Broadcast - Cardinality(Client)
           /\ Last' + Cardinality(Inits') <= count
  <1>1. KeyTypes /\ Numbers /\ nextCid \in Channel
    BY DEF WireInv, KeyTypes
  <1>2. /\ p.kind = "init" /\ p.len = 1 /\ nextCid' = Allocate(nextCid)
    BY DEF Replied
  <1>3. /\ IsFiniteSet(Inits) /\ Cardinality(Inits) \in Nat
        /\ IsFiniteSet(Inits \ {p.msg}) /\ Cardinality(Inits \ {p.msg}) = Cardinality(Inits) - 1
    BY <1>1, <1>2, TakenInits, InitsFinite, FS_RemoveElement
  <1>4. Inits' \subseteq Inits \ {p.msg}
    BY <1>2, TakenInits
  <1>5. Cardinality(Inits') <= Cardinality(Inits) - 1 /\ Cardinality(Inits') \in Nat
    BY <1>3, <1>4, FS_Subset, FS_CardinalityType
  <1>6. Last \in Nat /\ count \in Nat /\ count <= MaxMsg /\ Last + Cardinality(Inits) <= count
    BY <1>1, Sizes DEF Last, Numbers, Channel, KeyTypes
  <1>7. Last + 1 <= MaxMsg
    BY <1>3, <1>5, <1>6, Sizes
  <1>8. Last + 1 < Broadcast - Cardinality(Client) /\ Last + 1 < Broadcast - 1
    BY <1>6, <1>7, Sizes DEF Roomy
  <1>9. nextCid' = Last + 1
    BY <1>1, <1>2, <1>8, Sizes DEF Allocate, Last, Channel
  <1>10. Last' = Last + 1
    BY <1>6, <1>8, <1>9, Sizes DEF Last
  <1> QED
    BY <1>3, <1>5, <1>6, <1>8, <1>9, <1>10

\* The last channel number handed out, otherwise.
LEMMA SameChannel ==
    ASSUME WireInv, NEW p, NEW y, Taken(p, y), ~\E r \in Answering : Replied(p, y, r) /\ r.kind = "init"
    PROVE  nextCid' = nextCid /\ Last' = Last
  <1>1. nextCid' = nextCid
    BY DEF Taken, Silent, Replied, Asked
  <1> QED
    BY <1>1 DEF Last

\* A report taken keeps the messages apart.
LEMMA TakenNumbers ==
    ASSUME WireInv, Roomy, NEW p, NEW y, Taken(p, y)
    PROVE  Numbers'
  <1>1. KeyTypes /\ Numbers
    BY DEF WireInv
  <1>2. count' = count /\ count' <= MaxMsg
    BY <1>1 DEF Taken, Numbers
  <1>3. Last' + Cardinality(Inits') <= count'
    <2>1. CASE \E r \in Answering : Replied(p, y, r) /\ r.kind = "init"
      BY <1>2, <2>1, NextChannel
    <2>2. CASE ~\E r \in Answering : Replied(p, y, r) /\ r.kind = "init"
      <3>1. Cardinality(Inits') <= Cardinality(Inits) /\ Cardinality(Inits') \in Nat
            /\ Cardinality(Inits) \in Nat
        BY <1>1, InitsFinite, TakenInits, FS_Subset, FS_CardinalityType
      <3>2. Last' = Last /\ Last \in Nat /\ count \in Nat
        <4>1. Last' = Last
          BY <2>2, SameChannel
        <4>2. nextCid \in Channel /\ count \in Nat
          BY <1>1 DEF KeyTypes
        <4>3. Last \in Nat
          BY <4>2, Sizes DEF Last, Channel
        <4> QED
          BY <4>1, <4>2, <4>3
      <3> QED
        BY <1>1, <1>2, <3>1, <3>2 DEF Numbers
    <2> QED
      BY <2>1, <2>2
  <1>4. \A c \in Client : SameButTold(c)
    BY TakenBasics
  <1>5. \A j \in 1 .. Len(queue') : j + 1 \in 1 .. Len(queue) /\ queue'[j] = queue[j + 1]
    BY TakenBasics
  <1>6. \A c, d \in Client : c # d /\ client'[c].msg # NoMsg => client'[c].msg.id # client'[d].msg.id
    BY <1>1, <1>4 DEF Numbers, SameButTold
  <1>7. ASSUME NEW c \in Client, NEW j \in 1 .. Len(queue'), client'[c].msg # NoMsg,
               queue'[j].msg = client'[c].msg.id
        PROVE  queue'[j].index <= client'[c].sent
    BY <1>1, <1>4, <1>5, <1>7 DEF Numbers, SameButTold
  <1>8. ASSUME NEW j \in 1 .. Len(queue'), NEW k \in 1 .. Len(queue'),
               j # k /\ queue'[j].kind = "init" /\ queue'[k].kind = "init",
               queue'[j].len = 1 /\ queue'[k].len = 1
        PROVE  queue'[j].msg # queue'[k].msg
    <2>1. j + 1 # k + 1
      BY <1>8
    <2> QED
      BY <1>1, <1>5, <1>8, <2>1, SMTT(30) DEF Numbers
  <1> QED
    BY <1>2, <1>3, <1>6, <1>7, <1>8 DEF Numbers

\* What a program was told stays, and what it is told now is for its channel.
LEMMA TakenGiven ==
    ASSUME WireInv, NEW p, NEW y, Taken(p, y), NEW c \in Client
    PROVE  /\ client[c].given \in Seq(Answering) /\ Len(client[c].given) \in Nat
           /\ \/ client'[c].given = client[c].given
              \/ \E r \in Answering :
                   /\ Replied(p, y, r) /\ r.cid = Listens(c) /\ r.cid # 0
                   /\ client'[c].given = Append(client[c].given, r)
                   /\ Len(client'[c].given) = Len(client[c].given) + 1
                   /\ client'[c].given[Len(client[c].given) + 1] = r
                   /\ \A k \in 1 .. Len(client[c].given) :
                        client'[c].given[k] = client[c].given[k]
  <1>1. client \in [Client -> Program]
    BY DEF WireInv, KeyTypes
  <1>2. client[c].given \in Seq(Answering) /\ Len(client[c].given) \in Nat
    BY <1>1, LenProperties DEF Program
  <1>3. CASE client' = client
    BY <1>2, <1>3
  <1>4. ASSUME NEW r \in Answering, Replied(p, y, r)
        PROVE  \/ client'[c].given = client[c].given
               \/ /\ r.cid = Listens(c) /\ r.cid # 0
                  /\ client'[c].given = Append(client[c].given, r)
    <2>1. Hear(r)
      BY <1>4 DEF Replied
    <2> QED
      BY <1>1, <2>1, Heard
  <1>5. ASSUME NEW r \in Answering, client'[c].given = Append(client[c].given, r)
        PROVE  /\ Len(client'[c].given) = Len(client[c].given) + 1
               /\ client'[c].given[Len(client[c].given) + 1] = r
               /\ \A k \in 1 .. Len(client[c].given) : client'[c].given[k] = client[c].given[k]
    BY <1>2, <1>5, AppendProperties
  <1>6. CASE \E r \in Answering : Replied(p, y, r)
    <2>1. PICK r \in Answering : Replied(p, y, r)
      BY <1>6
    <2>2. CASE client'[c].given = client[c].given
      BY <1>2, <2>2
    <2>3. CASE /\ r.cid = Listens(c) /\ r.cid # 0
               /\ client'[c].given = Append(client[c].given, r)
      BY <1>2, <1>5, <2>1, <2>3
    <2> QED
      BY <1>4, <2>1, <2>2, <2>3
  <1> QED
    BY <1>3, <1>6 DEF Taken, Silent, Asked

\* An answer a program holds is an older one, or the one just given; and of an INIT's
\* it is the next channel.
LEMMA TakenAnswers ==
    ASSUME WireInv, Roomy, NEW p, NEW y, Taken(p, y), NEW c \in Client,
           NEW k \in 1 .. Len(client'[c].given)
    PROVE  LET r == client'[c].given[k] IN
           \/ k \in 1 .. Len(client[c].given) /\ r = client[c].given[k]
           \/ /\ r \in Answering /\ r.cid = Listens(c) /\ r.cid # 0 /\ r.of <= count
              /\ r.kind = "init" => r.new = Last + 1 /\ r.of = p.msg /\ Last' = Last + 1
  <1>1. /\ client[c].given \in Seq(Answering) /\ Len(client[c].given) \in Nat
        /\ \/ client'[c].given = client[c].given
           \/ \E r \in Answering :
                /\ Replied(p, y, r) /\ r.cid = Listens(c) /\ r.cid # 0
                /\ Len(client'[c].given) = Len(client[c].given) + 1
                /\ client'[c].given[Len(client[c].given) + 1] = r
                /\ \A l \in 1 .. Len(client[c].given) :
                     client'[c].given[l] = client[c].given[l]
    BY TakenGiven
  <1>2. CASE client'[c].given = client[c].given
    BY <1>2
  <1>3. ASSUME NEW r \in Answering,
               /\ Replied(p, y, r) /\ r.cid = Listens(c) /\ r.cid # 0
               /\ Len(client'[c].given) = Len(client[c].given) + 1
               /\ client'[c].given[Len(client[c].given) + 1] = r
               /\ \A l \in 1 .. Len(client[c].given) :
                    client'[c].given[l] = client[c].given[l]
        PROVE  \/ k \in 1 .. Len(client[c].given) /\ client'[c].given[k] = client[c].given[k]
               \/ /\ client'[c].given[k] = r
                  /\ r.cid = Listens(c) /\ r.cid # 0 /\ r.of <= count
                  /\ r.kind = "init" => r.new = Last + 1 /\ r.of = p.msg /\ Last' = Last + 1
    <2>1. CASE k \in 1 .. Len(client[c].given)
      BY <1>3, <2>1
    <2>2. CASE k \notin 1 .. Len(client[c].given)
      <3>1. k = Len(client[c].given) + 1
        BY <1>1, <1>3, <2>2
      <3>2. r.of <= count
        BY <1>3 DEF Replied
      <3>3. r.kind = "init" => r.new = nextCid' /\ r.of = p.msg
        BY <1>3 DEF Replied
      <3>4. r.kind = "init" => nextCid' = Last + 1 /\ Last' = Last + 1
        BY <1>3, NextChannel
      <3> QED
        BY <1>3, <3>1, <3>2, <3>3, <3>4
    <2> QED
      BY <2>1, <2>2
  <1> QED
    BY <1>1, <1>2, <1>3

\* Last' is Last or the next.
LEMMA LastGrows ==
    ASSUME WireInv, Roomy, NEW p, NEW y, Taken(p, y)
    PROVE  /\ Last \in Nat /\ Last' \in Nat
           /\ Last' = Last \/ (Last' = Last + 1 /\ Last + 1 < Broadcast - Cardinality(Client))
  <1>1. nextCid \in Channel
    BY DEF WireInv, KeyTypes
  <1>2. Last \in Nat
    BY <1>1, Sizes DEF Last, Channel
  <1>3. CASE \E r \in Answering : Replied(p, y, r) /\ r.kind = "init"
    BY <1>2, <1>3, NextChannel
  <1>4. CASE ~\E r \in Answering : Replied(p, y, r) /\ r.kind = "init"
    <2>1. Last' = Last
      BY <1>4, SameChannel
    <2> QED
      BY <1>2, <2>1
  <1> QED
    BY <1>3, <1>4

\* No channel becomes unused by taking a report.
LEMMA TakenUnused ==
    ASSUME WireInv, Roomy, NEW p, NEW y, Taken(p, y), NEW i \in Channel, Unused(i)'
    PROVE  Unused(i)
  <1>1. i \in Nat /\ Broadcast \in Nat /\ Cardinality(Client) \in Nat
    BY Sizes DEF Channel
  <1>2. CASE Last' < i /\ i < Broadcast - Cardinality(Client)
    <2>1. Last < i
      BY <1>1, <1>2, LastGrows
    <2> QED
      BY <1>2, <2>1 DEF Unused
  <1>3. ASSUME NEW c \in Client, NEW k \in 1 .. Len(client'[c].given),
               client'[c].msg # NoMsg, client'[c].given[k].kind = "init",
               client'[c].given[k].of = client'[c].msg.id, client'[c].given[k].new = i
        PROVE  Unused(i)
    <2>1. client'[c].msg = client[c].msg
      BY TakenBasics DEF SameButTold
    <2>2. CASE k \in 1 .. Len(client[c].given) /\ client'[c].given[k] = client[c].given[k]
      BY <1>3, <2>1, <2>2 DEF Unused, Promised
    <2>3. CASE i = Last + 1 /\ Last' = Last + 1
      <3>1. Last < i /\ i < Broadcast - Cardinality(Client)
        BY <1>1, <2>3, LastGrows
      <3> QED
        BY <3>1 DEF Unused
    <2> QED
      BY <1>3, <2>2, <2>3, TakenAnswers
  <1> QED
    BY <1>2, <1>3 DEF Unused, Promised

\* A channel nobody used is not used by taking a report.
LEMMA TakenUnheard ==
    ASSUME WireInv, NEW p, NEW y, Taken(p, y), NEW i \in Channel, Unheard(i)
    PROVE  Unheard(i)'
  <1>1. i # p.cid /\ i \in Cid /\ i # 0
    BY TakenBasics, Sizes DEF Taken, Unheard, Channel, Cid
  <1>2. frames'[i] = frames[i] /\ reused' = reused
    BY <1>1, TakenBasics DEF Taken
  <1>3. cur'.cid # i
    BY <1>1 DEF Taken, Silent, Replied, Asked, Unheard
  <1>4. \A c \in Client : client'[c].chan # i
    BY TakenBasics DEF SameButTold, Unheard
  <1>5. \A j \in 1 .. Len(queue') : queue'[j].cid # i
    <2>1. \A j \in 1 .. Len(queue') : j + 1 \in 1 .. Len(queue) /\ queue'[j] = queue[j + 1]
      BY TakenBasics
    <2> QED
      BY <2>1 DEF Unheard
  <1> QED
    BY <1>2, <1>3, <1>4, <1>5 DEF Unheard

\* A report taken keeps the channels apart.
LEMMA TakenChannels ==
    ASSUME WireInv, Roomy, NEW p, NEW y, Taken(p, y)
    PROVE  Channels'
  <1>1. Channels /\ KeyTypes
    BY DEF WireInv
  <1>2. \A c, d \in Client : c # d /\ client'[c].chan # 0 => client'[c].chan # client'[d].chan
    BY <1>1, TakenBasics DEF Channels, SameButTold
  <1>3. \A i \in Channel : Unused(i)' => Unheard(i)'
    BY <1>1, TakenUnused, TakenUnheard DEF Channels
  <1>4. ASSUME NEW c \in Client, NEW k \in 1 .. Len(client'[c].given)
        PROVE  LET r == client'[c].given[k] IN
               /\ r.cid = Listens(c)' /\ r.cid # 0 /\ r.of <= count'
               /\ r.kind = "init" =>
                    /\ r.new \in 1 .. Last'
                    /\ \A d \in Client : \A l \in 1 .. Len(client'[d].given) :
                         client'[d].given[l].kind = "init" /\ client'[d].given[l].new = r.new
                         => client'[d].given[l].of = r.of
    <2>1. Listens(c)' = Listens(c)
      BY TakenBasics DEF Listens, SameButTold
    <2>2. count' = count
      BY DEF Taken
    <2>3. PICK r : r = client'[c].given[k]
      OBVIOUS
    <2>4. ASSUME NEW d \in Client, NEW l \in 1 .. Len(client[d].given)
          PROVE  /\ client[d].given[l].cid = Listens(d) /\ client[d].given[l].cid # 0
                 /\ client[d].given[l].of <= count
                 /\ client[d].given[l].kind = "init" => client[d].given[l].new \in 1 .. Last
      BY <1>1 DEF Channels
    <2>5. r.cid = Listens(c) /\ r.cid # 0 /\ r.of <= count
      BY <2>3, <2>4, TakenAnswers
    <2>6. r.kind = "init" => r.new \in 1 .. Last'
      <3>1. CASE k \in 1 .. Len(client[c].given) /\ r = client[c].given[k]
        BY <2>4, <3>1, LastGrows
      <3>2. CASE r.kind = "init" => r.new = Last + 1 /\ Last' = Last + 1
        BY <3>2, LastGrows
      <3> QED
        BY <2>3, <3>1, <3>2, TakenAnswers
    <2>7. ASSUME NEW d \in Client, NEW l \in 1 .. Len(client'[d].given), r.kind = "init",
                 client'[d].given[l].kind = "init", client'[d].given[l].new = r.new
          PROVE  client'[d].given[l].of = r.of
      <3>1. PICK q : q = client'[d].given[l]
        OBVIOUS
      <3>2. \/ k \in 1 .. Len(client[c].given) /\ r = client[c].given[k]
            \/ r.new = Last + 1 /\ r.of = p.msg
        BY <2>3, <2>7, TakenAnswers
      <3>3. \/ l \in 1 .. Len(client[d].given) /\ q = client[d].given[l]
            \/ q.new = Last + 1 /\ q.of = p.msg
        BY <2>7, <3>1, TakenAnswers
      <3>4. k \in 1 .. Len(client[c].given) /\ r = client[c].given[k] => r.new \in 1 .. Last
        BY <2>4, <2>7
      <3>5. l \in 1 .. Len(client[d].given) /\ q = client[d].given[l] => q.new \in 1 .. Last
        BY <2>4, <2>7, <3>1
      <3>6. CASE /\ k \in 1 .. Len(client[c].given) /\ r = client[c].given[k]
                 /\ l \in 1 .. Len(client[d].given) /\ q = client[d].given[l]
        BY <1>1, <2>7, <3>1, <3>6 DEF Channels
      <3>7. Last + 1 \notin 1 .. Last
        BY LastGrows
      <3> QED
        BY <2>7, <3>1, <3>2, <3>3, <3>4, <3>5, <3>6, <3>7
    <2> QED
      BY <2>1, <2>2, <2>3, <2>5, <2>6, <2>7
  <1> QED
    BY <1>2, <1>3, <1>4 DEF Channels

\* A report taken keeps the order on the wire.
LEMMA TakenWire ==
    ASSUME WireInv, NEW p, NEW y, Taken(p, y), NEW i \in Channel \ reused
    PROVE  Wire(i)'
  <1>1. Wire(i) /\ KeyTypes /\ i \in Cid
    BY Sizes DEF WireInv, Channel, Cid
  <1>2. \A j \in 1 .. Len(queue') : j + 1 \in 2 .. Len(queue) /\ queue'[j] = queue[j + 1]
    BY TakenBasics
  <1>3. ASSUME NEW j \in 1 .. Len(queue'), NEW k \in 1 .. Len(queue'),
               j < k, queue'[j].cid = i, queue'[k].cid = i
        PROVE  /\ Opens(queue'[j]) => /\ ~Opens(queue'[k])
                                      /\ Continues(queue'[k]) => queue'[k].msg = queue'[j].msg
               /\ Continues(queue'[j]) /\ Continues(queue'[k]) /\ queue'[j].msg = queue'[k].msg
                  => queue'[j].index < queue'[k].index
    <2>1. j + 1 \in 1 .. Len(queue) /\ k + 1 \in 1 .. Len(queue) /\ j + 1 < k + 1
      BY <1>2, <1>3
    <2> QED
      BY <1>1, <1>2, <1>3, <2>1, SMTT(30) DEF Wire
  <1>4. ASSUME frames'[i] # Idle
        PROVE  /\ \A k \in 1 .. Len(frames'[i].parts) : frames'[i].parts[k] = <<frames'[i].msg, k>>
               /\ \A j \in 1 .. Len(queue') : queue'[j].cid = i =>
                    /\ ~Opens(queue'[j])
                    /\ Continues(queue'[j]) => /\ queue'[j].msg = frames'[i].msg
                                               /\ queue'[j].index > Len(frames'[i].parts)
    <2>1. CASE i # p.cid
      <3>1. frames'[i] = frames[i]
        BY <1>1, <2>1, TakenBasics
      <3> QED
        BY <1>1, <1>2, <1>4, <3>1 DEF Wire
    <2>2. CASE i = p.cid
      <3>1. p = queue[1] /\ 1 \in 1 .. Len(queue) /\ p \in Report /\ Sound(p) /\ frames'[i] = y
            /\ p.index \in Nat \ {0} /\ y # Idle
        <4>1. p = queue[1] /\ p \in Report /\ Sound(p)
          BY DEF Taken
        <4>2. 1 \in 1 .. Len(queue) /\ frames'[p.cid] = y
          BY TakenBasics
        <4>3. p.index \in Nat \ {0}
          BY <4>1 DEF Report
        <4>4. frames'[i] = y
          BY <2>2, <4>2
        <4> QED
          BY <1>4, <4>1, <4>2, <4>3, <4>4
      <3>2. ASSUME NEW j \in 1 .. Len(queue'), queue'[j].cid = i
            PROVE  /\ j + 1 \in 1 .. Len(queue) /\ 1 < j + 1 /\ queue'[j] = queue[j + 1]
                   /\ queue'[j] \in Report /\ Sound(queue'[j]) /\ queue'[j].index \in Nat \ {0}
        <4>1. j + 1 \in 1 .. Len(queue) /\ 1 < j + 1 /\ queue'[j] = queue[j + 1]
          BY <1>2
        <4>2. queue[j + 1] \in Report /\ Sound(queue[j + 1])
          BY <1>1, <4>1, ElementOfSeq DEF KeyTypes
        <4> QED
          BY <4>1, <4>2 DEF Report
      <3>3. CASE frames[i] # Idle /\ Opens(p)
        BY <1>1, <2>2, <3>1, <3>3 DEF Wire
      <3>4. CASE y = Begun(p) /\ Opens(p)
        <4>1. y.msg = p.msg /\ Len(y.parts) = 1 /\ y.parts[1] = <<p.msg, 1>>
          BY <3>1, <3>4, BegunType
        <4>2. \A k \in 1 .. Len(y.parts) : y.parts[k] = <<y.msg, k>>
          BY <4>1
        <4>3. ASSUME NEW j \in 1 .. Len(queue'), queue'[j].cid = i
              PROVE  /\ ~Opens(queue'[j])
                     /\ Continues(queue'[j]) => queue'[j].msg = y.msg /\ queue'[j].index > 1
          <5>1. /\ ~Opens(queue'[j])
                /\ Continues(queue'[j]) => queue'[j].msg = p.msg
            BY <1>1, <2>2, <3>1, <3>2, <3>4, <4>3 DEF Wire
          <5>2. Continues(queue'[j]) => queue'[j].index # 1
            BY <3>2, <4>3 DEF Sound, Continues
          <5> QED
            BY <3>2, <4>1, <4>3, <5>1, <5>2
        <4> QED
          BY <3>1, <4>1, <4>2, <4>3
      <3>5. CASE /\ y = Longer(p) /\ Continues(p) /\ frames[i] # Idle
                 /\ p.seq = frames[i].next
        <4> DEFINE x == frames[p.cid]
        <4>1. /\ y.msg = x.msg /\ p.index = Len(x.parts) + 1 /\ Len(y.parts) = Len(x.parts) + 1
              /\ y.parts[Len(x.parts) + 1] = <<p.msg, p.index>>
              /\ \A k \in 1 .. Len(x.parts) : y.parts[k] = x.parts[k]
              /\ Len(x.parts) \in Nat \ {0}
          <5>1. Continues(p) /\ frames[p.cid] # Idle /\ p.seq = frames[p.cid].next
            BY <2>2, <3>5
          <5>2. y = Longer(p)
            BY <3>5
          <5>3. LET z == Longer(p) IN
                /\ z.msg = x.msg /\ p.index = Len(x.parts) + 1
                /\ Len(z.parts) = Len(x.parts) + 1
                /\ z.parts[Len(x.parts) + 1] = <<p.msg, p.index>>
                /\ \A k \in 1 .. Len(x.parts) : z.parts[k] = x.parts[k]
                /\ Len(x.parts) \in Nat \ {0}
            BY <1>1, <3>1, <5>1, Fitting
          <5> QED
            BY <5>2, <5>3
        <4>2. /\ \A k \in 1 .. Len(x.parts) : x.parts[k] = <<x.msg, k>>
              /\ p.msg = x.msg
          BY <1>1, <2>2, <3>1, <3>5 DEF Wire
        <4>3. \A k \in 1 .. Len(y.parts) : y.parts[k] = <<y.msg, k>>
          <5>1. ASSUME NEW k \in 1 .. Len(y.parts) PROVE y.parts[k] = <<y.msg, k>>
            <6>1. CASE k = Len(x.parts) + 1
              BY <4>1, <4>2, <6>1
            <6>2. CASE k # Len(x.parts) + 1
              <7>1. k \in 1 .. Len(x.parts)
                BY <4>1, <6>2, SMTT(30)
              <7> QED
                BY <4>1, <4>2, <7>1
            <6> QED
              BY <6>1, <6>2
          <5> QED
            BY <5>1
        <4>4. ASSUME NEW j \in 1 .. Len(queue'), queue'[j].cid = i
              PROVE  /\ ~Opens(queue'[j])
                     /\ Continues(queue'[j]) => /\ queue'[j].msg = y.msg
                                                /\ queue'[j].index > Len(y.parts)
          <5>1. /\ ~Opens(queue'[j])
                /\ Continues(queue'[j]) => queue'[j].msg = x.msg
            BY <1>1, <2>2, <3>2, <3>5, <4>4 DEF Wire
          <5>2. Continues(queue'[j]) /\ queue'[j].msg = p.msg => p.index < queue'[j].index
            BY <1>1, <2>2, <3>1, <3>2, <3>5, <4>4, SMTT(30) DEF Wire
          <5> QED
            BY <3>1, <3>2, <4>1, <4>2, <4>4, <5>1, <5>2
        <4> QED
          BY <3>1, <4>3, <4>4
      <3> QED
        BY <2>2, <3>1, <3>3, <3>4, <3>5, TakenTable
    <2> QED
      BY <2>1, <2>2
  <1> QED
    BY <1>3, <1>4 DEF Wire

\* A program's channel, as it listens to it.
LEMMA OwnChannel ==
    ASSUME KeyTypes, NEW c \in Client, client[c].chan # 0
    PROVE  /\ client[c].chan \in Channel /\ client[c].chan \in Cid
           /\ Listens(c) = client[c].chan
  <1>1. client[c] \in Program /\ Composed(client[c])
    BY DEF KeyTypes
  <1>2. client[c].chan \in Channel /\ client[c].chan \in Cid
    BY <1>1, Sizes DEF Program, Channel, Cid
  <1>3. client[c].msg # NoMsg => client[c].msg.cid = client[c].chan
    BY <1>1 DEF Composed
  <1> QED
    BY <1>2, <1>3 DEF Listens

\* A request opened or gone on with on a program's channel is its own, it was told
\* nothing yet, and nothing else begins there.
LEMMA OwnRequest ==
    ASSUME WireInv, NEW p, NEW y, Taken(p, y), NEW c \in Client,
           client[c].chan # 0, client[c].chan \notin reused, client[c].msg.kind # "init",
           p.cid = client[c].chan, Opens(p) \/ (Continues(p) /\ frames[p.cid] # Idle)
    PROVE  /\ client[c].msg # NoMsg
           /\ Opens(p) => frames[p.cid] = Idle /\ p.msg = client[c].msg.id
           /\ Continues(p) => /\ frames[p.cid].msg = client[c].msg.id
                              /\ p.msg = client[c].msg.id
           /\ p.index \in Nat \ {0} /\ p.index <= client[c].sent /\ client[c].sent # 0
           /\ client[c].given = <<>>
           /\ \A j \in 1 .. Len(queue') : ~(queue'[j].cid = p.cid /\ Opens(queue'[j]))
  <1> DEFINE i == client[c].chan
  <1>1. KeyTypes /\ Numbers /\ OneAtATime(c) /\ i \in Channel
    BY OwnChannel DEF WireInv
  <1>2. Wire(i)
    BY <1>1 DEF WireInv
  <1>3. p = queue[1] /\ 1 \in 1 .. Len(queue) /\ p \in Report /\ Sound(p)
        /\ p.index \in Nat \ {0}
    BY TakenBasics DEF Taken, Report
  <1>4. \A j \in 1 .. Len(queue') : j + 1 \in 1 .. Len(queue) /\ 1 < j + 1
                                    /\ queue'[j] = queue[j + 1]
    BY TakenBasics
  <1>5. frames[i] # Idle => ~Opens(p) /\ (Continues(p) => p.msg = frames[i].msg)
    BY <1>2, <1>3 DEF Wire
  <1>6. /\ Opens(p) => p.msg = client[c].msg.id
        /\ frames[i] # Idle => frames[i].msg = client[c].msg.id
        /\ client[c].given # <<>> => NotOpening(c) /\ frames[i] = Idle
    BY <1>1, <1>3 DEF OneAtATime
  <1>7. Opens(p) => ~NotOpening(c)
    BY <1>3 DEF NotOpening
  <1>8. client[c].given = <<>>
    BY <1>6, <1>7
  <1>9. p.msg = client[c].msg.id
    BY <1>5, <1>6
  <1>10. client[c].msg # NoMsg
    BY <1>1, <1>3, <1>9 DEF Sound, NoMsg
  <1>11. p.index <= client[c].sent
    BY <1>1, <1>3, <1>9, <1>10 DEF Numbers
  <1>12. client[c].sent # 0
    BY <1>3, <1>11
  <1>13. ASSUME NEW j \in 1 .. Len(queue'), queue'[j].cid = p.cid, Opens(queue'[j])
         PROVE  FALSE
    BY <1>2, <1>3, <1>4, <1>13 DEF Wire
  <1>14. Opens(p) <=> ~Continues(p) /\ p.kind \notin {"init", "cancel"}
    BY DEF Opens, Continues
  <1> QED
    BY <1>3, <1>5, <1>6, <1>8, <1>9, <1>10, <1>11, <1>12, <1>13, <1>14

\* A report taken leaves every program with at most one thing under way.
LEMMA TakenOneAtATime ==
    ASSUME WireInv, NEW p, NEW y, Taken(p, y), NEW c \in Client
    PROVE  OneAtATime(c)'
  <1>1. /\ client'[c].chan = client[c].chan /\ client'[c].msg = client[c].msg
        /\ client'[c].sent = client[c].sent /\ reused' = reused
    BY TakenBasics DEF SameButTold, Taken
  <1> SUFFICES ASSUME client[c].chan # 0, client[c].chan \notin reused,
                      client[c].msg.kind # "init"
               PROVE  OneAtATime(c)'
    BY <1>1 DEF OneAtATime
  <1> PICK i : i = client[c].chan
    OBVIOUS
  <1> PICK x : x = client[c]
    OBVIOUS
  <1>2. /\ \A j \in 1 .. Len(queue) : queue[j].cid = i =>
             /\ queue[j].kind # "init"
             /\ Opens(queue[j]) => queue[j].msg = x.msg.id
        /\ frames[i] # Idle => frames[i].msg = x.msg.id /\ Len(frames[i].parts) <= x.sent
        /\ x.given # <<>> => /\ Len(x.given) = 1 /\ x.given[1].of = x.msg.id
                             /\ NotOpening(c) /\ frames[i] = Idle
        /\ x.sent = 0 => Quiet(c)
    BY DEF WireInv, OneAtATime
  <1>3. i \in Channel /\ i \in Cid /\ i # 0 /\ Listens(c) = i /\ KeyTypes
    BY OwnChannel DEF WireInv
  <1>4. p = queue[1] /\ 1 \in 1 .. Len(queue) /\ p \in Report /\ Sound(p)
        /\ frames'[p.cid] = y /\ (i # p.cid => frames'[i] = frames[i])
    <2>1. p = queue[1] /\ p \in Report /\ Sound(p)
      BY DEF Taken
    <2>2. 1 \in 1 .. Len(queue) /\ frames'[p.cid] = y
      BY TakenBasics
    <2>3. i # p.cid => frames'[i] = frames[i]
      BY <1>3, TakenBasics
    <2> QED
      BY <2>1, <2>2, <2>3
  <1>5. \A j \in 1 .. Len(queue') : j + 1 \in 1 .. Len(queue) /\ queue'[j] = queue[j + 1]
    BY TakenBasics
  <1>6. NotOpening(c) => NotOpening(c)'
    BY <1>1, <1>5 DEF NotOpening
  <1>7. p.cid = i /\ (Opens(p) \/ (Continues(p) /\ frames[i] # Idle)) =>
          /\ x.msg # NoMsg
          /\ Opens(p) => frames[i] = Idle /\ p.msg = x.msg.id
          /\ Continues(p) => frames[i].msg = x.msg.id /\ p.msg = x.msg.id
          /\ p.index \in Nat \ {0} /\ p.index <= x.sent /\ x.sent # 0
          /\ x.given = <<>> /\ NotOpening(c)'
    BY <1>1, <1>3, OwnRequest DEF NotOpening
  <1>8. p.cid = i => p.kind # "init"
    BY <1>2, <1>4
  <1>9. ASSUME frames'[i] # Idle
        PROVE  /\ frames'[i].msg = x.msg.id /\ Len(frames'[i].parts) <= x.sent
               /\ i # p.cid => frames[i] # Idle
               /\ i = p.cid => Opens(p) \/ (Continues(p) /\ frames[i] # Idle)
    <2>1. CASE i # p.cid
      BY <1>2, <1>4, <1>9, <2>1
    <2>2. CASE i = p.cid
      <3>1. y # Idle
        BY <1>4, <1>9, <2>2
      <3>2. CASE frames[i] # Idle /\ y = frames[i] /\ Opens(p)
        BY <1>7, <2>2, <3>2
      <3>3. CASE y = Begun(p) /\ Opens(p)
        <4>1. y.msg = p.msg /\ Len(y.parts) = 1
          BY <1>4, <3>3, BegunType
        <4>2. p.msg = x.msg.id /\ p.index \in Nat \ {0} /\ p.index <= x.sent
          BY <1>7, <2>2, <3>3
        <4>3. 1 <= x.sent
          <5>1. x.sent \in Nat
            BY <1>3 DEF KeyTypes, Program
          <5> QED
            BY <4>2, <5>1
        <4> QED
          BY <1>4, <2>2, <3>3, <4>1, <4>2, <4>3
      <3>4. CASE y = Longer(p) /\ Continues(p) /\ frames[i] # Idle /\ p.seq = frames[i].next
        <4>1. Continues(p) /\ frames[p.cid] # Idle /\ p.seq = frames[p.cid].next
          BY <2>2, <3>4
        <4>2. /\ Longer(p).msg = frames[p.cid].msg /\ Len(Longer(p).parts) = p.index
          BY <1>3, <1>4, <4>1, Fitting
        <4>3. frames[i].msg = x.msg.id /\ p.index <= x.sent
          BY <1>7, <2>2, <3>4
        <4> QED
          BY <1>4, <2>2, <3>4, <4>2, <4>3
      <3> QED
        BY <2>2, <3>1, <3>2, <3>3, <3>4, TakenTable
    <2> QED
      BY <2>1, <2>2
  <1>10. \A j \in 1 .. Len(queue') : queue'[j].cid = i =>
           /\ queue'[j].kind # "init"
           /\ Opens(queue'[j]) => queue'[j].msg = x.msg.id
    BY <1>2, <1>5
  <1>11. ASSUME cur'.cid = i
         PROVE  /\ cur'.id = x.msg.id /\ NotOpening(c)' /\ frames'[i] = Idle
                /\ client'[c].given = <<>> /\ x.sent # 0
    <2>1. Asked(p, y)
      <3>1. CASE cur' = cur
        <4>1. cur = NoMsg
          BY TakenBasics
        <4> QED
          BY <1>3, <1>11, <3>1, <4>1 DEF NoMsg
      <3> QED
        BY <3>1 DEF Taken, Silent, Replied
    <2>2. p.cid = i /\ y = Idle /\ client' = client
      BY <1>11, <2>1 DEF Asked
    <2>3. \/ Opens(p) /\ frames[i] = Idle /\ cur'.id = p.msg
          \/ Continues(p) /\ frames[i] # Idle /\ cur'.id = frames[i].msg
      BY <2>1, <2>2 DEF Asked
    <2> QED
      BY <1>4, <1>7, <2>2, <2>3
  <1>12. ASSUME client'[c].given # <<>>
         PROVE  /\ Len(client'[c].given) = 1 /\ client'[c].given[1].of = x.msg.id
                /\ NotOpening(c)' /\ frames'[i] = Idle
                /\ x.sent = 0 => FALSE
    <2>1. CASE client'[c].given = client[c].given
      <3>1. x.given = client'[c].given
        BY <2>1
      <3>2. Len(x.given) = 1 /\ x.given[1].of = x.msg.id /\ NotOpening(c) /\ frames[i] = Idle
        BY <1>2, <1>12, <3>1
      <3>3. ~(p.cid = i /\ Opens(p))
        BY <1>4, <3>2 DEF NotOpening
      <3>4. frames'[i] = Idle
        BY <1>9, <3>2, <3>3
      <3>5. x.sent # 0
        BY <1>2, <1>12, <3>1 DEF Quiet
      <3> QED
        BY <1>6, <3>1, <3>2, <3>4, <3>5
    <2>2. ASSUME NEW r \in Answering,
                 /\ Replied(p, y, r) /\ r.cid = Listens(c) /\ r.cid # 0
                 /\ client'[c].given = Append(client[c].given, r)
                 /\ Len(client'[c].given) = Len(client[c].given) + 1
                 /\ client'[c].given[Len(client[c].given) + 1] = r
          PROVE  /\ Len(client'[c].given) = 1 /\ client'[c].given[1].of = x.msg.id
                 /\ NotOpening(c)' /\ frames'[i] = Idle
                 /\ x.sent = 0 => FALSE
      <3>1. p.cid = i
        BY <1>3, <2>2 DEF Replied
      <3>2. \/ Opens(p) /\ r.of = p.msg /\ y = frames[i]
            \/ /\ Continues(p) /\ frames[i] # Idle /\ y = Idle
               /\ r.of \in {p.msg, frames[i].msg}
        BY <1>3, <1>8, <2>2, <3>1 DEF Replied
      <3>3. x.given = <<>> /\ NotOpening(c)' /\ r.of = x.msg.id /\ y = Idle /\ x.sent # 0
        BY <1>7, <3>1, <3>2
      <3>4. Len(client[c].given) = 0
        BY <3>3, EmptySeq
      <3> QED
        BY <1>4, <2>2, <3>1, <3>3, <3>4
    <2> QED
      BY <2>1, <2>2, TakenGiven
  <1>13. ASSUME x.sent = 0 PROVE Quiet(c)'
    <2>1. NotOpening(c) /\ frames[i] = Idle
      BY <1>2, <1>13 DEF Quiet
    <2>2. NotOpening(c)' /\ client'[c].given = <<>> /\ cur'.cid # i
      BY <1>6, <1>11, <1>12, <1>13, <2>1
    <2>3. ~(p.cid = i /\ Opens(p))
      BY <1>4, <2>1 DEF NotOpening
    <2>4. frames'[i] = Idle
      BY <1>9, <2>1, <2>3
    <2> QED
      BY <1>1, <2>2, <2>4 DEF Quiet
  <1> QED
    BY <1>1, <1>9, <1>10, <1>11, <1>12, <1>13 DEF OneAtATime

\* Taking a report keeps the invariant (hid.rs: push; uhid.rs: run, answer).
LEMMA RecvKeeps ==
    ASSUME WireInv, Roomy, Recv
    PROVE  WireInv'
  <1>1. PICK p \in Report, y \in Transaction : Taken(p, y) /\ TornFits(p.cid)
    BY TakenAt
  <1>2. KeyTypes' /\ Numbers' /\ Channels'
    BY <1>1, TakenTypes, TakenNumbers, TakenChannels
  <1>3. \A i \in Channel \ reused' : Wire(i)'
    BY <1>1, TakenWire DEF Taken
  <1>4. \A c \in Client : OneAtATime(c)'
    BY <1>1, TakenOneAtATime
  <1>5. PastIsFit'
    <2>1. reused' = reused /\ misread' = misread
      BY <1>1 DEF Taken
    <2> QED
      BY <1>1, <2>1 DEF WireInv, PastIsFit, FramesAreWhole, TornFits
  <1> QED
    BY <1>2, <1>3, <1>4, <1>5 DEF WireInv

----------------------------------------------------------------------------
\* The thread answers, and a human may be asked.

\* Nothing changes but where the thread is with its request.
LEMMA ThreadKeeps ==
    ASSUME WireInv, UNCHANGED <<queue, count, frames, nextCid, cur, client, reused, torn, misread>>,
           at' \in {"recv", "list", "begin", "poll", "refuse", "gone"},
           at \in {"recv", "gone"} <=> at' \in {"recv", "gone"}
    PROVE  WireInv'
  <1>1. Inits' = Inits
    BY DEF Inits
  <1>2. KeyTypes'
    <2>1. \A j \in 1 .. Len(queue) : Sound(queue[j])'
      BY DEF WireInv, KeyTypes, Sound
    <2>2. \A c \in Client : Composed(client[c])'
      BY DEF WireInv, KeyTypes, Composed
    <2>3. \A i \in Cid : frames[i] # Idle => i \in Channel /\ Partial(frames[i])'
      BY DEF WireInv, KeyTypes, Partial
    <2>4. IF at' \in {"recv", "gone"} THEN cur' = NoMsg
          ELSE cur'.cid \in Channel /\ cur'.id \in 1 .. count'
      BY DEF WireInv, KeyTypes
    <2> QED
      BY <2>1, <2>2, <2>3, <2>4 DEF WireInv, KeyTypes
  <1>3. Numbers'
    BY <1>1 DEF WireInv, Numbers, Last
  <1>4. Channels'
    BY DEF WireInv, Channels, Listens, Unused, Unheard, Promised, Last
  <1>5. \A i \in Channel \ reused' : Wire(i)'
    BY DEF WireInv, Wire
  <1>6. \A c \in Client : OneAtATime(c)'
    BY DEF WireInv, OneAtATime, Quiet, NotOpening
  <1>7. PastIsFit'
    BY DEF WireInv, PastIsFit, FramesAreWhole
  <1> QED
    BY <1>2, <1>3, <1>4, <1>5, <1>6, <1>7 DEF WireInv

\* The current request is answered (uhid.rs: answer).
LEMMA AnswerKeeps ==
    ASSUME WireInv, at \in {"list", "begin", "poll", "refuse"}, NEW ok, Answer(ok),
           UNCHANGED <<queue, count, frames, nextCid, reused, torn, misread>>
    PROVE  WireInv'
  <1>1. /\ KeyTypes /\ Numbers /\ Channels /\ cur.cid \in Channel /\ cur.id \in 1 .. count
        /\ count \in Nat /\ client \in [Client -> Program]
    BY DEF WireInv, KeyTypes
  <1> PICK r : r = Reply(cur.cid, "answer", cur.id)
    OBVIOUS
  <1>2. r \in Answering /\ r.cid = cur.cid /\ r.kind = "answer" /\ r.of = cur.id
    <2>1. cur.cid \in Cid /\ cur.id \in Nat
      BY <1>1, Sizes DEF Channel, Cid
    <2> QED
      BY <2>1, ReplyType
  <1>3. Hear(r) /\ at' = "recv" /\ cur' = NoMsg
    BY DEF Answer
  <1>4. /\ client' \in [Client -> Program]
        /\ \A c \in Client :
             /\ SameButTold(c)
             /\ client'[c].given = IF r.cid # 0 /\ Listens(c) = r.cid
                                   THEN Append(client[c].given, r) ELSE client[c].given
    BY <1>1, <1>2, <1>3, Heard DEF SameButTold
  <1>5. ASSUME NEW c \in Client
        PROVE  /\ client[c].given \in Seq(Answering) /\ Len(client[c].given) \in Nat
               /\ \/ client'[c].given = client[c].given
                  \/ /\ r.cid = Listens(c) /\ r.cid # 0
                     /\ Len(client'[c].given) = Len(client[c].given) + 1
                     /\ client'[c].given[Len(client[c].given) + 1] = r
                     /\ \A k \in 1 .. Len(client[c].given) :
                          client'[c].given[k] = client[c].given[k]
    <2>1. client[c].given \in Seq(Answering)
      BY <1>1 DEF Program
    <2>2. /\ Len(client[c].given) \in Nat
          /\ Len(Append(client[c].given, r)) = Len(client[c].given) + 1
          /\ Append(client[c].given, r)[Len(client[c].given) + 1] = r
          /\ \A k \in 1 .. Len(client[c].given) :
               Append(client[c].given, r)[k] = client[c].given[k]
      BY <1>2, <2>1, AppendProperties, LenProperties
    <2>3. CASE r.cid # 0 /\ Listens(c) = r.cid
      <3>1. client'[c].given = Append(client[c].given, r)
        BY <1>4, <2>3
      <3> QED
        BY <2>1, <2>2, <2>3, <3>1
    <2>4. CASE ~(r.cid # 0 /\ Listens(c) = r.cid)
      BY <1>4, <2>1, <2>2, <2>4
    <2> QED
      BY <2>3, <2>4
  <1>6. ASSUME NEW c \in Client, NEW k \in 1 .. Len(client'[c].given)
        PROVE  \/ k \in 1 .. Len(client[c].given) /\ client'[c].given[k] = client[c].given[k]
               \/ client'[c].given[k] = r /\ r.cid = Listens(c) /\ r.cid # 0
    <2>1. CASE k \in 1 .. Len(client[c].given)
      BY <1>5, <2>1
    <2>2. CASE k \notin 1 .. Len(client[c].given)
      <3>1. client'[c].given # client[c].given
        BY <2>2
      <3>2. k = Len(client[c].given) + 1
        BY <1>5, <2>2, <3>1
      <3> QED
        BY <1>5, <3>1, <3>2
    <2> QED
      BY <2>1, <2>2
  <1>7. KeyTypes'
    <2>1. \A j \in 1 .. Len(queue) : Sound(queue[j])'
      BY <1>1 DEF KeyTypes, Sound
    <2>2. ASSUME NEW c \in Client PROVE Composed(client[c])'
      <3>1. Composed(client[c]) /\ SameButTold(c)
        BY <1>1, <1>4 DEF KeyTypes
      <3> QED
        BY <3>1 DEF Composed, SameButTold
    <2>3. \A i \in Cid : frames[i] # Idle => i \in Channel /\ Partial(frames[i])'
      BY <1>1 DEF KeyTypes, Partial
    <2> QED
      BY <1>1, <1>3, <1>4, <2>1, <2>2, <2>3, IdleType DEF KeyTypes
  <1>8. Numbers'
    <2>1. Inits' = Inits
      BY <1>4 DEF Inits, SameButTold
    <2> QED
      BY <1>1, <1>4, <2>1 DEF Numbers, Last, SameButTold
  <1>9. Channels'
    <2>1. \A c, d \in Client : c # d /\ client'[c].chan # 0 => client'[c].chan # client'[d].chan
      BY <1>1, <1>4 DEF Channels, SameButTold
    <2>2. Last' = Last
      BY DEF Last
    <2>3. ASSUME NEW i \in Channel, Unused(i)' PROVE Unused(i)
      <3>1. ASSUME NEW c \in Client, NEW k \in 1 .. Len(client'[c].given),
                   client'[c].msg # NoMsg, client'[c].given[k].kind = "init",
                   client'[c].given[k].of = client'[c].msg.id, client'[c].given[k].new = i
            PROVE  Unused(i)
        <4>1. client'[c].msg = client[c].msg
          BY <1>4 DEF SameButTold
        <4>2. k \in 1 .. Len(client[c].given) /\ client'[c].given[k] = client[c].given[k]
          BY <1>2, <1>6, <3>1
        <4> QED
          BY <3>1, <4>1, <4>2 DEF Unused, Promised
      <3> QED
        BY <2>2, <2>3, <3>1 DEF Unused, Promised
    <2>4. ASSUME NEW i \in Channel, Unheard(i) PROVE Unheard(i)'
      <3>1. cur'.cid # i
        BY <1>3, Sizes DEF NoMsg, Channel
      <3> QED
        BY <1>4, <2>4, <3>1 DEF Unheard, SameButTold
    <2>5. ASSUME NEW c \in Client, NEW k \in 1 .. Len(client'[c].given)
          PROVE  LET s == client'[c].given[k] IN
                 /\ s.cid = Listens(c)' /\ s.cid # 0 /\ s.of <= count'
                 /\ s.kind = "init" =>
                      /\ s.new \in 1 .. Last'
                      /\ \A d \in Client : \A l \in 1 .. Len(client'[d].given) :
                           client'[d].given[l].kind = "init" /\ client'[d].given[l].new = s.new
                           => client'[d].given[l].of = s.of
      <3>1. Listens(c)' = Listens(c)
        BY <1>4 DEF Listens, SameButTold
      <3>2. CASE k \in 1 .. Len(client[c].given) /\ client'[c].given[k] = client[c].given[k]
        <4>1. PICK s : s = client'[c].given[k] /\ s = client[c].given[k]
          BY <3>2
        <4>2. s.cid = Listens(c)' /\ s.cid # 0 /\ s.of <= count'
          BY <1>1, <3>1, <3>2, <4>1 DEF Channels
        <4>3. s.kind = "init" => s.new \in 1 .. Last'
          BY <1>1, <2>2, <3>2, <4>1 DEF Channels
        <4>4. ASSUME NEW d \in Client, NEW l \in 1 .. Len(client'[d].given), s.kind = "init",
                     client'[d].given[l].kind = "init", client'[d].given[l].new = s.new
              PROVE  client'[d].given[l].of = s.of
          <5>1. l \in 1 .. Len(client[d].given) /\ client'[d].given[l] = client[d].given[l]
            BY <1>2, <1>6, <4>4
          <5>2. client[c].given[k].kind = "init" =>
                  (client[d].given[l].kind = "init" /\ client[d].given[l].new = client[c].given[k].new
                   => client[d].given[l].of = client[c].given[k].of)
            BY <1>1, <3>2, <5>1 DEF Channels
          <5> QED
            BY <4>1, <4>4, <5>1, <5>2
        <4> QED
          BY <4>1, <4>2, <4>3, <4>4
      <3>3. CASE client'[c].given[k] = r /\ r.cid = Listens(c) /\ r.cid # 0
        BY <1>1, <1>2, <3>1, <3>3
      <3> QED
        BY <1>6, <3>2, <3>3
    <2> QED
      BY <1>1, <2>1, <2>3, <2>4, <2>5 DEF Channels
  <1>10. \A i \in Channel \ reused' : Wire(i)'
    BY DEF WireInv, Wire
  <1>11. ASSUME NEW c \in Client PROVE OneAtATime(c)'
    <2>1. SameButTold(c) /\ OneAtATime(c)
      BY <1>4 DEF WireInv
    <2>2. SUFFICES ASSUME client[c].chan # 0, client[c].chan \notin reused,
                          client[c].msg.kind # "init"
                   PROVE  OneAtATime(c)'
      BY <2>1 DEF OneAtATime, SameButTold
    <2>3. Listens(c) = client[c].chan
      BY <1>1, <2>2, OwnChannel
    <2>4. NotOpening(c)' <=> NotOpening(c)
      BY <2>1 DEF NotOpening, SameButTold
    <2>5. cur'.cid # client[c].chan
      BY <1>3, <2>2 DEF NoMsg
    <2>6. CASE r.cid = Listens(c) /\ r.cid # 0
      <3>1. /\ cur.cid = client[c].chan /\ cur.id = client[c].msg.id /\ NotOpening(c)
            /\ frames[client[c].chan] = Idle /\ client[c].given = <<>>
            /\ client[c].sent # 0
        BY <1>2, <2>1, <2>2, <2>3, <2>6 DEF OneAtATime, Quiet
      <3>2. Len(client[c].given) = 0 /\ client'[c].given = Append(client[c].given, r)
        BY <1>4, <2>6, <3>1, EmptySeq
      <3>3. Len(client'[c].given) = 1 /\ client'[c].given[1] = r
        BY <1>2, <3>1, <3>2
      <3>4. client'[c].given[1].of = client'[c].msg.id
        BY <1>2, <2>1, <3>1, <3>3 DEF SameButTold
      <3> QED
        BY <2>1, <2>4, <2>5, <3>1, <3>3, <3>4 DEF OneAtATime, SameButTold
    <2>7. CASE ~(r.cid = Listens(c) /\ r.cid # 0)
      <3>1. client'[c].given = client[c].given
        BY <1>4, <2>7
      <3> QED
        BY <2>1, <2>4, <2>5, <3>1 DEF OneAtATime, SameButTold, Quiet
    <2> QED
      BY <2>6, <2>7
  <1>12. PastIsFit'
    BY DEF WireInv, PastIsFit, FramesAreWhole
  <1> QED
    BY <1>7, <1>8, <1>9, <1>10, <1>11, <1>12 DEF WireInv

\* The device goes (uhid.rs: Drop for Device).
LEMMA StopsKeeps ==
    ASSUME WireInv, Stops
    PROVE  WireInv'
  <1>1. /\ queue' = <<>> /\ at' = "gone" /\ cur' = NoMsg
        /\ frames' = [i \in Cid |-> Idle] /\ client' = [c \in Client |-> NoClient]
        /\ UNCHANGED <<count, nextCid, torn, reused, misread>>
    BY DEF Stops, pastVars
  <1>2. NoClient \in Program /\ Composed(NoClient)' /\ NoClient.chan = 0
        /\ NoClient.msg = NoMsg /\ NoClient.given = <<>> /\ Len(NoClient.given) = 0
    <2>1. <<>> \in Seq(Answering) /\ NoMsg \in Msg /\ 0 \in 0 .. Broadcast - 1
      BY EmptySeq, IdleType, Sizes
    <2> QED
      BY <2>1, EmptySeq DEF NoClient, Program, Composed
  <1>3. Len(queue') = 0 /\ queue' \in Seq(Report)
    BY <1>1, EmptySeq
  <1>4. KeyTypes'
    <2>1. count' \in Nat /\ nextCid' \in Channel /\ reused' \subseteq Channel
      BY <1>1 DEF WireInv, KeyTypes
    <2>2. \A c \in Client : client'[c] = NoClient
      BY <1>1
    <2>3. client' \in [Client -> Program]
      BY <1>1, <1>2
    <2>4. frames' \in [Cid -> Transaction] /\ \A i \in Cid : frames'[i] = Idle
      BY <1>1, IdleType
    <2>5. \A c \in Client : Composed(client[c])'
      BY <1>2, <2>2 DEF Composed
    <2>6. cur' \in Msg
      BY <1>1, IdleType
    <2> QED
      BY <1>1, <1>3, <2>1, <2>3, <2>4, <2>5, <2>6 DEF KeyTypes
  <1>5. Numbers'
    <2>1. Inits' = {}
      <3>1. \A c \in Client : client'[c].msg.kind # "init"
        BY <1>1, <1>2 DEF NoMsg
      <3> QED
        BY <1>3, <3>1, InitMemberNext
    <2>2. Cardinality(Inits') = 0
      BY <2>1, FS_EmptySet
    <2>3. Last' = Last /\ count' = count
      BY <1>1 DEF Last
    <2>4. Last + Cardinality(Inits) <= count /\ count <= MaxMsg
      BY DEF WireInv, Numbers
    <2>5. Cardinality(Inits) \in Nat /\ Last \in Nat /\ count \in Nat
      <3>1. nextCid \in Channel /\ count \in Nat /\ KeyTypes
        BY DEF WireInv, KeyTypes
      <3> QED
        BY <3>1, InitsFinite, Sizes DEF Last, Channel
    <2>6. \A c \in Client : client'[c].msg = NoMsg
      BY <1>1, <1>2
    <2> QED
      BY <1>3, <2>2, <2>3, <2>4, <2>5, <2>6 DEF Numbers
  <1>6. Channels'
    <2>1. \A c \in Client : /\ client'[c].chan = 0 /\ client'[c].msg = NoMsg
                            /\ Len(client'[c].given) = 0
      BY <1>1, <1>2
    <2>2. ASSUME NEW i \in Channel, Unused(i)' PROVE Unheard(i)'
      <3>1. Last' = Last
        BY <1>1 DEF Last
      <3>2. Last < i /\ i < Broadcast - Cardinality(Client)
        BY <2>1, <2>2, <3>1 DEF Unused
      <3>3. i \notin reused
        BY <3>2 DEF WireInv, Channels, Unused, Unheard
      <3>4. i # 0 /\ i \in Cid
        BY Sizes DEF Channel, Cid
      <3> QED
        BY <1>1, <1>3, <2>1, <3>3, <3>4 DEF Unheard, NoMsg
    <2> QED
      BY <2>1, <2>2 DEF Channels
  <1>7. ASSUME NEW i \in Channel \ reused' PROVE Wire(i)'
    <2>1. frames'[i] = Idle
      BY <1>1, Sizes DEF Channel, Cid
    <2> QED
      BY <1>3, <2>1 DEF Wire
  <1>8. \A c \in Client : OneAtATime(c)'
    BY <1>1, <1>2 DEF OneAtATime
  <1>9. PastIsFit'
    BY <1>1 DEF WireInv, PastIsFit, FramesAreWhole
  <1> QED
    BY <1>4, <1>5, <1>6, <1>7, <1>8, <1>9 DEF WireInv

----------------------------------------------------------------------------
\* The programs.

\* A message is begun, and what the program waited for is given up.
LEMMA ComposeKeeps ==
    ASSUME WireInv, NEW c \in Client, NEW kind \in Kind, NEW len \in 1 .. MaxLen, Compose(c, kind, len),
           kind = "init" => len = 1,
           client[c].chan = 0 => kind = "init",
           kind # "init" => client[c].msg = NoMsg,
           kind = "init" /\ client[c].chan # 0 => client[c].msg # NoMsg,
           UNCHANGED <<queue, frames, nextCid, at, cur, reused, torn, misread>>
    PROVE  WireInv'
  <1>1. /\ KeyTypes /\ Numbers /\ Channels /\ count \in Nat
        /\ client \in [Client -> Program] /\ client[c] \in Program /\ Composed(client[c])
    BY DEF WireInv, KeyTypes
  <1>2. count < MaxMsg /\ count' = count + 1
    BY DEF Compose
  <1> PICK m : m = [id |-> count + 1, kind |-> kind, len |-> len,
                    cid |-> IF client[c].chan = 0 THEN Broadcast ELSE client[c].chan]
    OBVIOUS
  <1>3. /\ m \in Msg /\ m # NoMsg /\ m.id = count + 1 /\ m.kind = kind /\ m.len = len
        /\ m.cid = IF client[c].chan = 0 THEN Broadcast ELSE client[c].chan
    <2>1. (IF client[c].chan = 0 THEN Broadcast ELSE client[c].chan) \in Cid
      BY <1>1, Sizes DEF Program, Cid
    <2>2. len \in Nat
      BY Sizes
    <2> QED
      BY <1>1, <2>1, <2>2 DEF Msg, NoMsg
  <1>4. client'[c] = [Rested(client[c]) EXCEPT !.msg = m]
        /\ \A d \in Client \ {c} : client'[d] = client[d]
    BY <1>1 DEF Compose
  <1>5. /\ client'[c].chan = client[c].chan /\ client'[c].given = client[c].given
        /\ client'[c].msg = m /\ client'[c].sent = 0 /\ client'[c] \in Program
    <2>1. PICK x \in Program : x = client[c]
      BY <1>1
    <2>2. PICK z : z = Rested(x)
      OBVIOUS
    <2>3. z \in Program /\ z.chan = x.chan /\ z.given = x.given /\ z.sent = 0
      BY <2>2, IdleType DEF Rested, Program
    <2>4. /\ [z EXCEPT !.msg = m] \in Program /\ [z EXCEPT !.msg = m].msg = m
          /\ [z EXCEPT !.msg = m].chan = z.chan /\ [z EXCEPT !.msg = m].given = z.given
          /\ [z EXCEPT !.msg = m].sent = z.sent
      BY <1>3, <2>3 DEF Program
    <2> QED
      BY <1>4, <2>1, <2>2, <2>3, <2>4
  <1>6. client' \in [Client -> Program]
    BY <1>1, <1>4, <1>5 DEF Compose
  <1>7. \A d \in Client : client'[d].chan = client[d].chan /\ client'[d].given = client[d].given
    BY <1>4, <1>5
  <1>8. KeyTypes'
    <2>1. ASSUME NEW j \in 1 .. Len(queue) PROVE Sound(queue[j])'
      <3>1. Sound(queue[j]) /\ queue[j] \in Report
        BY <1>1, ElementOfSeq DEF KeyTypes
      <3>2. queue[j].msg <= count + 1
        BY <1>1, <3>1 DEF Sound, Report
      <3> QED
        BY <1>2, <3>1, <3>2 DEF Sound
    <2>2. ASSUME NEW d \in Client PROVE Composed(client[d])'
      <3>1. CASE d = c
        <4>1. m.id \in 1 .. count' /\ kind # "none" /\ 0 \in 0 .. m.len
          BY <1>1, <1>2, <1>3, Sizes DEF Kind, Ceremony
        <4> QED
          BY <1>3, <1>5, <3>1, <4>1 DEF Composed
      <3>2. CASE d # c
        <4>1. Composed(client[d]) /\ client'[d] = client[d]
          BY <1>1, <1>4, <3>2 DEF KeyTypes
        <4>2. client[d].msg # NoMsg => client[d].msg.id \in 1 .. count'
          BY <1>1, <1>2, <4>1 DEF Composed
        <4> QED
          BY <4>1, <4>2 DEF Composed
      <3> QED
        BY <3>1, <3>2
    <2>3. ASSUME NEW i \in Cid, frames[i] # Idle PROVE i \in Channel /\ Partial(frames[i])'
      <3>1. i \in Channel /\ Partial(frames[i])
        BY <1>1, <2>3 DEF KeyTypes
      <3>2. frames[i].msg \in 1 .. count'
        BY <1>1, <1>2, <3>1 DEF Partial
      <3> QED
        BY <3>1, <3>2 DEF Partial
    <2>4. IF at \in {"recv", "gone"} THEN cur = NoMsg
          ELSE cur.cid \in Channel /\ cur.id \in 1 .. count'
      BY <1>1, <1>2 DEF KeyTypes
    <2>5. count' \in Nat
      BY <1>1, <1>2
    <2> QED
      BY <1>1, <1>6, <2>1, <2>2, <2>3, <2>4, <2>5 DEF KeyTypes
  <1>9. ASSUME NEW d \in Client \ {c}
        PROVE  client[d].msg.id \in Nat /\ client[d].msg.id # m.id
    <2>1. Composed(client[d]) /\ client[d].msg \in Msg
      BY <1>1 DEF KeyTypes, Program
    <2>2. CASE client[d].msg = NoMsg
      BY <1>1, <1>3, <2>2 DEF NoMsg
    <2>3. CASE client[d].msg # NoMsg
      BY <1>1, <1>3, <2>1, <2>3 DEF Composed
    <2> QED
      BY <2>2, <2>3
  <1>10. \A j \in 1 .. Len(queue) : queue[j].msg # m.id
    <2>1. ASSUME NEW j \in 1 .. Len(queue) PROVE queue[j].msg # m.id
      <3>1. Sound(queue[j]) /\ queue[j] \in Report
        BY <1>1, ElementOfSeq DEF KeyTypes
      <3> QED
        BY <1>1, <1>3, <3>1 DEF Sound, Report
    <2> QED
      BY <2>1
  <1>11. Numbers'
    <2>1. Inits' \subseteq Inits \cup {m.id}
      <3>1. ASSUME NEW d \in Client, client'[d].msg.kind = "init", client'[d].sent = 0
            PROVE  client'[d].msg.id \in Inits \cup {m.id}
        <4>1. CASE d = c
          BY <1>5, <4>1
        <4>2. CASE d # c
          <5>1. client'[d] = client[d]
            BY <1>4, <4>2
          <5> QED
            BY <3>1, <5>1, InitMember
        <4> QED
          BY <4>1, <4>2
      <3> QED
        BY <3>1, InitMember, InitMemberNext
    <2>2. IsFiniteSet(Inits) /\ Cardinality(Inits) \in Nat
      BY <1>1, InitsFinite
    <2>3. /\ IsFiniteSet(Inits \cup {m.id}) /\ Cardinality(Inits \cup {m.id}) \in Nat
          /\ Cardinality(Inits \cup {m.id}) <= Cardinality(Inits) + 1
      <3>1. CASE m.id \in Inits
        <4>1. Inits \cup {m.id} = Inits
          BY <3>1
        <4> QED
          BY <2>2, <4>1
      <3>2. CASE m.id \notin Inits
        BY <2>2, <3>2, FS_AddElement
      <3> QED
        BY <3>1, <3>2
    <2>4. Cardinality(Inits') <= Cardinality(Inits) + 1 /\ Cardinality(Inits') \in Nat
      BY <2>1, <2>2, <2>3, FS_Subset, FS_CardinalityType
    <2>5. Last \in Nat /\ Last' = Last /\ Last + Cardinality(Inits) <= count
      <3>1. nextCid \in Channel
        BY <1>1 DEF KeyTypes
      <3>2. Last \in Nat
        BY <3>1, Sizes DEF Last, Channel
      <3>3. Last' = Last
        BY DEF Last
      <3> QED
        BY <1>1, <3>2, <3>3 DEF Numbers
    <2>6. Last' + Cardinality(Inits') <= count' /\ count' <= MaxMsg
      BY <1>1, <1>2, <2>2, <2>4, <2>5, Sizes
    <2>7. ASSUME NEW d \in Client, NEW e \in Client, d # e, client'[d].msg # NoMsg
          PROVE  client'[d].msg.id # client'[e].msg.id
      <3>1. CASE d # c /\ e # c
        <4>1. client'[d] = client[d] /\ client'[e] = client[e]
          BY <1>4, <3>1
        <4> QED
          BY <1>1, <2>7, <4>1 DEF Numbers
      <3>2. CASE d = c
        <4>1. client'[e] = client[e] /\ client[e].msg.id # m.id
          BY <1>4, <1>9, <2>7, <3>2
        <4> QED
          BY <1>5, <3>2, <4>1
      <3>3. CASE e = c
        <4>1. client'[d] = client[d] /\ client[d].msg.id # m.id
          BY <1>4, <1>9, <2>7, <3>3
        <4> QED
          BY <1>5, <3>3, <4>1
      <3> QED
        BY <3>1, <3>2, <3>3
    <2>8. ASSUME NEW d \in Client, NEW j \in 1 .. Len(queue),
                 client'[d].msg # NoMsg, queue[j].msg = client'[d].msg.id
          PROVE  queue[j].index <= client'[d].sent
      <3>1. CASE d = c
        BY <1>5, <1>10, <2>8, <3>1
      <3>2. CASE d # c
        <4>1. client'[d] = client[d]
          BY <1>4, <3>2
        <4> QED
          BY <1>1, <2>8, <4>1 DEF Numbers
      <3> QED
        BY <3>1, <3>2
    <2> QED
      BY <1>1, <2>6, <2>7, <2>8 DEF Numbers
  <1>12. \A d \in Client : \A k \in 1 .. Len(client[d].given) : Listens(d)' = Listens(d)
    <2>1. ASSUME NEW k \in 1 .. Len(client[c].given) PROVE Listens(c)' = Listens(c)
      <3>1. Listens(c) # 0
        BY <1>1 DEF Channels
      <3>2. Listens(c)' = m.cid
        BY <1>3, <1>5 DEF Listens
      <3>3. CASE client[c].msg = NoMsg
        BY <1>3, <3>1, <3>2, <3>3 DEF Listens
      <3>4. CASE client[c].msg # NoMsg
        BY <1>1, <1>3, <3>2, <3>4 DEF Listens, Composed
      <3> QED
        BY <3>3, <3>4
    <2>2. \A d \in Client \ {c} : Listens(d)' = Listens(d)
      BY <1>4 DEF Listens
    <2> QED
      BY <2>1, <2>2
  <1>13. Channels'
    <2>1. \A d, e \in Client : d # e /\ client'[d].chan # 0 => client'[d].chan # client'[e].chan
      BY <1>1, <1>7 DEF Channels
    <2>2. Last' = Last
      BY DEF Last
    <2>3. ASSUME NEW i \in Channel, Unused(i)' PROVE Unused(i)
      <3>1. ASSUME NEW d \in Client, NEW k \in 1 .. Len(client'[d].given), Promised(d, k)',
                   client'[d].given[k].new = i
            PROVE  Unused(i)
        <4>1. CASE d = c
          <5>1. client[c].given[k].of = m.id /\ k \in 1 .. Len(client[c].given)
            BY <1>5, <3>1, <4>1 DEF Promised
          <5>2. client[c].given[k].of <= count
            BY <1>1, <5>1 DEF Channels
          <5> QED
            BY <1>1, <1>3, <5>1, <5>2
        <4>2. CASE d # c
          <5>1. client'[d] = client[d]
            BY <1>4, <4>2
          <5> QED
            BY <3>1, <5>1 DEF Unused, Promised
        <4> QED
          BY <4>1, <4>2
      <3> QED
        BY <2>2, <2>3, <3>1 DEF Unused
    <2>4. \A i \in Channel : Unheard(i) => Unheard(i)'
      BY <1>7 DEF Unheard
    <2>5. ASSUME NEW d \in Client, NEW k \in 1 .. Len(client[d].given)
          PROVE  LET r == client[d].given[k] IN
                 /\ r.cid = Listens(d)' /\ r.cid # 0 /\ r.of <= count'
                 /\ r.kind = "init" =>
                      /\ r.new \in 1 .. Last'
                      /\ \A e \in Client : \A l \in 1 .. Len(client[e].given) :
                           client[e].given[l].kind = "init" /\ client[e].given[l].new = r.new
                           => client[e].given[l].of = r.of
      <3>1. client[d].given[k].of <= count /\ client[d].given[k].of \in Nat
        <4>1. client[d].given[k] \in Answering
          BY <1>1, ElementOfSeq DEF Program
        <4> QED
          BY <1>1, <4>1 DEF Channels, Answering
      <3>2. client[d].given[k].of <= count'
        BY <1>1, <1>2, <3>1
      <3> QED
        BY <1>1, <1>12, <2>2, <3>2 DEF Channels
    <2>6. ASSUME NEW d \in Client, NEW k \in 1 .. Len(client'[d].given)
          PROVE  LET r == client'[d].given[k] IN
                 /\ r.cid = Listens(d)' /\ r.cid # 0 /\ r.of <= count'
                 /\ r.kind = "init" =>
                      /\ r.new \in 1 .. Last'
                      /\ \A e \in Client : \A l \in 1 .. Len(client'[e].given) :
                           client'[e].given[l].kind = "init" /\ client'[e].given[l].new = r.new
                           => client'[e].given[l].of = r.of
      <3>1. k \in 1 .. Len(client[d].given) /\ client'[d].given = client[d].given
        BY <1>7
      <3>2. PICK r : r = client[d].given[k]
        OBVIOUS
      <3>3. /\ r.cid = Listens(d)' /\ r.cid # 0 /\ r.of <= count'
            /\ r.kind = "init" => r.new \in 1 .. Last'
        BY <2>5, <3>1, <3>2
      <3>4. ASSUME NEW e \in Client, NEW l \in 1 .. Len(client'[e].given), r.kind = "init",
                   client'[e].given[l].kind = "init", client'[e].given[l].new = r.new
            PROVE  client'[e].given[l].of = r.of
        <4>1. l \in 1 .. Len(client[e].given) /\ client'[e].given = client[e].given
          BY <1>7
        <4> QED
          BY <2>5, <3>1, <3>2, <3>4, <4>1
      <3> QED
        BY <3>1, <3>2, <3>3, <3>4
    <2>7. \A i \in Channel : Unused(i)' => Unheard(i)'
      BY <1>1, <2>3, <2>4 DEF Channels
    <2> QED
      BY <2>1, <2>6, <2>7 DEF Channels
  <1>14. \A i \in Channel \ reused' : Wire(i)'
    BY DEF WireInv, Wire
  <1>15. ASSUME NEW d \in Client PROVE OneAtATime(d)'
    <2>1. CASE d # c
      <3>1. client'[d] = client[d] /\ OneAtATime(d)
        BY <1>4, <2>1 DEF WireInv
      <3> QED
        BY <3>1 DEF OneAtATime, Quiet, NotOpening
    <2>2. CASE d = c /\ kind = "init"
      BY <1>3, <1>5, <2>2 DEF OneAtATime
    <2>3. CASE d = c /\ kind # "init"
      <3>1. client[c].msg = NoMsg /\ client[c].sent = 0 /\ NoMsg.kind # "init"
        BY <1>1, <2>3 DEF Composed, NoMsg
      <3>2. client[c].chan # 0 /\ client[c].chan \notin reused =>
              /\ Quiet(c)
              /\ \A j \in 1 .. Len(queue) : queue[j].cid = client[c].chan =>
                   queue[j].kind # "init"
        BY <3>1 DEF WireInv, OneAtATime
      <3>3. Quiet(c) => Quiet(c)'
        BY <1>5 DEF Quiet, NotOpening
      <3> QED
        BY <1>5, <2>3, <3>2, <3>3 DEF OneAtATime, Quiet, NotOpening
    <2> QED
      BY <2>1, <2>2, <2>3
  <1>16. PastIsFit'
    BY DEF WireInv, PastIsFit, FramesAreWhole
  <1> QED
    BY <1>8, <1>11, <1>13, <1>14, <1>15, <1>16 DEF WireInv

\* A program writes a report of its message, or a CANCEL for it: p is on its channel,
\* n is how many reports of the message are then written.
Puts(c, p, n) ==
    LET x == client[c] IN
    /\ Write(p) /\ p \in Report /\ Sound(p)
    /\ x.msg # NoMsg /\ p.cid = x.msg.cid /\ p.msg = x.msg.id
    /\ n \in 1 .. x.msg.len /\ x.sent <= n /\ p.index <= n
    /\ p.kind = "init" => x.msg.kind = "init" /\ x.sent = 0
    /\ x.msg.kind # "init" => p.kind # "init"
    /\ Opens(p) => x.sent = 0
    /\ Continues(p) => x.msg.kind # "init" /\ p.index > x.sent
    /\ Opens(p) => x.msg.kind # "init"
    /\ client'[c] \in Program
    /\ client'[c].chan = x.chan /\ client'[c].msg = x.msg /\ client'[c].given = x.given
    /\ client'[c].sent = n
    /\ client' = [client EXCEPT ![c] = client'[c]]
    /\ UNCHANGED <<count, frames, nextCid, at, cur, reused, torn, misread>>

\* What writing a report leaves alone.
LEMMA PutBasics ==
    ASSUME WireInv, NEW c \in Client, NEW p, NEW n, Puts(c, p, n)
    PROVE  /\ queue' \in Seq(Report) /\ Len(queue) \in Nat /\ Len(queue') \in Nat
           /\ \A j \in 1 .. Len(queue') :
                \/ j \in 1 .. Len(queue) /\ queue'[j] = queue[j]
                \/ j = Len(queue) + 1 /\ queue'[j] = p
           /\ \A d \in Client : client'[d].chan = client[d].chan
                                /\ client'[d].given = client[d].given
                                /\ client'[d].msg = client[d].msg
           /\ \A d \in Client \ {c} : client'[d] = client[d]
           /\ client' \in [Client -> Program]
           /\ client[c].chan # 0 => p.cid = client[c].chan
           /\ client[c].chan = 0 => p.cid \notin Channel
  <1>1. KeyTypes
    BY DEF WireInv
  <1>2. /\ queue' \in Seq(Report)
        /\ \A j \in 1 .. Len(queue') :
                \/ j \in 1 .. Len(queue) /\ queue'[j] = queue[j]
                \/ j = Len(queue) + 1 /\ queue'[j] = p
    BY <1>1, Enqueued DEF Puts, KeyTypes
  <1>3. Len(queue) \in Nat /\ Len(queue') \in Nat
    BY <1>1, <1>2, LenProperties DEF KeyTypes
  <1>4. \A d \in Client \ {c} : client'[d] = client[d]
    BY <1>1 DEF Puts, KeyTypes
  <1>5. \A d \in Client : client'[d].chan = client[d].chan /\ client'[d].given = client[d].given
                          /\ client'[d].msg = client[d].msg
    BY <1>4 DEF Puts
  <1>6. client' \in [Client -> Program]
    BY <1>1 DEF Puts, KeyTypes
  <1>7. Composed(client[c]) /\ Broadcast \notin Channel
    BY <1>1, Sizes DEF KeyTypes, Channel
  <1>8. /\ client[c].chan # 0 => p.cid = client[c].chan
        /\ client[c].chan = 0 => p.cid \notin Channel
    BY <1>7 DEF Composed, Puts
  <1> QED
    BY <1>2, <1>3, <1>4, <1>5, <1>6, <1>8

\* Writing a report keeps the types and the messages apart.
LEMMA PutTypes ==
    ASSUME WireInv, NEW c \in Client, NEW p, NEW n, Puts(c, p, n)
    PROVE  KeyTypes' /\ Numbers'
  <1>1. KeyTypes /\ Numbers
    BY DEF WireInv
  <1>2. count' = count /\ Last' = Last
    BY DEF Puts, Last
  <1>3. KeyTypes'
    <2>1. ASSUME NEW j \in 1 .. Len(queue') PROVE Sound(queue[j])'
      <3>1. Sound(queue'[j])
        BY <1>1, PutBasics DEF Puts, KeyTypes
      <3> QED
        BY <1>2, <3>1 DEF Sound
    <2>2. ASSUME NEW d \in Client PROVE Composed(client[d])'
      <3>1. CASE d = c
        <4>1. Composed(client[c]) /\ client[c].msg # NoMsg /\ n \in 0 .. client[c].msg.len
          BY <1>1 DEF KeyTypes, Puts, Program, Msg
        <4>2. client'[c].chan = client[c].chan /\ client'[c].msg = client[c].msg
              /\ client'[c].sent = n
          BY DEF Puts
        <4> QED
          BY <1>2, <3>1, <4>1, <4>2 DEF Composed
      <3>2. CASE d # c
        <4>1. Composed(client[d]) /\ client'[d] = client[d]
          BY <1>1, <3>2, PutBasics DEF KeyTypes
        <4> QED
          BY <1>2, <4>1 DEF Composed
      <3> QED
        BY <3>1, <3>2
    <2>3. \A i \in Cid : frames'[i] # Idle => i \in Channel /\ Partial(frames[i])'
      BY <1>1, <1>2 DEF KeyTypes, Partial, Puts
    <2>4. UNCHANGED <<frames, nextCid, at, cur, reused>>
      BY DEF Puts
    <2> QED
      BY <1>1, <1>2, <2>1, <2>2, <2>3, <2>4, PutBasics DEF KeyTypes
  <1>4. p.index \in Nat \ {0} /\ n \in Nat /\ client[c].sent \in Nat
    BY <1>1 DEF Puts, Report, KeyTypes, Program, Msg
  <1>5. Inits' \subseteq Inits
    <2>1. ASSUME NEW j \in 1 .. Len(queue'), queue'[j].kind = "init", queue'[j].len = 1
          PROVE  queue'[j].msg \in Inits
      <3>1. CASE j \in 1 .. Len(queue) /\ queue'[j] = queue[j]
        BY <2>1, <3>1, InitMember
      <3>2. CASE queue'[j] = p
        BY <2>1, <3>2, InitMember DEF Puts
      <3> QED
        BY <3>1, <3>2, PutBasics
    <2>2. ASSUME NEW d \in Client, client'[d].msg.kind = "init", client'[d].sent = 0
          PROVE  client'[d].msg.id \in Inits
      <3>1. d # c
        BY <1>4, <2>2 DEF Puts
      <3>2. client'[d] = client[d]
        BY <3>1, PutBasics
      <3> QED
        BY <2>2, <3>2, InitMember
    <2> QED
      BY <2>1, <2>2, InitMemberNext
  <1>6. Last' + Cardinality(Inits') <= count' /\ count' <= MaxMsg
    <2>1. Cardinality(Inits') <= Cardinality(Inits) /\ Cardinality(Inits') \in Nat
          /\ Cardinality(Inits) \in Nat
      BY <1>1, <1>5, InitsFinite, FS_Subset, FS_CardinalityType
    <2>2. nextCid \in Channel /\ count \in Nat
      BY <1>1 DEF KeyTypes
    <2>3. Last \in Nat
      BY <2>2, Sizes DEF Last, Channel
    <2>4. Last + Cardinality(Inits) <= count /\ count <= MaxMsg
      BY <1>1 DEF Numbers
    <2> QED
      BY <1>2, <2>1, <2>2, <2>3, <2>4
  <1>7. \A d, e \in Client : d # e /\ client'[d].msg # NoMsg => client'[d].msg.id # client'[e].msg.id
    BY <1>1, PutBasics DEF Numbers
  <1>8. ASSUME NEW d \in Client, NEW j \in 1 .. Len(queue'),
               client'[d].msg # NoMsg, queue'[j].msg = client'[d].msg.id
        PROVE  queue'[j].index <= client'[d].sent
    <2>1. client[d].msg # NoMsg /\ queue'[j].msg = client[d].msg.id
      BY <1>8, PutBasics
    <2>2. CASE j \in 1 .. Len(queue) /\ queue'[j] = queue[j]
      <3>1. queue[j].index <= client[d].sent
        BY <1>1, <2>1, <2>2 DEF Numbers
      <3>2. CASE d = c
        <4>1. queue[j] \in Report
          BY <1>1, <2>2, ElementOfSeq DEF KeyTypes
        <4> QED
          BY <1>4, <2>2, <3>1, <3>2, <4>1, SMTT(30) DEF Puts, Report
      <3>3. CASE d # c
        BY <2>2, <3>1, <3>3, PutBasics
      <3> QED
        BY <3>2, <3>3
    <2>3. CASE queue'[j] = p
      <3>1. d = c
        BY <1>1, <2>1, <2>3 DEF Numbers, Puts
      <3> QED
        BY <2>3, <3>1 DEF Puts
    <2> QED
      BY <2>2, <2>3, PutBasics
  <1>9. ASSUME NEW j \in 1 .. Len(queue), queue[j].kind = "init", p.kind = "init"
        PROVE  queue[j].msg # p.msg
    <2>1. queue[j].msg = p.msg => queue[j].index <= 0
      BY <1>1, <1>9 DEF Numbers, Puts
    <2>2. queue[j] \in Report
      BY <1>1, ElementOfSeq DEF KeyTypes
    <2> QED
      BY <2>1, <2>2 DEF Report
  <1>10. ASSUME NEW j \in 1 .. Len(queue'), NEW k \in 1 .. Len(queue'),
                j # k, queue'[j].kind = "init", queue'[k].kind = "init",
                queue'[j].len = 1, queue'[k].len = 1
         PROVE  queue'[j].msg # queue'[k].msg
    <2>1. CASE j \in 1 .. Len(queue) /\ queue'[j] = queue[j]
      <3>1. CASE k \in 1 .. Len(queue) /\ queue'[k] = queue[k]
        BY <1>1, <1>10, <2>1, <3>1 DEF Numbers
      <3>2. CASE queue'[k] = p
        BY <1>9, <1>10, <2>1, <3>2
      <3> QED
        BY <3>1, <3>2, PutBasics
    <2>2. CASE j = Len(queue) + 1 /\ queue'[j] = p
      <3>1. k \in 1 .. Len(queue) /\ queue'[k] = queue[k]
        BY <1>10, <2>2, PutBasics
      <3> QED
        BY <1>9, <1>10, <2>2, <3>1
    <2> QED
      BY <2>1, <2>2, PutBasics
  <1> QED
    BY <1>3, <1>6, <1>7, <1>8, <1>10 DEF Numbers

\* What is written on a channel is its program's own.
LEMMA PutOnOwnChannel ==
    ASSUME WireInv, NEW c \in Client, NEW p, NEW n, Puts(c, p, n), p.cid \in Channel
    PROVE  /\ client[c].chan = p.cid
           /\ \A d \in Client \ {c} : client[d].chan # p.cid
           /\ p.cid \notin reused /\ Opens(p) => Quiet(c)
           /\ p.cid \notin reused /\ Continues(p) => OneAtATime(c) /\ client[c].msg.kind # "init"
  <1>1. client[c].chan = p.cid /\ p.cid # 0
    <2>1. client[c].chan # 0
      BY PutBasics
    <2> QED
      BY <2>1, PutBasics
  <1>2. \A d \in Client \ {c} : client[d].chan # p.cid
    BY <1>1 DEF WireInv, Channels
  <1>3. OneAtATime(c)
    BY DEF WireInv
  <1>4. p.cid \notin reused /\ Opens(p) => Quiet(c)
    BY <1>1, <1>3 DEF OneAtATime, Puts
  <1> QED
    BY <1>1, <1>2, <1>3, <1>4 DEF Puts

\* Writing a report keeps the channels apart.
LEMMA PutChannels ==
    ASSUME WireInv, NEW c \in Client, NEW p, NEW n, Puts(c, p, n)
    PROVE  Channels'
  <1>1. Channels
    BY DEF WireInv
  <1>2. Last' = Last /\ count' = count
    BY DEF Puts, Last
  <1>3. \A d \in Client : client'[d].chan = client[d].chan /\ client'[d].given = client[d].given
                          /\ client'[d].msg = client[d].msg
    BY PutBasics
  <1>4. \A d \in Client : Listens(d)' = Listens(d)
    BY <1>3 DEF Listens
  <1>5. ASSUME NEW i \in Channel, Unused(i)' PROVE Unused(i)
    BY <1>2, <1>3, <1>5 DEF Unused, Promised
  <1>6. ASSUME NEW i \in Channel, Unheard(i) PROVE Unheard(i)'
    <2>1. ASSUME NEW j \in 1 .. Len(queue') PROVE queue'[j].cid # i
      <3>1. CASE j \in 1 .. Len(queue) /\ queue'[j] = queue[j]
        BY <1>6, <3>1 DEF Unheard
      <3>2. CASE queue'[j] = p
        <4>1. client[c].chan # i
          BY <1>6 DEF Unheard
        <4> QED
          BY <3>2, <4>1, PutOnOwnChannel
      <3> QED
        BY <3>1, <3>2, PutBasics
    <2> QED
      BY <1>3, <1>6, <2>1 DEF Unheard, Puts
  <1>7. \A d, e \in Client : d # e /\ client'[d].chan # 0 => client'[d].chan # client'[e].chan
    BY <1>1, <1>3 DEF Channels
  <1>8. \A i \in Channel : Unused(i)' => Unheard(i)'
    BY <1>1, <1>5, <1>6 DEF Channels
  <1>9. ASSUME NEW d \in Client, NEW k \in 1 .. Len(client'[d].given)
        PROVE  LET r == client'[d].given[k] IN
               /\ r.cid = Listens(d)' /\ r.cid # 0 /\ r.of <= count'
               /\ r.kind = "init" =>
                    /\ r.new \in 1 .. Last'
                    /\ \A e \in Client : \A l \in 1 .. Len(client'[e].given) :
                         client'[e].given[l].kind = "init" /\ client'[e].given[l].new = r.new
                         => client'[e].given[l].of = r.of
    <2>1. k \in 1 .. Len(client[d].given) /\ client'[d].given = client[d].given
      BY <1>3
    <2>2. PICK r : r = client[d].given[k]
      OBVIOUS
    <2>3. /\ r.cid = Listens(d)' /\ r.cid # 0 /\ r.of <= count'
          /\ r.kind = "init" => r.new \in 1 .. Last'
      BY <1>1, <1>2, <1>4, <2>1, <2>2 DEF Channels
    <2>4. ASSUME NEW e \in Client, NEW l \in 1 .. Len(client'[e].given), r.kind = "init",
                 client'[e].given[l].kind = "init", client'[e].given[l].new = r.new
          PROVE  client'[e].given[l].of = r.of
      <3>1. l \in 1 .. Len(client[e].given) /\ client'[e].given = client[e].given
        BY <1>3
      <3> QED
        BY <1>1, <2>1, <2>2, <2>4, <3>1 DEF Channels
    <2> QED
      BY <2>1, <2>2, <2>3, <2>4
  <1> QED
    BY <1>7, <1>8, <1>9 DEF Channels

\* Writing a report keeps the order on the wire.
LEMMA PutWire ==
    ASSUME WireInv, NEW c \in Client, NEW p, NEW n, Puts(c, p, n), NEW i \in Channel \ reused
    PROVE  Wire(i)'
  <1>1. KeyTypes /\ Numbers /\ Wire(i) /\ client[c] \in Program
    BY DEF WireInv, KeyTypes
  <1>2. frames' = frames
    BY DEF Puts
  <1>3. ASSUME p.cid = i, Opens(p)
        PROVE  /\ frames[i] = Idle
               /\ \A j \in 1 .. Len(queue) : queue[j].cid = i => ~Opens(queue[j])
    BY <1>3, PutOnOwnChannel DEF Quiet, NotOpening
  <1>4. ASSUME p.cid = i, Continues(p)
        PROVE  /\ \A j \in 1 .. Len(queue) : queue[j].cid = i /\ Opens(queue[j]) => queue[j].msg = p.msg
               /\ frames[i] # Idle => p.msg = frames[i].msg /\ Len(frames[i].parts) <= client[c].sent
               /\ client[c].sent < p.index
    <2>1. OneAtATime(c) /\ client[c].msg.kind # "init" /\ client[c].chan = i /\ i # 0
      BY <1>4, PutOnOwnChannel DEF Channel
    <2>2. p.msg = client[c].msg.id /\ p.index > client[c].sent
      BY <1>4 DEF Puts
    <2>3. p.index \in Nat /\ client[c].sent \in Nat
      BY <1>1 DEF Puts, Report, Program
    <2> QED
      BY <2>1, <2>2, <2>3 DEF OneAtATime
  <1>5. ASSUME NEW j \in 1 .. Len(queue), p.msg = queue[j].msg, Continues(p)
        PROVE  queue[j].index < p.index
    <2>1. queue[j].index <= client[c].sent
      BY <1>1, <1>5 DEF Numbers, Puts
    <2>2. queue[j] \in Report
      BY <1>1, ElementOfSeq DEF KeyTypes
    <2>3. queue[j].index \in Nat /\ p.index \in Nat /\ client[c].sent \in Nat
      BY <1>1, <2>2 DEF Puts, Report, Program
    <2>4. p.index > client[c].sent
      BY <1>5 DEF Puts
    <2> QED
      BY <2>1, <2>3, <2>4
  <1>6. ASSUME NEW j \in 1 .. Len(queue'), NEW k \in 1 .. Len(queue'),
               j < k, queue'[j].cid = i, queue'[k].cid = i
        PROVE  /\ Opens(queue'[j]) => /\ ~Opens(queue'[k])
                                      /\ Continues(queue'[k]) => queue'[k].msg = queue'[j].msg
               /\ Continues(queue'[j]) /\ Continues(queue'[k]) /\ queue'[j].msg = queue'[k].msg
                  => queue'[j].index < queue'[k].index
    <2>1. j \in 1 .. Len(queue) /\ queue'[j] = queue[j]
      BY <1>6, PutBasics
    <2>2. CASE k \in 1 .. Len(queue) /\ queue'[k] = queue[k]
      BY <1>1, <1>6, <2>1, <2>2 DEF Wire
    <2>3. CASE queue'[k] = p
      BY <1>3, <1>4, <1>5, <1>6, <2>1, <2>3
    <2> QED
      BY <2>2, <2>3, PutBasics
  <1>7. ASSUME frames[i] # Idle, NEW j \in 1 .. Len(queue'), queue'[j].cid = i
        PROVE  /\ ~Opens(queue'[j])
               /\ Continues(queue'[j]) => /\ queue'[j].msg = frames[i].msg
                                          /\ queue'[j].index > Len(frames[i].parts)
    <2>1. CASE j \in 1 .. Len(queue) /\ queue'[j] = queue[j]
      BY <1>1, <1>7, <2>1 DEF Wire
    <2>2. CASE queue'[j] = p
      <3>1. ~Opens(p)
        BY <1>3, <1>7, <2>2
      <3>2. ASSUME Continues(p) PROVE p.msg = frames[i].msg /\ p.index > Len(frames[i].parts)
        <4>1. /\ p.msg = frames[i].msg /\ Len(frames[i].parts) <= client[c].sent
              /\ client[c].sent < p.index
          BY <1>4, <1>7, <2>2, <3>2
        <4>2. p.index \in Nat /\ client[c].sent \in Nat
          BY <1>1 DEF Puts, Report, Program
        <4>3. Len(frames[i].parts) \in Nat
          <5>1. i \in Cid /\ frames[i] \in Transaction
            BY <1>1, Sizes DEF KeyTypes, Channel, Cid
          <5> QED
            BY <5>1, LenProperties DEF Transaction
        <4> QED
          BY <4>1, <4>2, <4>3
      <3> QED
        BY <2>2, <3>1, <3>2
    <2> QED
      BY <2>1, <2>2, PutBasics
  <1>8. frames[i] # Idle => \A k \in 1 .. Len(frames[i].parts) : frames[i].parts[k] = <<frames[i].msg, k>>
    BY <1>1 DEF Wire
  <1> QED
    BY <1>2, <1>6, <1>7, <1>8 DEF Wire, Opens, Continues

\* Writing a report leaves every program with at most one thing under way.
LEMMA PutOneAtATime ==
    ASSUME WireInv, NEW c \in Client, NEW p, NEW n, Puts(c, p, n), NEW d \in Client
    PROVE  OneAtATime(d)'
  <1>1. KeyTypes /\ OneAtATime(d) /\ client[d] \in Program /\ client[c] \in Program
    BY DEF WireInv, KeyTypes
  <1>2. UNCHANGED <<frames, cur, reused>>
    BY DEF Puts
  <1>3. PICK i : i = client[d].chan
    OBVIOUS
  <1>4. client'[d].chan = i /\ client'[d].given = client[d].given /\ client'[d].msg = client[d].msg
    BY <1>3, PutBasics
  <1> SUFFICES ASSUME i # 0, i \notin reused, client[d].msg.kind # "init"
               PROVE  OneAtATime(d)'
    BY <1>2, <1>4 DEF OneAtATime
  <1>5. i \in Channel
    BY <1>1, <1>3, Sizes DEF Program, Channel
  <1>6. ASSUME d # c PROVE p.cid # i
    BY <1>3, <1>5, <1>6, PutOnOwnChannel
  <1>7. ASSUME NEW j \in 1 .. Len(queue'), queue'[j].cid = i
        PROVE  /\ queue'[j].kind # "init"
               /\ Opens(queue'[j]) => queue'[j].msg = client[d].msg.id
    <2>1. CASE j \in 1 .. Len(queue) /\ queue'[j] = queue[j]
      BY <1>1, <1>3, <1>7, <2>1 DEF OneAtATime
    <2>2. CASE queue'[j] = p
      <3>1. d = c
        BY <1>6, <1>7, <2>2
      <3> QED
        BY <2>2, <3>1 DEF Puts
    <2> QED
      BY <2>1, <2>2, PutBasics
  <1>8. ASSUME NotOpening(d), ~Quiet(d) PROVE NotOpening(d)'
    <2>1. ASSUME NEW j \in 1 .. Len(queue'), queue'[j].cid = i PROVE ~Opens(queue'[j])
      <3>1. CASE j \in 1 .. Len(queue) /\ queue'[j] = queue[j]
        BY <1>3, <1>8, <2>1, <3>1 DEF NotOpening
      <3>2. CASE queue'[j] = p
        BY <1>5, <1>6, <1>8, <2>1, <3>2, PutOnOwnChannel
      <3> QED
        BY <3>1, <3>2, PutBasics
    <2> QED
      BY <1>4, <2>1 DEF NotOpening, Opens
  <1>9. ASSUME frames[i] # Idle
        PROVE  frames[i].msg = client[d].msg.id /\ Len(frames[i].parts) <= client'[d].sent
    <2>1. frames[i].msg = client[d].msg.id /\ Len(frames[i].parts) <= client[d].sent
      BY <1>1, <1>3, <1>9 DEF OneAtATime
    <2>2. CASE d # c
      BY <2>1, <2>2, PutBasics
    <2>3. CASE d = c
      <3>1. client[d].sent \in Nat /\ n \in Nat /\ client[d].sent <= n /\ client'[d].sent = n
        BY <1>1, <2>3 DEF Puts, Program, Msg
      <3>2. Len(frames[i].parts) \in Nat
        <4>1. i \in Cid /\ frames[i] \in Transaction
          BY <1>1, <1>5, Sizes DEF KeyTypes, Channel, Cid
        <4> QED
          BY <4>1, LenProperties DEF Transaction
      <3> QED
        BY <2>1, <3>1, <3>2
    <2> QED
      BY <2>2, <2>3
  <1>10. ASSUME cur.cid = i
         PROVE  cur.id = client[d].msg.id /\ NotOpening(d)' /\ frames[i] = Idle /\ client[d].given = <<>>
    <2>1. ~Quiet(d)
      BY <1>3, <1>10 DEF Quiet
    <2> QED
      BY <1>1, <1>3, <1>8, <1>10, <2>1 DEF OneAtATime
  <1>11. ASSUME client[d].given # <<>>
         PROVE  /\ Len(client[d].given) = 1 /\ client[d].given[1].of = client[d].msg.id
                /\ NotOpening(d)' /\ frames[i] = Idle
    <2>1. ~Quiet(d)
      BY <1>11 DEF Quiet
    <2> QED
      BY <1>1, <1>3, <1>8, <1>11, <2>1 DEF OneAtATime
  <1>12. ASSUME client'[d].sent = 0 PROVE Quiet(d)'
    <2>1. d # c
      BY <1>1, <1>12 DEF Puts, Program, Msg
    <2>2. client[d].sent = 0
      BY <1>12, <2>1, PutBasics
    <2>3. Quiet(d)
      BY <1>1, <1>3, <2>2 DEF OneAtATime
    <2>4. NotOpening(d)'
      <3>1. ASSUME NEW j \in 1 .. Len(queue'), queue'[j].cid = i PROVE ~Opens(queue'[j])
        <4>1. j \in 1 .. Len(queue) /\ queue'[j] = queue[j]
          BY <1>6, <2>1, <3>1, PutBasics
        <4> QED
          BY <1>3, <2>3, <3>1, <4>1 DEF Quiet, NotOpening
      <3> QED
        BY <1>4, <3>1 DEF NotOpening, Opens
    <2> QED
      BY <1>2, <1>3, <1>4, <2>3, <2>4 DEF Quiet
  <1> QED
    BY <1>2, <1>4, <1>7, <1>9, <1>10, <1>11, <1>12 DEF OneAtATime, Opens

\* Writing a report keeps the invariant.
LEMMA PutKeeps ==
    ASSUME WireInv, NEW c \in Client, NEW p, NEW n, Puts(c, p, n)
    PROVE  WireInv'
  <1>1. PastIsFit'
    BY DEF WireInv, PastIsFit, FramesAreWhole, Puts
  <1>2. \A i \in Channel \ reused' : Wire(i)'
    BY PutWire DEF Puts
  <1> QED
    BY <1>1, <1>2, PutTypes, PutChannels, PutOneAtATime DEF WireInv

\* A program writes the next report of its message.
LEMMA SendKeeps ==
    ASSUME WireInv, NEW c \in Client, Send(c)
    PROVE  WireInv'
  <1>1. /\ KeyTypes /\ client \in [Client -> Program] /\ client[c] \in Program
        /\ Composed(client[c]) /\ count \in Nat
    BY DEF WireInv, KeyTypes
  <1>2. PICK x \in Program : x = client[c]
    BY <1>1
  <1>3. PICK i : i = x.sent + 1
    OBVIOUS
  <1>4. x.msg # NoMsg /\ x.sent # x.msg.len /\ client' = [client EXCEPT ![c].sent = i]
    BY <1>2, <1>3 DEF Send, Written
  <1>5. /\ x.msg.id \in 1 .. count /\ x.msg.kind # "none" /\ x.msg.len \in 1 .. MaxLen
        /\ x.sent \in 0 .. x.msg.len
        /\ x.msg.cid = IF x.chan = 0 THEN Broadcast ELSE x.chan
        /\ x.chan = 0 => x.msg.kind = "init"
        /\ x.msg.kind = "init" => x.msg.len = 1
        /\ x.msg.kind \in Kind /\ x.msg.cid \in Cid
    BY <1>1, <1>2, <1>4 DEF Composed, Program, Msg
  <1>6. i \in 1 .. x.msg.len /\ x.msg.len \in Nat /\ x.sent \in Nat /\ x.msg.len <= SeqMod + 1
    BY <1>3, <1>4, <1>5, Sizes
  <1>7. PICK s : s = IF i = 1 THEN Start ELSE (i - 2) % SeqMod
    OBVIOUS
  <1>8. s = IF i = 1 THEN Start ELSE i - 2
    <2>1. i # 1 => i - 2 \in 0 .. SeqMod - 1
      BY <1>6, Sizes
    <2> QED
      BY <1>7, <2>1, SmallModulo
  <1>9. PICK p : p = [cid |-> x.msg.cid, kind |-> x.msg.kind, len |-> x.msg.len,
                      msg |-> x.msg.id, index |-> i, seq |-> s]
    OBVIOUS
  <1>10. Write(p)
    BY <1>2, <1>3, <1>7, <1>9 DEF Send
  <1>11. /\ p.cid = x.msg.cid /\ p.kind = x.msg.kind /\ p.len = x.msg.len
         /\ p.msg = x.msg.id /\ p.index = i /\ p.seq = s
    BY <1>9
  <1>12. p \in Report
    <2>1. i \in Nat \ {0} /\ s \in Int /\ x.msg.id \in Nat
      BY <1>1, <1>5, <1>6, <1>8 DEF Start
    <2> QED
      BY <1>5, <1>6, <1>9, <2>1 DEF Report
  <1>13. x.msg.kind \notin {"cancel", "short"}
    BY <1>5 DEF Kind, Ceremony
  <1>14. x.chan # 0 => x.msg.cid \in Channel
    BY <1>5, Sizes DEF Program, Channel
  <1>15. x.chan = 0 => x.msg.cid \notin Channel /\ x.msg.len = 1 /\ i = 1
    BY <1>5, <1>6, Sizes DEF Channel
  <1>16. Sound(p)
    <2>1. p.msg <= count /\ p.msg # 0
      BY <1>1, <1>5, <1>11
    <2>2. p.seq = IF p.index = 1 THEN Start ELSE p.index - 2
      BY <1>8, <1>11
    <2>3. p.cid \in Channel =>
            /\ p.kind # "short" /\ p.msg # 0
            /\ p.len \in 1 .. MaxLen /\ p.index \in 1 .. p.len
            /\ p.kind \in {"init", "cancel"} => p.len = 1
      BY <1>5, <1>6, <1>11, <1>13, <2>1
    <2>4. p.cid \notin Channel =>
            /\ p.index = 1 /\ p.kind # "cancel"
            /\ IsInit(p.kind) => p.len = 1 \/ p.len > MaxLen
      BY <1>11, <1>13, <1>14, <1>15
    <2> QED
      BY <2>1, <2>2, <2>3, <2>4 DEF Sound
  <1>17. /\ client'[c] \in Program /\ client'[c].chan = x.chan /\ client'[c].msg = x.msg
         /\ client'[c].given = x.given /\ client'[c].sent = i
         /\ client' = [client EXCEPT ![c] = client'[c]]
    <2>1. client'[c] = [x EXCEPT !.sent = i]
      BY <1>1, <1>2, <1>4
    <2>2. /\ [x EXCEPT !.sent = i] \in Program /\ [x EXCEPT !.sent = i].chan = x.chan
          /\ [x EXCEPT !.sent = i].msg = x.msg /\ [x EXCEPT !.sent = i].given = x.given
          /\ [x EXCEPT !.sent = i].sent = i
      BY <1>6 DEF Program
    <2>3. client' = [client EXCEPT ![c] = [x EXCEPT !.sent = i]]
      BY <1>2, <1>4
    <2> QED
      BY <2>1, <2>2, <2>3
  <1>18. /\ p.kind = "init" => x.msg.kind = "init" /\ x.sent = 0
         /\ x.msg.kind # "init" => p.kind # "init"
         /\ Opens(p) => x.sent = 0 /\ x.msg.kind # "init"
         /\ Continues(p) => x.msg.kind # "init" /\ p.index > x.sent
    <2>1. x.msg.kind = "init" => x.sent = 0
      BY <1>5, <1>6, <1>3
    <2>2. p.seq = Start <=> i = 1
      BY <1>6, <1>8, <1>11 DEF Start
    <2>3. i = 1 => x.sent = 0
      BY <1>3, <1>6
    <2>4. i # 1 => x.msg.kind # "init"
      BY <1>5, <1>6
    <2>5. i > x.sent
      BY <1>3, <1>6
    <2> QED
      BY <1>11, <2>1, <2>2, <2>3, <2>4, <2>5 DEF Opens, Continues
  <1>19. x.sent <= i /\ p.index <= i
    BY <1>3, <1>6, <1>11
  <1>20. UNCHANGED <<count, frames, nextCid, at, cur, reused, torn, misread>>
    BY DEF Send, frameVars, threadVars, pastVars
  <1>21. Puts(c, p, i)
    BY <1>2, <1>4, <1>6, <1>10, <1>11, <1>12, <1>16, <1>17, <1>18, <1>19, <1>20 DEF Puts
  <1> QED
    BY <1>21, PutKeeps

\* A program cancels what it waits for.
LEMMA CancelKeeps ==
    ASSUME WireInv, NEW c \in Client, Cancel(c)
    PROVE  WireInv'
  <1>1. /\ KeyTypes /\ client \in [Client -> Program] /\ client[c] \in Program
        /\ Composed(client[c]) /\ count \in Nat
    BY DEF WireInv, KeyTypes
  <1>2. PICK x \in Program : x = client[c]
    BY <1>1
  <1>3. /\ x.msg # NoMsg /\ x.sent = x.msg.len /\ x.msg.kind \in Ceremony
        /\ client' = [client EXCEPT ![c].cancelled = TRUE]
    BY <1>2 DEF Cancel, Waiting, Written
  <1>4. /\ x.msg.id \in 1 .. count /\ x.msg.len \in 1 .. MaxLen
        /\ x.msg.cid = IF x.chan = 0 THEN Broadcast ELSE x.chan
        /\ x.chan # 0 /\ x.msg.kind # "init"
    BY <1>1, <1>2, <1>3 DEF Composed, Ceremony
  <1>5. x.msg.cid = x.chan /\ x.chan \in Channel /\ x.chan \in Cid
    BY <1>4, Sizes DEF Program, Channel, Cid
  <1>6. PICK p : p = [cid |-> x.msg.cid, kind |-> "cancel", len |-> 1,
                      msg |-> x.msg.id, index |-> 1, seq |-> Start]
    OBVIOUS
  <1>7. /\ p.cid = x.msg.cid /\ p.kind = "cancel" /\ p.len = 1
        /\ p.msg = x.msg.id /\ p.index = 1 /\ p.seq = Start
    BY <1>6
  <1>8. Write(p)
    BY <1>2, <1>6 DEF Cancel
  <1>9. p \in Report
    <2>1. x.msg.id \in Nat
      BY <1>1, <1>4
    <2> QED
      BY <1>5, <1>6, <2>1 DEF Report, Start
  <1>10. Sound(p)
    <2>1. p.msg <= count /\ p.msg # 0 /\ p.len \in 1 .. MaxLen /\ p.index \in 1 .. p.len
      BY <1>1, <1>4, <1>7, Sizes
    <2> QED
      BY <1>5, <1>7, <2>1 DEF Sound
  <1>11. /\ client'[c] \in Program /\ client'[c].chan = x.chan /\ client'[c].msg = x.msg
         /\ client'[c].given = x.given /\ client'[c].sent = x.sent
         /\ client' = [client EXCEPT ![c] = client'[c]]
    <2>1. client'[c] = [x EXCEPT !.cancelled = TRUE]
      BY <1>1, <1>2, <1>3
    <2>2. /\ [x EXCEPT !.cancelled = TRUE] \in Program
          /\ [x EXCEPT !.cancelled = TRUE].chan = x.chan
          /\ [x EXCEPT !.cancelled = TRUE].msg = x.msg
          /\ [x EXCEPT !.cancelled = TRUE].given = x.given
          /\ [x EXCEPT !.cancelled = TRUE].sent = x.sent
      BY DEF Program
    <2>3. client' = [client EXCEPT ![c] = [x EXCEPT !.cancelled = TRUE]]
      BY <1>2, <1>3
    <2> QED
      BY <2>1, <2>2, <2>3
  <1>12. x.sent \in 1 .. x.msg.len /\ x.sent <= x.sent /\ p.index <= x.sent
    BY <1>3, <1>4, <1>7, Sizes
  <1>13. ~Opens(p) /\ ~Continues(p)
    BY <1>7 DEF Opens, Continues
  <1>14. UNCHANGED <<count, frames, nextCid, at, cur, reused, torn, misread>>
    BY DEF Cancel, frameVars, threadVars, pastVars
  <1>15. Puts(c, p, x.sent)
    BY <1>2, <1>3, <1>4, <1>7, <1>8, <1>9, <1>10, <1>11, <1>12, <1>13, <1>14 DEF Puts
  <1> QED
    BY <1>15, PutKeeps

\* A request is begun, or an INIT for what is waited for.
LEMMA StartKeeps ==
    ASSUME WireInv, NEW c \in Client, NEW a \in Asks \cup {<<"init", 1>>},
           StartMessage(c, a[1], a[2])
    PROVE  WireInv'
  <1>1. a[1] \in Kind /\ a[2] \in 1 .. MaxLen /\ (a[1] = "init" => a[2] = 1)
    <2>1. CASE a \in Asks
      <3>1. a \in (Kind \ {"init"}) \X (1 .. MaxLen)
        BY <2>1, KeyAssumption
      <3> QED
        BY <3>1
    <2>2. CASE a = <<"init", 1>>
      BY <2>2, Sizes DEF Kind
    <2> QED
      BY <2>1, <2>2
  <1>2. /\ client[c].msg = NoMsg /\ (client[c].chan = 0 <=> a[1] = "init")
        /\ Compose(c, a[1], a[2])
        /\ UNCHANGED <<queue, frames, nextCid, at, cur, reused, torn, misread>>
    BY DEF StartMessage, frameVars, threadVars, pastVars
  <1> QED
    BY <1>1, <1>2, ComposeKeeps

\* An INIT is begun on the program's own channel.
LEMMA ResyncKeeps ==
    ASSUME WireInv, NEW c \in Client, Resync(c)
    PROVE  WireInv'
  <1>1. "init" \in Kind /\ 1 \in 1 .. MaxLen
    BY Sizes DEF Kind
  <1>2. /\ client[c].msg # NoMsg /\ client[c].chan # 0 /\ Compose(c, "init", 1)
        /\ UNCHANGED <<queue, frames, nextCid, at, cur, reused, torn, misread>>
    BY DEF Resync, Waiting, frameVars, threadVars, pastVars
  <1> QED
    BY <1>1, <1>2, ComposeKeeps

\* A malformed report concerns no program.
LEMMA StrayKeeps ==
    ASSUME WireInv, Stray
    PROVE  WireInv'
  <1>1. KeyTypes /\ Numbers /\ Channels /\ count \in Nat /\ queue \in Seq(Report)
    BY DEF WireInv, KeyTypes
  <1>2. /\ count < MaxMsg /\ count' = count + 1
        /\ UNCHANGED <<client, frames, nextCid, at, cur, reused, torn, misread>>
    BY DEF Stray, frameVars, threadVars, pastVars
  <1>3. PICK p \in Malformed : Write(p)
    BY DEF Stray
  <1>4. /\ p.cid \in {0, Broadcast} /\ p.kind \in {"now", "init", "short"} /\ p.msg = 0
        /\ p.index = 1 /\ p.seq = Start /\ p.len \in {1, MaxLen + 1}
        /\ p.kind = "init" => p.len = MaxLen + 1
    BY DEF Malformed
  <1>5. /\ p.cid \notin Channel /\ p.cid \in Cid /\ MaxLen \in Nat /\ MaxLen >= 1
        /\ ~(p.kind = "init" /\ p.len = 1)
    BY <1>4, Sizes DEF Channel, Cid
  <1>6. p \in Report
    <2>1. p \in [cid : Cid, kind : {"now", "init", "short"}, len : Nat, msg : Nat,
                 index : Nat \ {0}, seq : Int]
      BY <1>5 DEF Malformed, Start, Cid
    <2> QED
      BY <2>1 DEF Report, Kind
  <1>7. /\ queue' \in Seq(Report) /\ Len(queue) \in Nat /\ Len(queue') \in Nat
        /\ \A j \in 1 .. Len(queue') :
             \/ j \in 1 .. Len(queue) /\ queue'[j] = queue[j]
             \/ j = Len(queue) + 1 /\ queue'[j] = p
    BY <1>1, <1>3, <1>6, Enqueued, LenProperties
  <1>8. KeyTypes'
    <2>1. ASSUME NEW j \in 1 .. Len(queue') PROVE Sound(queue[j])'
      <3>1. CASE j \in 1 .. Len(queue) /\ queue'[j] = queue[j]
        <4>1. Sound(queue[j]) /\ queue[j] \in Report
          BY <1>1, <3>1, ElementOfSeq DEF KeyTypes
        <4>2. queue[j].msg <= count'
          BY <1>1, <1>2, <4>1 DEF Sound, Report
        <4> QED
          BY <3>1, <4>1, <4>2 DEF Sound
      <3>2. CASE queue'[j] = p
        <4>1. p.msg <= count' /\ (p.len = 1 \/ p.len > MaxLen)
          BY <1>1, <1>2, <1>4, <1>5
        <4>2. p.kind # "cancel"
          BY <1>4
        <4> QED
          BY <1>4, <1>5, <3>2, <4>1, <4>2 DEF Sound
      <3> QED
        BY <1>7, <3>1, <3>2
    <2>2. ASSUME NEW d \in Client PROVE Composed(client[d])'
      <3>1. Composed(client[d])
        BY <1>1 DEF KeyTypes
      <3>2. client[d].msg # NoMsg => client[d].msg.id \in 1 .. count'
        BY <1>1, <1>2, <3>1 DEF Composed
      <3> QED
        BY <1>2, <3>1, <3>2 DEF Composed
    <2>3. ASSUME NEW i \in Cid, frames[i] # Idle PROVE i \in Channel /\ Partial(frames[i])'
      <3>1. i \in Channel /\ Partial(frames[i])
        BY <1>1, <2>3 DEF KeyTypes
      <3>2. frames[i].msg \in 1 .. count'
        BY <1>1, <1>2, <3>1 DEF Partial
      <3> QED
        BY <1>2, <3>1, <3>2 DEF Partial
    <2>4. IF at \in {"recv", "gone"} THEN cur = NoMsg
          ELSE cur.cid \in Channel /\ cur.id \in 1 .. count'
      BY <1>1, <1>2 DEF KeyTypes
    <2>5. count' \in Nat
      BY <1>1, <1>2
    <2> QED
      BY <1>1, <1>2, <1>7, <2>1, <2>2, <2>3, <2>4, <2>5 DEF KeyTypes
  <1>9. Numbers'
    <2>1. Inits' \subseteq Inits
      <3>1. ASSUME NEW j \in 1 .. Len(queue'), queue'[j].kind = "init", queue'[j].len = 1
            PROVE  queue'[j].msg \in Inits
        BY <1>5, <1>7, <3>1, InitMember
      <3> QED
        BY <1>2, <3>1, InitMember, InitMemberNext
    <2>2. Cardinality(Inits') <= Cardinality(Inits) /\ Cardinality(Inits') \in Nat
          /\ Cardinality(Inits) \in Nat
      BY <1>1, <2>1, InitsFinite, FS_Subset, FS_CardinalityType
    <2>3. Last \in Nat /\ Last' = Last
      <3>1. nextCid \in Channel
        BY <1>1 DEF KeyTypes
      <3> QED
        BY <1>2, <3>1, Sizes DEF Last, Channel
    <2>4. Last' + Cardinality(Inits') <= count' /\ count' <= MaxMsg
      BY <1>1, <1>2, <2>2, <2>3, Sizes DEF Numbers
    <2>5. ASSUME NEW d \in Client, NEW j \in 1 .. Len(queue'),
                 client[d].msg # NoMsg, queue'[j].msg = client[d].msg.id
          PROVE  queue'[j].index <= client[d].sent
      <3>1. queue'[j] # p
        BY <1>1, <1>4, <2>5 DEF KeyTypes, Composed
      <3> QED
        BY <1>1, <1>7, <2>5, <3>1 DEF Numbers
    <2>6. ASSUME NEW j \in 1 .. Len(queue'), NEW k \in 1 .. Len(queue'),
                 j # k, queue'[j].kind = "init", queue'[k].kind = "init",
                 queue'[j].len = 1, queue'[k].len = 1
          PROVE  queue'[j].msg # queue'[k].msg
      <3>1. /\ j \in 1 .. Len(queue) /\ queue'[j] = queue[j]
            /\ k \in 1 .. Len(queue) /\ queue'[k] = queue[k]
        BY <1>5, <1>7, <2>6
      <3> QED
        BY <1>1, <2>6, <3>1 DEF Numbers
    <2> QED
      BY <1>1, <1>2, <2>4, <2>5, <2>6 DEF Numbers
  <1>10. Channels'
    <2>1. Last' = Last
      BY <1>2 DEF Last
    <2>2. \A i \in Channel : Unused(i)' => Unused(i)
      BY <1>2, <2>1 DEF Unused, Promised
    <2>3. \A i \in Channel : Unheard(i) => Unheard(i)'
      BY <1>2, <1>5, <1>7 DEF Unheard
    <2>4. ASSUME NEW d \in Client, NEW k \in 1 .. Len(client[d].given)
          PROVE  client[d].given[k].of <= count'
      <3>1. client[d] \in Program
        BY <1>1 DEF KeyTypes
      <3>2. client[d].given[k] \in Answering
        BY <3>1, ElementOfSeq DEF Program
      <3>3. client[d].given[k].of <= count
        BY <1>1 DEF Channels
      <3> QED
        BY <1>1, <1>2, <3>2, <3>3 DEF Answering
    <2>5. \A i \in Channel : Unused(i)' => Unheard(i)'
      BY <1>1, <2>2, <2>3 DEF Channels
    <2>6. \A d \in Client : Listens(d)' = Listens(d)
      BY <1>2 DEF Listens
    <2> QED
      BY <1>1, <1>2, <2>1, <2>4, <2>5, <2>6 DEF Channels
  <1>11. ASSUME NEW i \in Channel \ reused' PROVE Wire(i)'
    <2>1. Wire(i)
      BY <1>2 DEF WireInv
    <2>2. \A j \in 1 .. Len(queue') : queue'[j].cid = i => j \in 1 .. Len(queue) /\ queue'[j] = queue[j]
      BY <1>5, <1>7
    <2> QED
      BY <1>2, <2>1, <2>2 DEF Wire, Opens, Continues
  <1>12. ASSUME NEW d \in Client PROVE OneAtATime(d)'
    <2>1. OneAtATime(d) /\ client[d] \in Program
      BY <1>1 DEF WireInv, KeyTypes
    <2> SUFFICES ASSUME client[d].chan # 0 PROVE OneAtATime(d)'
      BY <1>2 DEF OneAtATime
    <2>2. client[d].chan \in Channel
      BY <2>1, Sizes DEF Program, Channel
    <2>3. \A j \in 1 .. Len(queue') :
            queue'[j].cid = client[d].chan => j \in 1 .. Len(queue) /\ queue'[j] = queue[j]
      BY <1>5, <1>7, <2>2
    <2>4. NotOpening(d) => NotOpening(d)'
      BY <1>2, <2>3 DEF NotOpening, Opens
    <2> QED
      BY <1>2, <2>1, <2>3, <2>4 DEF OneAtATime, Quiet, Opens
  <1>13. PastIsFit'
    BY <1>2 DEF WireInv, PastIsFit, FramesAreWhole
  <1> QED
    BY <1>8, <1>9, <1>10, <1>11, <1>12, <1>13 DEF WireInv

\* A program stops waiting: it rests, is gone, or has a channel nobody used.
LEMMA RestKeeps ==
    ASSUME WireInv, NEW c \in Client, NEW x \in Program,
           client' = [client EXCEPT ![c] = x],
           UNCHANGED <<queue, count, frames, nextCid, at, cur, torn>>,
           reused \subseteq reused', reused' \subseteq reused \cup {client[c].chan},
           reused' \subseteq Channel, misread' \subseteq reused',
           \/ x.msg = NoMsg /\ x.sent = 0
           \/ x.msg = client[c].msg /\ x.sent = client[c].sent /\ x.chan = client[c].chan,
           \A k \in 1 .. Len(x.given) :
              /\ x.given[k].cid = IF x.msg = NoMsg THEN x.chan ELSE x.msg.cid
              /\ \E l \in 1 .. Len(client[c].given) : x.given[k] = client[c].given[l],
           \/ x.chan \in {0, client[c].chan}
           \/ Unheard(x.chan) /\ ~Unused(x.chan)',
           OneAtATime(c)'
    PROVE  WireInv'
  <1>1. KeyTypes /\ Numbers /\ Channels /\ client \in [Client -> Program]
    BY DEF WireInv, KeyTypes
  <1>2. client'[c] = x /\ \A d \in Client \ {c} : client'[d] = client[d]
    BY <1>1
  <1>3. client' \in [Client -> Program]
    BY <1>1
  <1>4. KeyTypes'
    <2>1. ASSUME NEW d \in Client PROVE Composed(client[d])'
      <3>1. Composed(client[d])
        BY <1>1 DEF KeyTypes
      <3>2. CASE d = c /\ x.msg = NoMsg /\ x.sent = 0
        BY <1>2, <3>2 DEF Composed
      <3>3. CASE d = c /\ x.msg = client[c].msg /\ x.sent = client[c].sent
                 /\ x.chan = client[c].chan
        BY <1>2, <3>1, <3>3 DEF Composed
      <3>4. CASE d # c
        BY <1>2, <3>1, <3>4 DEF Composed
      <3> QED
        BY <3>2, <3>3, <3>4
    <2>2. \A j \in 1 .. Len(queue) : Sound(queue[j])'
      BY <1>1 DEF KeyTypes, Sound
    <2>3. \A i \in Cid : frames[i] # Idle => i \in Channel /\ Partial(frames[i])'
      BY <1>1 DEF KeyTypes, Partial
    <2> QED
      BY <1>1, <1>3, <2>1, <2>2, <2>3 DEF KeyTypes
  <1>5. x.msg # NoMsg => x.msg = client[c].msg /\ x.sent = client[c].sent
    OBVIOUS
  <1>6. Numbers'
    <2>1. Inits' \subseteq Inits
      <3>1. ASSUME NEW d \in Client, client'[d].msg.kind = "init", client'[d].sent = 0
            PROVE  client'[d].msg.id \in Inits
        <4>1. CASE d = c
          <5>1. x.msg # NoMsg
            BY <1>2, <3>1, <4>1 DEF NoMsg
          <5> QED
            BY <1>2, <1>5, <3>1, <4>1, <5>1, InitMember
        <4>2. CASE d # c
          <5>1. client'[d] = client[d]
            BY <1>2, <4>2
          <5> QED
            BY <3>1, <5>1, InitMember
        <4> QED
          BY <4>1, <4>2
      <3> QED
        BY <3>1, InitMember, InitMemberNext
    <2>2. Cardinality(Inits') <= Cardinality(Inits) /\ Cardinality(Inits') \in Nat
          /\ Cardinality(Inits) \in Nat
      BY <1>1, <2>1, InitsFinite, FS_Subset, FS_CardinalityType
    <2>3. Last \in Nat /\ Last' = Last /\ count \in Nat
      <3>1. nextCid \in Channel /\ count \in Nat
        BY <1>1 DEF KeyTypes
      <3> QED
        BY <3>1, Sizes DEF Last, Channel
    <2>4. Last' + Cardinality(Inits') <= count' /\ count' <= MaxMsg
      BY <1>1, <2>2, <2>3, Sizes DEF Numbers
    <2>5. \A d \in Client : client'[d].msg # NoMsg =>
            client[d].msg = client'[d].msg /\ client'[d].sent = client[d].sent
      BY <1>2, <1>5
    <2>6. ASSUME NEW d \in Client, NEW e \in Client, d # e, client'[d].msg # NoMsg
          PROVE  client'[d].msg.id # client'[e].msg.id
      <3>1. client[d].msg = client'[d].msg /\ client[d].msg.id # client[e].msg.id
        BY <1>1, <2>5, <2>6 DEF Numbers
      <3>2. CASE client'[e].msg # NoMsg
        BY <2>5, <3>1, <3>2
      <3>3. CASE client'[e].msg = NoMsg
        <4>1. client[d].msg.id # 0
          BY <1>1, <2>6, <3>1 DEF KeyTypes, Composed
        <4> QED
          BY <3>1, <3>3, <4>1 DEF NoMsg
      <3> QED
        BY <3>2, <3>3
    <2>7. ASSUME NEW d \in Client, NEW j \in 1 .. Len(queue),
                 client'[d].msg # NoMsg, queue[j].msg = client'[d].msg.id
          PROVE  queue[j].index <= client'[d].sent
      BY <1>1, <2>5, <2>7 DEF Numbers
    <2> QED
      BY <1>1, <2>4, <2>6, <2>7 DEF Numbers
  <1>7. Last' = Last
    BY DEF Last
  <1>8. ASSUME NEW d \in Client, NEW k \in 1 .. Len(client'[d].given)
        PROVE  \E l \in 1 .. Len(client[d].given) : client'[d].given[k] = client[d].given[l]
    BY <1>2, <1>8
  <1>9. ASSUME NEW i \in Channel, Unused(i)' PROVE Unused(i)
    <2>1. ASSUME NEW d \in Client, NEW k \in 1 .. Len(client'[d].given), Promised(d, k)',
                 client'[d].given[k].new = i
          PROVE  Unused(i)
      <3>1. PICK l \in 1 .. Len(client[d].given) : client'[d].given[k] = client[d].given[l]
        BY <1>8
      <3>2. client'[d].msg = client[d].msg
        BY <1>2, <1>5, <2>1 DEF Promised
      <3>3. Promised(d, l)
        BY <2>1, <3>1, <3>2 DEF Promised
      <3> QED
        BY <2>1, <3>1, <3>3 DEF Unused
    <2> QED
      BY <1>7, <1>9, <2>1 DEF Unused
  <1>10. ASSUME NEW i \in Channel, Unused(i)' PROVE Unheard(i)'
    <2>1. Unheard(i)
      BY <1>1, <1>9, <1>10 DEF Channels
    <2>2. i \notin reused'
      BY <2>1 DEF Unheard
    <2>3. client'[c].chan # i
      BY <1>2, <1>10, <2>1, Sizes DEF Unheard, Channel
    <2> QED
      BY <1>2, <2>1, <2>2, <2>3 DEF Unheard
  <1>11. \A d, e \in Client : d # e /\ client'[d].chan # 0 => client'[d].chan # client'[e].chan
    <2>1. \A d \in Client : x.chan # 0 /\ d # c => x.chan # client[d].chan
      BY <1>1 DEF Channels, Unheard
    <2> QED
      BY <1>1, <1>2, <2>1 DEF Channels
  <1>12. Channels'
    <2>1. ASSUME NEW d \in Client, NEW k \in 1 .. Len(client'[d].given),
                 NEW r, r = client'[d].given[k]
          PROVE  /\ r.cid = Listens(d)' /\ r.cid # 0 /\ r.of <= count'
                 /\ r.kind = "init" =>
                      /\ r.new \in 1 .. Last'
                      /\ \A e \in Client : \A l \in 1 .. Len(client'[e].given) :
                           client'[e].given[l].kind = "init" /\ client'[e].given[l].new = r.new
                           => client'[e].given[l].of = r.of
      <3>1. PICK m \in 1 .. Len(client[d].given) : client'[d].given[k] = client[d].given[m]
        BY <1>8
      <3>2. r = client[d].given[m]
        BY <2>1, <3>1
      <3>3. /\ r.cid = Listens(d) /\ r.cid # 0 /\ r.of <= count'
            /\ r.kind = "init" => r.new \in 1 .. Last'
        BY <1>1, <1>7, <3>1, <3>2 DEF Channels
      <3>4. r.cid = Listens(d)'
        <4>1. CASE d = c
          <5>1. k \in 1 .. Len(x.given) /\ x.given[k] = r
            BY <1>2, <2>1, <3>1, <3>2, <4>1
          <5>2. r.cid = IF x.msg = NoMsg THEN x.chan ELSE x.msg.cid
            BY <5>1
          <5> QED
            BY <1>2, <4>1, <5>2 DEF Listens
        <4>2. CASE d # c
          BY <1>2, <3>3, <4>2 DEF Listens
        <4> QED
          BY <4>1, <4>2
      <3>5. ASSUME NEW e \in Client, NEW l \in 1 .. Len(client'[e].given), r.kind = "init",
                   client'[e].given[l].kind = "init", client'[e].given[l].new = r.new
            PROVE  client'[e].given[l].of = r.of
        <4>1. PICK n \in 1 .. Len(client[e].given) : client'[e].given[l] = client[e].given[n]
          BY <1>8
        <4>2. /\ client[e].given[n].kind = "init" /\ client[e].given[n].new = r.new
              => client[e].given[n].of = r.of
          BY <1>1, <3>2, <3>5 DEF Channels
        <4> QED
          BY <3>5, <4>1, <4>2
      <3> QED
        BY <3>3, <3>4, <3>5
    <2> QED
      BY <1>10, <1>11, <2>1 DEF Channels
  <1>13. ASSUME NEW i \in Channel \ reused' PROVE Wire(i)'
    <2>1. Wire(i)
      BY DEF WireInv
    <2> QED
      BY <2>1 DEF Wire
  <1>14. ASSUME NEW d \in Client PROVE OneAtATime(d)'
    <2>1. CASE d # c
      <3>1. client'[d] = client[d] /\ OneAtATime(d)
        BY <1>2, <2>1 DEF WireInv
      <3> QED
        BY <3>1 DEF OneAtATime, Quiet, NotOpening
    <2>2. CASE d = c
      BY <2>2
    <2> QED
      BY <2>1, <2>2
  <1>15. PastIsFit'
    BY DEF WireInv, PastIsFit, FramesAreWhole
  <1> QED
    BY <1>4, <1>6, <1>12, <1>13, <1>14, <1>15 DEF WireInv

\* Nobody is told anything on no channel, and a program without one is at peace.
LEMMA NoClientIs ==
    /\ NoClient \in Program /\ NoClient.chan = 0 /\ NoClient.msg = NoMsg
    /\ NoClient.sent = 0 /\ NoClient.given = <<>> /\ Len(NoClient.given) = 0
    /\ \A i \in Channel :
         /\ [NoClient EXCEPT !.chan = i] \in Program /\ [NoClient EXCEPT !.chan = i].chan = i
         /\ [NoClient EXCEPT !.chan = i].msg = NoMsg /\ [NoClient EXCEPT !.chan = i].sent = 0
         /\ [NoClient EXCEPT !.chan = i].given = <<>>
  <1>1. <<>> \in Seq(Answering) /\ Len(<<>>) = 0
    BY EmptySeq
  <1>2. 0 \in 0 .. Broadcast - 1
    BY Sizes
  <1>3. /\ NoClient.chan = 0 /\ NoClient.msg = NoMsg /\ NoClient.sent = 0 /\ NoClient.given = <<>>
    BY DEF NoClient
  <1>4. NoClient \in Program
    BY <1>1, <1>2, IdleType DEF NoClient, Program
  <1>5. ASSUME NEW i \in Channel
        PROVE  /\ [NoClient EXCEPT !.chan = i] \in Program
               /\ [NoClient EXCEPT !.chan = i].chan = i
               /\ [NoClient EXCEPT !.chan = i].msg = NoMsg
               /\ [NoClient EXCEPT !.chan = i].sent = 0
               /\ [NoClient EXCEPT !.chan = i].given = <<>>
    <2>1. i \in 0 .. Broadcast - 1
      BY Sizes DEF Channel
    <2>2. PICK x \in Program : x = NoClient
      BY <1>4
    <2>3. /\ [x EXCEPT !.chan = i] \in Program /\ [x EXCEPT !.chan = i].chan = i
          /\ [x EXCEPT !.chan = i].msg = x.msg /\ [x EXCEPT !.chan = i].sent = x.sent
          /\ [x EXCEPT !.chan = i].given = x.given
      BY <2>1 DEF Program
    <2> QED
      BY <1>3, <2>2, <2>3
  <1> QED
    BY <1>1, <1>3, <1>4, <1>5

\* What a resting program keeps.
LEMMA RestedIs ==
    ASSUME NEW x \in Program
    PROVE  /\ Rested(x) \in Program /\ Rested(x).chan = x.chan /\ Rested(x).given = x.given
           /\ Rested(x).msg = NoMsg /\ Rested(x).sent = 0
  BY IdleType DEF Rested, Program

\* On a channel of its own a program that waits is told what is for that channel.
LEMMA OwnAnswers ==
    ASSUME WireInv, NEW c \in Client, NEW k \in 1 .. Len(client[c].given)
    PROVE  /\ client[c].given[k].cid = Listens(c) /\ client[c].given[k].of <= count
           /\ client[c].given[k] \in Answering
           /\ client[c].chan # 0 => client[c].given[k].cid = client[c].chan
           /\ client[c].given[k].kind = "init" => client[c].given[k].new \in 1 .. Last
  <1>1. KeyTypes /\ Channels /\ Composed(client[c]) /\ client[c] \in Program
    BY DEF WireInv, KeyTypes
  <1>2. /\ client[c].given[k].cid = Listens(c) /\ client[c].given[k].of <= count
        /\ client[c].given[k].kind = "init" => client[c].given[k].new \in 1 .. Last
    BY <1>1 DEF Channels
  <1>3. client[c].given[k] \in Answering
    BY <1>1, ElementOfSeq DEF Program
  <1>4. client[c].chan # 0 => Listens(c) = client[c].chan
    BY <1>1 DEF Listens, Composed
  <1> QED
    BY <1>2, <1>3, <1>4

\* A program stops waiting, or is gone.
LEMMA GiveUpKeeps ==
    ASSUME WireInv, NEW c \in Client, GiveUp(c)
    PROVE  WireInv'
  <1>1. /\ KeyTypes /\ client[c] \in Program /\ reused \subseteq Channel
        /\ misread \subseteq reused
    BY DEF WireInv, KeyTypes, PastIsFit
  <1>2. UNCHANGED <<queue, count, frames, nextCid, at, cur, torn, misread>>
    BY DEF GiveUp, wireVars, frameVars, threadVars
  <1>3. CASE client' = [client EXCEPT ![c] = NoClient] /\ reused' = reused
    <2>1. client'[c].chan = 0
      BY <1>1, <1>3, NoClientIs DEF KeyTypes
    <2>2. OneAtATime(c)'
      BY <2>1 DEF OneAtATime
    <2>3. \A k \in 1 .. Len(NoClient.given) : FALSE
      BY NoClientIs
    <2> QED
      BY <1>1, <1>2, <1>3, <2>2, <2>3, NoClientIs, RestKeeps
  <1>4. CASE /\ client[c].chan # 0 /\ client' = [client EXCEPT ![c] = Rested(client[c])]
             /\ reused' = reused \cup {client[c].chan}
    <2>1. client[c].chan \in Channel
      BY <1>1, <1>4, Sizes DEF Program, Channel
    <2>2. PICK x \in Program : x = Rested(client[c])
      BY <1>1, RestedIs
    <2>3. x.chan = client[c].chan /\ x.given = client[c].given /\ x.msg = NoMsg /\ x.sent = 0
      BY <1>1, <2>2, RestedIs
    <2>4. OneAtATime(c)'
      <3>1. client'[c] = x
        BY <1>1, <1>4, <2>2 DEF KeyTypes
      <3> QED
        BY <1>4, <2>3, <3>1 DEF OneAtATime
    <2>5. \A k \in 1 .. Len(x.given) :
            /\ x.given[k].cid = IF x.msg = NoMsg THEN x.chan ELSE x.msg.cid
            /\ \E l \in 1 .. Len(client[c].given) : x.given[k] = client[c].given[l]
      BY <1>4, <2>3, OwnAnswers
    <2>6. /\ reused \subseteq reused' /\ reused' \subseteq reused \cup {client[c].chan}
          /\ reused' \subseteq Channel /\ misread' \subseteq reused'
      BY <1>1, <1>2, <1>4, <2>1
    <2>7. client' = [client EXCEPT ![c] = x]
      BY <1>4, <2>2
    <2> QED
      BY <1>2, <2>3, <2>4, <2>5, <2>6, <2>7, RestKeeps
  <1> QED
    BY <1>3, <1>4 DEF GiveUp

\* A program takes an answer.
LEMMA TakeAnswerKeeps ==
    ASSUME WireInv, NEW c \in Client, TakeAnswer(c)
    PROVE  WireInv'
  <1>1. /\ KeyTypes /\ Numbers /\ Channels /\ OneAtATime(c) /\ client[c] \in Program
        /\ client \in [Client -> Program]
        /\ Composed(client[c]) /\ reused \subseteq Channel /\ misread \subseteq reused
    BY DEF WireInv, KeyTypes, PastIsFit
  <1>2. /\ UNCHANGED <<queue, count, frames, nextCid, at, cur, torn, reused>>
        /\ client[c].msg # NoMsg /\ client[c].given # <<>>
    BY DEF TakeAnswer, Waiting, wireVars, frameVars, threadVars
  <1>3. PICK x \in Program : x = client[c]
    BY <1>1
  <1>4. PICK r : r = Head(x.given)
    OBVIOUS
  <1>5. PICK z : z = [x EXCEPT !.given = Tail(x.given)]
    OBVIOUS
  <1>6. /\ x.given \in Seq(Answering) /\ Len(x.given) \in Nat \ {0} /\ r = x.given[1]
        /\ 1 \in 1 .. Len(x.given) /\ Tail(x.given) \in Seq(Answering)
        /\ Len(Tail(x.given)) = Len(x.given) - 1
        /\ \A k \in 1 .. Len(Tail(x.given)) : k + 1 \in 1 .. Len(x.given)
                                              /\ Tail(x.given)[k] = x.given[k + 1]
    <2>1. x.given \in Seq(Answering) /\ x.given # <<>>
      BY <1>2, <1>3 DEF Program
    <2> QED
      BY <1>4, <2>1, HeadTailProperties, EmptySeq
  <1>7. /\ z \in Program /\ z.chan = x.chan /\ z.msg = x.msg /\ z.sent = x.sent
        /\ z.given = Tail(x.given)
    BY <1>5, <1>6 DEF Program
  <1>8. /\ r.cid = Listens(c) /\ r \in Answering
        /\ x.chan # 0 => r.cid = x.chan
        /\ r.kind = "init" => r.new \in 1 .. Last
    BY <1>3, <1>6, OwnAnswers
  <1>9. CASE /\ x.msg.kind = "init" /\ misread' = misread /\ r.kind = "init" /\ r.of = x.msg.id
             /\ client' = [client EXCEPT ![c] = [NoClient EXCEPT !.chan = r.new]]
    <2>1. Promised(c, 1)
      BY <1>2, <1>3, <1>6, <1>9 DEF Promised
    <2>2. r.new \in Channel
      <3>1. nextCid \in Channel
        BY <1>1 DEF KeyTypes
      <3>2. Last \in Nat /\ Last < Broadcast
        BY <3>1, Sizes DEF Last, Channel
      <3> QED
        BY <1>8, <1>9, <3>2, Sizes DEF Channel
    <2>3. Unused(r.new)
      BY <1>3, <1>6, <2>1 DEF Unused
    <2>4. Unheard(r.new)
      BY <1>1, <2>2, <2>3 DEF Channels
    <2>5. PICK y \in Program : y = [NoClient EXCEPT !.chan = r.new]
      BY <2>2, NoClientIs
    <2>6. y.chan = r.new /\ y.msg = NoMsg /\ y.sent = 0 /\ y.given = <<>>
      BY <2>2, <2>5, NoClientIs
    <2>7. client'[c] = y /\ \A d \in Client \ {c} : client'[d] = client[d]
      BY <1>1, <1>9, <2>5
    <2>8. ~Unused(r.new)'
      <3>1. Last' = Last
        BY <1>2 DEF Last
      <3>2. ~(Last' < r.new)
        <4>1. nextCid \in Channel
          BY <1>1 DEF KeyTypes
        <4>2. Last \in Nat
          BY <4>1, Sizes DEF Last, Channel
        <4> QED
          BY <1>8, <1>9, <3>1, <4>2
      <3>3. ASSUME NEW d \in Client, NEW k \in 1 .. Len(client'[d].given), Promised(d, k)',
                   client'[d].given[k].new = r.new
            PROVE  FALSE
        <4>1. d # c
          BY <2>6, <2>7, <3>3, EmptySeq
        <4>2. client'[d] = client[d]
          BY <2>7, <4>1
        <4>3. /\ client[d].given[k].kind = "init" /\ client[d].given[k].of = client[d].msg.id
              /\ k \in 1 .. Len(client[d].given) /\ client[d].given[k].new = r.new
          BY <3>3, <4>2 DEF Promised
        <4>4. client[d].given[k].of = r.of
          BY <1>1, <1>3, <1>6, <1>9, <4>3, ZenonT(60) DEF Channels
        <4>5. client[c].msg.id # client[d].msg.id
          BY <1>1, <1>2, <4>1 DEF Numbers
        <4> QED
          BY <1>3, <1>9, <4>3, <4>4, <4>5
      <3> QED
        BY <3>2, <3>3 DEF Unused
    <2>9. OneAtATime(c)'
      <3>1. /\ \A j \in 1 .. Len(queue') : queue'[j].cid # r.new
            /\ frames'[r.new] = Idle /\ cur'.cid # r.new
        BY <1>2, <2>4 DEF Unheard
      <3> QED
        BY <2>6, <2>7, <3>1 DEF OneAtATime, Quiet, NotOpening
    <2>10. \A k \in 1 .. Len(y.given) : FALSE
      BY <2>6, EmptySeq
    <2>11. client' = [client EXCEPT ![c] = y]
      BY <1>9, <2>5
    <2>12. reused \subseteq reused' /\ reused' \subseteq Channel /\ misread' \subseteq reused'
      BY <1>1, <1>2, <1>9
    <2>13. /\ Unheard(y.chan) /\ ~Unused(y.chan)'
           /\ reused' \subseteq reused \cup {client[c].chan}
      BY <1>2, <2>4, <2>6, <2>8
    <2> QED
      BY <1>2, <2>6, <2>9, <2>10, <2>11, <2>12, <2>13, RestKeeps
  <1>10. CASE x.msg.kind = "init" /\ misread' = misread /\ client' = [client EXCEPT ![c] = z]
    <2>1. OneAtATime(c)'
      <3>1. client'[c] = z
        BY <1>1, <1>10
      <3> QED
        BY <1>7, <1>10, <3>1 DEF OneAtATime
    <2>2. \A k \in 1 .. Len(z.given) :
            /\ z.given[k].cid = IF z.msg = NoMsg THEN z.chan ELSE z.msg.cid
            /\ \E l \in 1 .. Len(client[c].given) : z.given[k] = client[c].given[l]
      BY <1>2, <1>3, <1>6, <1>7, OwnAnswers DEF Listens
    <2>3. /\ z.msg = client[c].msg /\ z.sent = client[c].sent /\ z.chan = client[c].chan
          /\ misread' \subseteq reused' /\ reused \subseteq reused' /\ reused' \subseteq Channel
          /\ reused' \subseteq reused \cup {client[c].chan}
      BY <1>1, <1>2, <1>3, <1>7, <1>10
    <2> QED
      BY <1>2, <1>7, <1>10, <2>1, <2>2, <2>3, RestKeeps
  <1>11. CASE /\ x.msg.kind # "init" /\ client' = [client EXCEPT ![c] = Rested(z)]
              /\ misread' = IF r.of = x.msg.id THEN misread ELSE misread \cup {r.cid}
    <2>1. x.chan # 0 /\ r.cid = x.chan
      BY <1>1, <1>2, <1>3, <1>8, <1>11 DEF Composed
    <2>2. PICK y \in Program : y = Rested(z)
      BY <1>7, RestedIs
    <2>3. y.chan = x.chan /\ y.given = Tail(x.given) /\ y.msg = NoMsg /\ y.sent = 0
      BY <1>7, <2>2, RestedIs
    <2>4. client'[c] = y
      BY <1>1, <1>11, <2>2
    <2>5. ASSUME x.chan \notin reused
          PROVE  /\ r.of = x.msg.id /\ Tail(x.given) = <<>> /\ NotOpening(c)
                 /\ frames[x.chan] = Idle /\ cur.cid # x.chan
                 /\ \A j \in 1 .. Len(queue) : queue[j].cid = x.chan => queue[j].kind # "init"
      <3>1. /\ Len(x.given) = 1 /\ x.given[1].of = x.msg.id /\ NotOpening(c)
            /\ frames[x.chan] = Idle /\ cur.cid # x.chan
            /\ \A j \in 1 .. Len(queue) : queue[j].cid = x.chan => queue[j].kind # "init"
        BY <1>1, <1>2, <1>3, <1>11, <2>1, <2>5 DEF OneAtATime
      <3>2. Tail(x.given) = <<>>
        <4>1. Len(Tail(x.given)) = 0
          BY <1>6, <3>1
        <4> QED
          BY <1>6, <4>1, EmptySeq
      <3> QED
        BY <1>6, <3>1, <3>2
    <2>6. OneAtATime(c)'
      <3> SUFFICES ASSUME x.chan \notin reused PROVE OneAtATime(c)'
        BY <1>2, <2>3, <2>4 DEF OneAtATime
      <3>1. NotOpening(c)'
        BY <1>2, <1>3, <2>3, <2>4, <2>5 DEF NotOpening
      <3>2. \A j \in 1 .. Len(queue) : queue[j].cid = x.chan => ~Opens(queue[j])
        BY <1>3, <2>5 DEF NotOpening
      <3> QED
        BY <1>2, <2>3, <2>4, <2>5, <3>1, <3>2 DEF OneAtATime, Quiet, Opens
    <2>7. \A k \in 1 .. Len(y.given) :
            /\ y.given[k].cid = IF y.msg = NoMsg THEN y.chan ELSE y.msg.cid
            /\ \E l \in 1 .. Len(client[c].given) : y.given[k] = client[c].given[l]
      BY <1>3, <1>6, <2>1, <2>3, OwnAnswers
    <2>8. misread' \subseteq reused'
      BY <1>1, <1>2, <1>11, <2>1, <2>5
    <2>9. /\ y.chan = client[c].chan /\ reused \subseteq reused' /\ reused' \subseteq Channel
          /\ reused' \subseteq reused \cup {client[c].chan}
      BY <1>1, <1>2, <1>3, <2>3
    <2>10. client' = [client EXCEPT ![c] = y]
      BY <1>11, <2>2
    <2> QED
      BY <1>2, <2>3, <2>6, <2>7, <2>8, <2>9, <2>10, RestKeeps
  <1> QED
    BY <1>3, <1>4, <1>5, <1>9, <1>10, <1>11 DEF TakeAnswer, pastVars

----------------------------------------------------------------------------
\* The whole.

\* The programs have numbers, and none has another's.
LEMMA Numbered ==
    /\ Number \in [Client -> 1 .. Cardinality(Client)]
    /\ \A c, d \in Client : c # d => Number[c] # Number[d]
  <1>1. PICK n \in Nat : n = Cardinality(Client)
    BY Sizes
  <1>2. ExistsBijection(1 .. n, Client)
    BY <1>1, KeyAssumption, FS_CardinalityType
  <1>3. PICK f \in [1 .. n -> Client] : \A c \in Client : \E i \in 1 .. n : f[i] = c
    BY <1>2 DEF ExistsBijection, Bijection, Surjection
  <1>4. PICK g : g = [c \in Client |-> CHOOSE i \in 1 .. n : f[i] = c]
    OBVIOUS
  <1>5. \A c \in Client : g[c] \in 1 .. n /\ f[g[c]] = c
    BY <1>3, <1>4
  <1>6. g \in [Client -> 1 .. n]
    BY <1>4, <1>5
  <1>7. \A c, d \in Client : c # d => g[c] # g[d]
    BY <1>5
  <1>8. \E h \in [Client -> 1 .. Cardinality(Client)] : \A c, d \in Client : c # d => h[c] # h[d]
    BY <1>1, <1>6, <1>7
  <1> QED
    BY <1>8 DEF Number

\* The programs start apart.
LEMMA InitHolds ==
    ASSUME Roomy, Init
    PROVE  WireInv
  <1>1. /\ queue = <<>> /\ count = 0 /\ frames = [i \in Cid |-> Idle] /\ nextCid = Broadcast - 1
        /\ at = "recv" /\ cur = NoMsg /\ reused = {} /\ torn = {} /\ misread = {}
        /\ client = [c \in Client |-> [NoClient EXCEPT !.chan = Broadcast - Number[c]]]
    BY DEF Init
  <1>2. queue \in Seq(Report) /\ Len(queue) = 0
    BY <1>1, EmptySeq
  <1>3. ASSUME NEW c \in Client
        PROVE  /\ Broadcast - Number[c] \in Channel
               /\ Broadcast - Number[c] >= Broadcast - Cardinality(Client)
    <2>1. Number[c] \in 1 .. Cardinality(Client)
      BY Numbered
    <2> QED
      BY <2>1, Sizes DEF Channel
  <1>4. ASSUME NEW c \in Client
        PROVE  /\ client[c] \in Program /\ client[c].chan = Broadcast - Number[c]
               /\ client[c].msg = NoMsg /\ client[c].sent = 0 /\ client[c].given = <<>>
               /\ Len(client[c].given) = 0
    <2>1. client[c] = [NoClient EXCEPT !.chan = Broadcast - Number[c]]
      BY <1>1
    <2> QED
      BY <1>3, <2>1, NoClientIs, EmptySeq
  <1>5. nextCid \in Channel /\ Last = 0
    BY <1>1, Sizes DEF Channel, Last
  <1>6. \A i \in Cid : frames[i] = Idle
    BY <1>1
  <1>7. KeyTypes
    <2>1. frames \in [Cid -> Transaction]
      BY <1>1, IdleType
    <2>2. client \in [Client -> Program]
      BY <1>1, <1>4
    <2>3. cur \in Msg
      BY <1>1, IdleType
    <2>4. \A c \in Client : Composed(client[c])
      BY <1>4 DEF Composed
    <2>5. \A j \in 1 .. Len(queue) : Sound(queue[j])
      BY <1>2
    <2> QED
      BY <1>1, <1>2, <1>5, <1>6, <2>1, <2>2, <2>3, <2>4, <2>5 DEF KeyTypes
  <1>8. Numbers
    <2>1. Inits = {}
      BY <1>2, <1>4, InitMember DEF NoMsg
    <2>2. Cardinality(Inits) = 0
      BY <2>1, FS_EmptySet
    <2> QED
      BY <1>1, <1>2, <1>4, <1>5, <2>2, Sizes DEF Numbers
  <1>9. Channels
    <2>1. ASSUME NEW c \in Client, NEW d \in Client, c # d PROVE client[c].chan # client[d].chan
      <3>1. Number[c] # Number[d] /\ Number[c] \in Nat /\ Number[d] \in Nat
        BY <2>1, Numbered, Sizes
      <3> QED
        BY <1>4, <3>1, Sizes
    <2>2. ASSUME NEW i \in Channel, Unused(i) PROVE Unheard(i)
      <3>1. i < Broadcast - Cardinality(Client)
        BY <1>4, <2>2 DEF Unused
      <3>2. \A c \in Client : client[c].chan # i
        BY <1>3, <1>4, <3>1, Sizes DEF Channel
      <3>3. i \in Cid /\ i # 0
        BY Sizes DEF Channel, Cid
      <3> QED
        BY <1>1, <1>2, <1>6, <3>2, <3>3 DEF Unheard, NoMsg
    <2> QED
      BY <1>4, <2>1, <2>2 DEF Channels
  <1>10. ASSUME NEW i \in Channel \ reused PROVE Wire(i)
    <2>1. i \in Cid
      BY Sizes DEF Channel, Cid
    <2> QED
      BY <1>2, <1>6, <2>1 DEF Wire
  <1>11. ASSUME NEW c \in Client PROVE OneAtATime(c)
    <2>1. client[c].chan \in Cid /\ client[c].chan # 0
      BY <1>3, <1>4, Sizes DEF Channel, Cid
    <2> QED
      BY <1>1, <1>2, <1>4, <1>6, <2>1 DEF OneAtATime, Quiet, NotOpening, NoMsg
  <1>12. PastIsFit
    BY <1>1 DEF PastIsFit, FramesAreWhole
  <1> QED
    BY <1>7, <1>8, <1>9, <1>10, <1>11, <1>12 DEF WireInv

\* Every step keeps the invariant.
LEMMA WireStep ==
    ASSUME Roomy
    PROVE  WireInv /\ [Next]_vars => WireInv'
  <1> SUFFICES ASSUME WireInv, [Next]_vars PROVE WireInv'
    OBVIOUS
  <1>1. KeyTypes /\ at \in {"recv", "list", "begin", "poll", "refuse", "gone"}
    BY DEF WireInv, KeyTypes
  <1>2. CASE UNCHANGED vars
    <2>1. UNCHANGED <<queue, count, frames, nextCid, at, cur, client, reused, torn, misread>>
      BY <1>2 DEF vars, wireVars, frameVars, threadVars, pastVars
    <2> QED
      BY <1>1, <2>1, ThreadKeeps
  <1>3. ASSUME NEW c \in Client,
               \/ \E a \in Asks \cup {<<"init", 1>>} : StartMessage(c, a[1], a[2])
               \/ Resync(c) \/ Send(c) \/ Cancel(c) \/ GiveUp(c) \/ TakeAnswer(c)
        PROVE  WireInv'
    BY <1>3, StartKeeps, ResyncKeeps, SendKeeps, CancelKeeps, GiveUpKeeps, TakeAnswerKeeps
  <1>4. CASE Stray
    BY <1>4, StrayKeeps
  <1>5. CASE Recv
    BY <1>5, RecvKeeps
  <1>6. CASE List
    <2>1. at = "list" /\ UNCHANGED <<queue, count, frames, nextCid, reused, torn, misread>>
      BY <1>6 DEF List, wireVars, frameVars, pastVars
    <2>2. CASE Answer(FALSE)
      BY <2>1, <2>2, AnswerKeeps
    <2>3. CASE at' = "begin" /\ UNCHANGED <<cur, client, yes, signed>>
      BY <2>1, <2>3, ThreadKeeps
    <2> QED
      BY <1>6, <2>2, <2>3 DEF List
  <1>7. CASE Begin
    <2>1. at = "begin" /\ UNCHANGED <<queue, count, frames, nextCid, reused, torn, misread>>
      BY <1>7 DEF Begin, wireVars, frameVars, pastVars
    <2>2. CASE Answer(FALSE)
      BY <2>1, <2>2, AnswerKeeps
    <2>3. CASE at' = "poll" /\ UNCHANGED <<cur, client, signed>>
      BY <2>1, <2>3, ThreadKeeps
    <2> QED
      BY <1>7, <2>2, <2>3 DEF Begin
  <1>8. CASE Collect
    <2>1. at = "poll" /\ UNCHANGED <<queue, count, frames, nextCid, reused, torn, misread>>
      BY <1>8 DEF Collect, wireVars, frameVars, pastVars
    <2>2. CASE Answer(FALSE)
      BY <2>1, <2>2, AnswerKeeps
    <2>3. CASE Answer(TRUE)
      BY <2>1, <2>3, AnswerKeeps
    <2> QED
      BY <1>8, <2>2, <2>3 DEF Collect
  <1>9. CASE AgentLost
    <2>1. /\ at \in {"list", "begin", "poll", "refuse"} /\ Answer(FALSE)
          /\ UNCHANGED <<queue, count, frames, nextCid, reused, torn, misread>>
      BY <1>9 DEF AgentLost, wireVars, frameVars, pastVars
    <2> QED
      BY <2>1, AnswerKeeps
  <1>10. CASE StopWaiting
    <2>1. /\ at = "poll" /\ at' = "refuse"
          /\ UNCHANGED <<queue, count, frames, nextCid, cur, client, reused, torn, misread>>
      BY <1>10 DEF StopWaiting, wireVars, frameVars, pastVars
    <2> QED
      BY <2>1, ThreadKeeps
  <1>11. CASE Withdraw
    <2>1. /\ at \in {"list", "begin", "poll", "refuse"} /\ Answer(FALSE)
          /\ UNCHANGED <<queue, count, frames, nextCid, reused, torn, misread>>
      BY <1>11 DEF Withdraw, wireVars, frameVars, pastVars
    <2> QED
      BY <2>1, AnswerKeeps
  <1>12. CASE Stops
    BY <1>12, StopsKeeps
  <1>13. CASE Human
    <2>1. UNCHANGED <<queue, count, frames, nextCid, at, cur, client, reused, torn, misread>>
      BY <1>13 DEF Human, wireVars, frameVars, threadVars, pastVars
    <2> QED
      BY <1>1, <2>1, ThreadKeeps
  <1> QED
    BY <1>2, <1>3, <1>4, <1>5, <1>6, <1>7, <1>8, <1>9, <1>10, <1>11, <1>12, <1>13
    DEF Next, Thread

\* As long as the channel numbers last, a message is handed on only as some program sent
\* it and an answer is taken only by the program it is for, except on a channel used on
\* after a message was given up; and nothing is signed that nobody approved (hid.rs:
\* Reassembler.push, "a message that was never sent"; uhid.rs: answer, ceremony).
THEOREM MessagesStayApart ==
    ASSUME Roomy
    PROVE  Spec => []MessagesFit
  <1>1. Init => WireInv /\ PromptInv
    BY InitHolds DEF Init, PromptInv, Prompt
  <1>2. WireInv /\ PromptInv /\ [Next]_vars => WireInv' /\ PromptInv'
    BY WireStep, PromptStep
  <1>3. WireInv /\ PromptInv => MessagesFit
    BY DEF WireInv, PromptInv, PastIsFit, MessagesFit, AnswerFits
  <1> QED
    BY <1>1, <1>2, <1>3, PTL DEF Spec

=============================================================================
