---------------------------- MODULE SecurityKey ----------------------------
(***************************************************************************)
(* The virtual security key: CTAPHID framing (ctap/hid.rs), the CTAP2      *)
(* commands (ctap/authenticator.rs) and the thread that serves the device  *)
(* (uhid.rs), against programs that have its HID node open and an agent    *)
(* that runs the ceremonies.                                               *)
(*                                                                         *)
(* The thread reads one report at a time and answers a request before it   *)
(* reads the next, so while a human decides, everything else waits in the  *)
(* kernel's queue, a CANCEL too.  A message is known by its number; its    *)
(* bytes are its fragments, <<message, index>>, one for each report.  A    *)
(* length is counted in reports and a sequence number wraps at SeqMod, one *)
(* less than the longest message, as 128 is for 57 + 128 * 59 bytes.       *)
(***************************************************************************)
EXTENDS Integers, Sequences, FiniteSets

CONSTANTS
    Client,      \* programs with the device open
    Asks,        \* the requests they make: kind and length
    Broadcast,   \* BROADCAST_CID, the largest channel number
    SeqMod,      \* continuation sequence numbers, 0 .. SeqMod - 1
    MaxOpen,     \* MAX_OPEN_CHANNELS
    QueueMax,    \* reports the kernel holds for the thread; more are lost
    MaxMsg       \* bound on messages sent and malformed reports

Cid == 0 .. Broadcast
MaxLen == SeqMod + 1
Start == -1                          \* an initialisation packet

\* make: without an exclude list; remake: with one that names the passkey the
\* vault may hold.  now: whatever is answered at once (PING, WINK, MSG, unknown
\* commands, getInfo, a request that does not parse or asks for a PIN, for no
\* user verification or for another algorithm, and the commands refused).
Ceremony == {"make", "remake", "assert"}
Kind == {"init", "now"} \cup Ceremony

\* A ceremony that was refused, deferred, dropped or collected is none: the key
\* answers each of them alike.
Prompt == {"none", "waiting", "approved"}

ASSUME KeyAssumption ==
    /\ IsFiniteSet(Client)
    /\ Broadcast \in Nat /\ Broadcast > Cardinality(Client)
    /\ {SeqMod, MaxOpen, QueueMax, MaxMsg} \subseteq Nat \ {0}
    /\ Asks \subseteq (Kind \ {"init"}) \X (1 .. MaxLen)

VARIABLES
    queue,      \* reports written to the device and not yet read
    frames,     \* Reassembler.open, by channel
    nextCid,    \* Reassembler.next_cid
    at,         \* where the thread is
    cur,        \* the message it is answering
    prompt,     \* the key's last ceremony on the agent's desk
    orphan,     \* the agent was lost while it was there: nobody collects it
    client,     \* what each program is doing
    count,      \* how many messages and malformed reports there were
    lost,       \* history: a report found the queue full
    reused,     \* history: channels used on after a message was given up
    torn,       \* history: messages handed on that nobody sent: on which channel,
                \* and whether each fragment was at least in its own place
    misread,    \* history: channels an answer was taken for another's on
    yes,        \* history: the message whose ceremony was approved, or 0
    signed      \* history: messages answered with a signature nobody approved

wireVars == <<queue, count, lost>>
frameVars == <<frames, nextCid, torn>>
agentVars == <<prompt, orphan, yes, signed>>
threadVars == <<at, cur>>
pastVars == <<reused, misread>>
vars == <<wireVars, frameVars, agentVars, threadVars, pastVars, client>>

Idle == [msg |-> 0, kind |-> "none", len |-> 0, parts |-> <<>>, next |-> 0]
NoMsg == [id |-> 0, cid |-> 0, kind |-> "none", len |-> 0]
NoClient == [chan |-> 0, msg |-> NoMsg, sent |-> 0, cancelled |-> FALSE, given |-> <<>>]

\* The programs have been through INIT, and the channel numbers are about to
\* wrap around.
Number == CHOOSE f \in [Client -> 1 .. Cardinality(Client)] :
            \A c, d \in Client : c # d => f[c] # f[d]

Init ==
    /\ queue = <<>> /\ count = 0 /\ lost = FALSE
    /\ frames = [i \in Cid |-> Idle]
    /\ nextCid = Broadcast - 1
    /\ at = "recv" /\ cur = NoMsg
    /\ prompt = "none" /\ orphan = FALSE
    /\ client = [c \in Client |-> [NoClient EXCEPT !.chan = Broadcast - Number[c]]]
    /\ reused = {} /\ yes = 0
    /\ torn = {} /\ misread = {} /\ signed = {}

----------------------------------------------------------------------------
(* Reassembler.push: what one report does to the table of transactions.    *)

Effect(step, table, part) == [step |-> step, frames |-> table, part |-> part]
Refuse(table) == Effect("error", table, Idle)
Clear(i) == [frames EXCEPT ![i] = Idle]
Opened == {i \in Cid : frames[i] # Idle}

IsInit(kind) == kind \in {"init", "short"}

Begun(p) ==
    [msg |-> p.msg, kind |-> p.kind, len |-> p.len, parts |-> <<<<p.msg, 1>>>>,
     next |-> 0]

\* An initialisation packet.  Only CANCEL and INIT interrupt a transaction.
PushStart(p) ==
    IF p.kind = "cancel" THEN Effect("done", Clear(p.cid), Begun(p))
    ELSE IF p.cid \in Opened /\ ~IsInit(p.kind)
         THEN Refuse(frames)
    ELSE IF p.len > MaxLen THEN Refuse(frames)
    ELSE IF p.cid = Broadcast /\ ~IsInit(p.kind) THEN Refuse(frames)
    ELSE IF p.len = 1 THEN Effect("done", Clear(p.cid), Begun(p))
    ELSE IF p.cid \notin Opened /\ Cardinality(Opened) >= MaxOpen THEN Refuse(frames)
    ELSE Effect("continue", [frames EXCEPT ![p.cid] = Begun(p)], Idle)

\* A continuation: the next one, or the transaction is abandoned.  One for a
\* channel with nothing in flight is ignored.
PushContinuation(p) ==
    LET old == frames[p.cid]
        part == [old EXCEPT !.parts = Append(@, <<p.msg, p.index>>),
                            !.next = (@ + 1) % SeqMod] IN
    IF p.cid \notin Opened THEN Effect("continue", frames, Idle)
    ELSE IF p.seq # old.next THEN Refuse(Clear(p.cid))
    ELSE IF Len(part.parts) = part.len THEN Effect("done", Clear(p.cid), part)
    ELSE Effect("continue", [frames EXCEPT ![p.cid] = part], Idle)

Push(p) ==
    IF p.cid = 0 THEN Refuse(frames)
    ELSE IF p.seq = Start THEN PushStart(p)
    ELSE PushContinuation(p)

\* Reassembler.allocate: the next channel that is neither 0 nor broadcast.
Allocate(i) == IF i + 1 < Broadcast THEN i + 1 ELSE 1

----------------------------------------------------------------------------
(* The programs.  A report of the key reaches every program; each keeps the *)
(* ones on the channel it listens to and takes them in order, once its own  *)
(* message is written.                                                      *)

Listens(c) == IF client[c].msg = NoMsg THEN client[c].chan ELSE client[c].msg.cid

Hear(reply) ==
    client' = [c \in Client |->
        IF reply.cid # 0 /\ Listens(c) = reply.cid
        THEN [client[c] EXCEPT !.given = Append(@, reply)]
        ELSE client[c]]

Rested(x) == [x EXCEPT !.msg = NoMsg, !.sent = 0, !.cancelled = FALSE]

\* A report goes into the kernel's queue, if there is room.
Write(p) ==
    IF Len(queue) < QueueMax
    THEN queue' = Append(queue, p) /\ UNCHANGED lost
    ELSE lost' = TRUE /\ UNCHANGED queue

Written(c) == client[c].sent = client[c].msg.len
Waiting(c) == client[c].msg # NoMsg /\ Written(c)

\* A program starts a message: INIT on the broadcast channel, or a request on
\* the channel it was given.
Compose(c, kind, len) ==
    /\ at # "gone" /\ count < MaxMsg
    /\ count' = count + 1
    /\ client' = [client EXCEPT ![c] =
          [Rested(@) EXCEPT !.msg =
             [id |-> count + 1, kind |-> kind, len |-> len,
              cid |-> IF client[c].chan = 0 THEN Broadcast ELSE client[c].chan]]]

StartMessage(c, kind, len) ==
    /\ client[c].msg = NoMsg
    /\ client[c].chan = 0 <=> kind = "init"
    /\ Compose(c, kind, len)
    /\ UNCHANGED <<queue, lost, frameVars, agentVars, threadVars, pastVars>>

\* ... or an INIT on its own channel, giving up what it was waiting for.
Resync(c) ==
    /\ Waiting(c) /\ client[c].chan # 0
    /\ Compose(c, "init", 1)
    /\ UNCHANGED <<queue, lost, frameVars, agentVars, threadVars, pastVars>>

\* Message.to_packets, one report after the other.
Send(c) ==
    LET m == client[c].msg
        i == client[c].sent + 1 IN
    /\ m # NoMsg /\ ~Written(c)
    /\ Write([cid |-> m.cid, kind |-> m.kind, len |-> m.len, msg |-> m.id, index |-> i,
              seq |-> IF i = 1 THEN Start ELSE (i - 2) % SeqMod])
    /\ client' = [client EXCEPT ![c].sent = i]
    /\ UNCHANGED <<count, frameVars, agentVars, threadVars, pastVars>>

\* CTAPHID_CANCEL; the answer to the request is still waited for.
Cancel(c) ==
    LET m == client[c].msg IN
    /\ Waiting(c) /\ m.kind \in Ceremony /\ ~client[c].cancelled
    /\ Write([cid |-> m.cid, kind |-> "cancel", len |-> 1,
              msg |-> m.id, index |-> 1, seq |-> Start])
    /\ client' = [client EXCEPT ![c].cancelled = TRUE]
    /\ UNCHANGED <<count, frameVars, agentVars, threadVars, pastVars>>

\* A program is gone, or stops waiting without a CANCEL or an INIT and goes on
\* using its channel.
GiveUp(c) ==
    /\ Waiting(c)
    /\ \/ client' = [client EXCEPT ![c] = NoClient] /\ UNCHANGED reused
       \/ /\ client[c].chan # 0
          /\ client' = [client EXCEPT ![c] = Rested(@)]
          /\ reused' = reused \cup {client[c].chan}
    /\ UNCHANGED <<wireVars, frameVars, agentVars, threadVars, misread>>

\* The next report on its channel answers what a program waits for, except
\* that INIT is answered by an INIT carrying its nonce.
TakeAnswer(c) ==
    LET m == client[c].msg
        r == Head(client[c].given)
        rest == [client[c] EXCEPT !.given = Tail(@)] IN
    /\ Waiting(c) /\ client[c].given # <<>>
    /\ \/ /\ m.kind = "init"
          /\ client' = [client EXCEPT ![c] =
                IF r.kind = "init" /\ r.of = m.id
                THEN [NoClient EXCEPT !.chan = r.new]
                ELSE rest]
          /\ UNCHANGED misread
       \/ /\ m.kind # "init"
          /\ client' = [client EXCEPT ![c] = Rested(rest)]
          /\ misread' = IF r.of = m.id THEN misread ELSE misread \cup {r.cid}
    /\ UNCHANGED <<wireVars, frameVars, agentVars, threadVars, reused>>

\* Reports no protocol allows: channel 0, a request on the broadcast channel, a
\* length over the limit, a short INIT.
Malformed ==
    { [cid |-> 0, kind |-> "now", len |-> 1, msg |-> 0, index |-> 1, seq |-> Start],
      [cid |-> Broadcast, kind |-> "now", len |-> 1, msg |-> 0, index |-> 1, seq |-> Start],
      [cid |-> Broadcast, kind |-> "init", len |-> MaxLen + 1, msg |-> 0, index |-> 1, seq |-> Start],
      [cid |-> Broadcast, kind |-> "short", len |-> 1, msg |-> 0, index |-> 1, seq |-> Start] }

Stray ==
    /\ at # "gone" /\ count < MaxMsg
    /\ count' = count + 1
    /\ \E p \in Malformed : Write(p)
    /\ UNCHANGED <<client, frameVars, agentVars, threadVars, pastVars>>

----------------------------------------------------------------------------
(* The thread.                                                             *)

Reply(i, kind, m) == [cid |-> i, kind |-> kind, of |-> m, new |-> 0]

Whole(part) == part.parts = [i \in 1 .. part.len |-> <<part.msg, i>>]
InPlace(part) == \A i \in 1 .. part.len : part.parts[i][2] = i

\* run: one report, and what it completes is answered (answer()) or handed to
\* the commands that need the agent.  makeCredential asks the agent about an
\* exclude list first, getAssertion about what it holds.
Recv ==
    LET p == Head(queue)
        s == Push(p)
        kind == s.part.kind IN
    /\ at = "recv" /\ queue # <<>>
    /\ queue' = Tail(queue)
    /\ frames' = s.frames
    /\ torn' = IF s.step # "done" \/ Whole(s.part) THEN torn
               ELSE torn \cup {[cid |-> p.cid, inPlace |-> InPlace(s.part)]}
    /\ UNCHANGED <<count, lost, agentVars, pastVars>>
    /\ \/ /\ s.step = "continue" \/ (s.step = "done" /\ kind = "cancel")
          /\ UNCHANGED <<threadVars, nextCid, client>>
       \/ /\ s.step = "error" \/ (s.step = "done" /\ kind = "short")
          /\ Hear(Reply(p.cid, "error", p.msg))
          /\ UNCHANGED <<threadVars, nextCid>>
       \/ /\ s.step = "done" /\ kind = "init"
          /\ nextCid' = Allocate(nextCid)
          /\ Hear([Reply(p.cid, "init", s.part.msg) EXCEPT !.new = nextCid'])
          /\ UNCHANGED threadVars
       \/ /\ s.step = "done" /\ kind = "now"
          /\ Hear(Reply(p.cid, "answer", s.part.msg))
          /\ UNCHANGED <<threadVars, nextCid>>
       \/ /\ s.step = "done" /\ kind \in Ceremony
          /\ at' = IF kind = "make" THEN "begin" ELSE "list"
          /\ cur' = [id |-> s.part.msg, cid |-> p.cid, kind |-> kind, len |-> s.part.len]
          /\ UNCHANGED <<nextCid, client>>

\* The answer to the current request goes out and the next report is read.  The
\* key keeps nothing of a ceremony it has answered for.
Answer(ok) ==
    /\ Hear(Reply(cur.cid, "answer", cur.id))
    /\ at' = "recv" /\ cur' = NoMsg
    /\ signed' = IF ok /\ yes # cur.id THEN signed \cup {cur.id} ELSE signed
    /\ yes' = 0

\* Backend.count_for and Backend.holds_any, a plain read: a makeCredential that
\* would be refused, or a getAssertion for which there is nothing, is answered
\* before anybody is asked.
List ==
    /\ at = "list"
    /\ UNCHANGED <<prompt, orphan, wireVars, frameVars, pastVars>>
    /\ \/ at' = "begin" /\ UNCHANGED <<cur, client, yes, signed>>
       \/ Answer(FALSE)

\* ceremony(): PasskeyBegin registers a ceremony, or the agent refuses to.
Begin ==
    /\ at = "begin"
    /\ UNCHANGED <<wireVars, frameVars, pastVars>>
    /\ \/ /\ prompt' = "waiting" /\ orphan' = FALSE
          /\ at' = "poll" /\ yes' = 0
          /\ UNCHANGED <<cur, client, signed>>
       \/ Answer(FALSE) /\ UNCHANGED <<prompt, orphan>>

\* Mutant: any answer is passed on as a yes.
CollectAny ==
    /\ at = "poll" /\ prompt # "waiting"
    /\ prompt' = "none" /\ Answer(TRUE)
    /\ UNCHANGED <<orphan, wireVars, frameVars, pastVars>>

\* One poll that finds an answer: an approval is collected and signed, or cannot
\* be signed after all; any other answer, or a ceremony that is gone, is a denial.
Collect ==
    /\ at = "poll" /\ prompt # "waiting"
    /\ prompt' = "none"
    /\ UNCHANGED <<orphan, wireVars, frameVars, pastVars>>
    /\ \/ prompt = "approved" /\ Answer(TRUE)
       \/ Answer(FALSE)

\* A call to the agent gets no reply, and that ends the request.  What it had
\* put on the desk stays there; PasskeyBegin may have put it there unheard.
AgentLost ==
    /\ at \in {"begin", "poll", "refuse"}
    /\ prompt' \in IF at = "begin" THEN {prompt, "waiting"} ELSE {prompt}
    /\ orphan' = TRUE
    /\ Answer(FALSE)
    /\ UNCHANGED <<wireVars, frameVars, pastVars>>

\* Mutant: the wait for a human never ends.
StopWaitingNever ==
    /\ at = "poll" /\ prompt = "gone"
    /\ UNCHANGED vars

\* ... or nobody has answered, and CEREMONY_TIMEOUT has passed or the keepalive
\* cannot be sent.
StopWaiting ==
    /\ at = "poll" /\ prompt = "waiting"
    /\ at' = "refuse"
    /\ UNCHANGED <<cur, wireVars, frameVars, agentVars, pastVars, client>>

\* Mutant: the request is given up and its prompt left on the screen.
WithdrawNot ==
    /\ at = "refuse"
    /\ Answer(FALSE)
    /\ UNCHANGED <<prompt, orphan, wireVars, frameVars, pastVars>>

\* PasskeyAnswer with approve = false takes the prompt off the screen, and
\* overrules an approval that came meanwhile.
Withdraw ==
    /\ at = "refuse"
    /\ prompt' = "none"
    /\ Answer(FALSE)
    /\ UNCHANGED <<orphan, wireVars, frameVars, pastVars>>

\* A report cannot be written, or the process is stopped: the device goes, and
\* with it every handle to it.
Stops ==
    /\ at # "gone"
    /\ at' = "gone" /\ cur' = NoMsg
    /\ queue' = <<>>
    /\ frames' = [i \in Cid |-> Idle]
    /\ client' = [c \in Client |-> NoClient]
    /\ UNCHANGED <<count, lost, nextCid, torn, agentVars, pastVars>>

----------------------------------------------------------------------------
(* The agent and the human, as far as the key meets them.                  *)

\* Approved; or refused, deferred, expired, or cleared by a lock.
Human ==
    /\ prompt # "none"
    /\ \/ prompt = "waiting" /\ prompt' = "approved" /\ yes' = IF orphan THEN 0 ELSE cur.id
       \/ prompt' = "none" /\ UNCHANGED yes
    /\ UNCHANGED <<orphan, signed, wireVars, frameVars, threadVars, pastVars, client>>

Thread == Recv \/ List \/ Begin \/ Collect \/ StopWaiting \/ Withdraw

Next ==
    \/ \E c \in Client :
         \/ \E a \in Asks \cup {<<"init", 1>>} : StartMessage(c, a[1], a[2])
         \/ Resync(c) \/ Send(c) \/ Cancel(c) \/ GiveUp(c) \/ TakeAnswer(c)
    \/ Stray
    \/ Thread \/ AgentLost \/ Stops
    \/ Human

Spec == Init /\ [][Next]_vars

\* The thread runs and time passes; a program that has begun a message writes
\* it, and reads what it is told.  Nobody has to answer a prompt.
FairSpec ==
    /\ Spec
    /\ WF_vars(Thread)
    /\ \A c \in Client : WF_vars(Send(c)) /\ WF_vars(TakeAnswer(c))

----------------------------------------------------------------------------
\* A message is handed on only as some program sent it, whole and in order,
\* however the reports of several programs interleave and whichever are lost
\* (hid.rs: "rather than assembling a message that was never sent").  The one
\* exception is the channel of a program that gave a message up half received
\* and went on using it: no other channel suffers from that, and even there no
\* fragment is taken out of its place.
FramesAreWhole == \A t \in torn : t.cid \in reused /\ t.inPlace

\* What a program takes for an answer answers the message it waits for, with
\* the same exception; and a yes was given by a human to that very message's
\* ceremony (uhid.rs: answer, ceremony, for_channel).
AnswerFits == misread \subseteq reused /\ signed = {}

\* The two together: programs that share the key do not meet in it.
MessagesFit == FramesAreWhole /\ AnswerFits

\* While the key waits for requests, no prompt of an earlier one is on the
\* screen, unless the agent was lost while it was (uhid.rs: "Take the prompt off
\* the screen rather than leaving somebody to answer something that can no
\* longer be delivered").
PromptWithdrawn == at = "recv" /\ prompt # "none" => orphan

\* Every program that waits is answered, though humans never come, programs
\* cancel and disappear, and one request at a time is served; the exceptions are
\* a lost report and a device that is gone (uhid.rs: run, CEREMONY_TIMEOUT).
EveryoneAnswered ==
    \A c \in Client :
        client[c].msg # NoMsg ~> client[c].msg = NoMsg \/ lost \/ at = "gone"

============================================================================
