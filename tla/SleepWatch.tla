----------------------------- MODULE SleepWatch -----------------------------
(***************************************************************************)
(* The suspend watcher (sleepwatch.rs): a thread that keeps one connection *)
(* to the system bus, subscribes to logind's two lock events and to the    *)
(* ownership of logind's name, and sends a reason to the agent for each    *)
(* event it believes.                                                      *)
(*                                                                         *)
(* The bus delivers to the connection in order: replies and signals share  *)
(* one stream, and while a reply is awaited every signal in front of it is *)
(* thrown away.  A message addressed to the connection reaches it whatever *)
(* it subscribed to, so a change of owner may also come from another peer, *)
(* or be about another name: run() looks at neither, and this module marks *)
(* such a message as not genuine only to say what becomes of it.           *)
(***************************************************************************)
EXTENDS Integers, Sequences

CONSTANTS
    Unique,      \* unique names logind may get, one per start
    NoOwner,     \* nobody owns logind's name; owner = None
    Foreign,     \* the unique name of some other peer
    FirstDelay,  \* FIRST_RETRY_DELAY
    MaxDelay,    \* MAX_RETRY_DELAY
    MaxSkip,     \* messages read while waiting for one reply (64)
    MaxEvents,   \* bound on signals sent to the connection
    MaxBreaks    \* bound on failures of the bus

ASSUME WatchAssumption ==
    /\ {NoOwner, Foreign} \cap Unique = {}
    /\ FirstDelay \in Nat \ {0} /\ MaxDelay \in Nat /\ FirstDelay <= MaxDelay
    /\ MaxSkip \in Nat \ {0} /\ MaxEvents \in Nat /\ MaxBreaks \in Nat

VARIABLES
    logind,    \* who owns org.freedesktop.login1 on the bus
    used,      \* unique names already given out: the bus never reuses one
    stage,     \* where run() is
    calls,     \* calls the bus has not answered yet
    subs,      \* match rules in force
    stream,    \* messages the bus has sent and run() has not read
    skipped,   \* messages thrown away while waiting for the current reply
    owner,     \* run()'s owner
    session,   \* run()'s session: TRUE when logind named one
    delay,     \* spawn()'s delay
    listening, \* the agent still holds the receiver
    channel,   \* what was sent to it
    events,    \* signals so far
    breaks,    \* failures so far
    ignored,   \* history, of this connection: suspends of logind's, read and not
               \* believed while it was not misled,
    stale,     \* ... whether a change of logind's owner was thrown away,
    misled     \* ... and whether the last change believed was not genuine

busVars == <<logind, used, calls, subs, stream>>
boundVars == <<events, breaks>>
lossVars == <<ignored, stale, misled>>
vars == <<busVars, stage, skipped, owner, session, delay, listening, channel,
          boundVars, lossVars>>

\* The stages of run() that wait for a reply, and the one each leads to.
Waiting == {"hello", "match-sleep", "match-lock", "match-owner", "ask-owner", "ask-session"}

\* Mutant: ask who logind is before subscribing to changes of it.
AfterAskingFirst(s) ==
    CASE s = "hello"       -> "match-sleep"
      [] s = "match-sleep" -> "match-lock"
      [] s = "match-lock"  -> "ask-owner"
      [] s = "ask-owner"   -> "match-owner"
      [] s = "match-owner" -> "ask-session"
      [] s = "ask-session" -> "watching"

After(s) ==
    CASE s = "hello"       -> "match-sleep"
      [] s = "match-sleep" -> "match-lock"
      [] s = "match-lock"  -> "match-owner"
      [] s = "match-owner" -> "ask-owner"
      [] s = "ask-owner"   -> "ask-session"
      [] s = "ask-session" -> "watching"

\* The rule an AddMatch puts in force at the bus.
Rules(call) ==
    CASE call = "match-sleep" -> {"sleep"}
      [] call = "match-lock"  -> {"lock"}
      [] call = "match-owner" -> {"owner"}
      [] OTHER -> {}

\* Messages.  A reply names its call and carries a unique name, a session or
\* an error; a signal its sender, and `ours' when it is broadcast and, for a
\* screen lock, about this process's session.
Reply(call, val) == [kind |-> "reply", call |-> call, val |-> val]
Signal(member, from, ours) == [kind |-> member, from |-> from, ours |-> ours]
OwnerChanged(new) == [kind |-> "owner", val |-> new, genuine |-> TRUE]
OwnerClaimed(new) == [kind |-> "owner", val |-> new, genuine |-> FALSE]
Noise == [kind |-> "noise"]

\* A suspend that logind announced, and a change of owner that the bus did.
Suspend(m) == m.kind = "sleep" /\ m.from # Foreign
Told(m) == m.kind = "owner" /\ m.genuine

Connected == stage \in Waiting \cup {"watching"}

----------------------------------------------------------------------------
Init ==
    /\ logind \in Unique /\ used = {logind}
    /\ stage = "connect"
    /\ calls = <<>> /\ subs = {} /\ stream = <<>> /\ skipped = 0
    /\ owner = NoOwner /\ session = FALSE
    /\ delay = FirstDelay
    /\ listening = TRUE /\ channel = <<>>
    /\ events = 0 /\ breaks = 0
    /\ ignored = 0 /\ stale = FALSE /\ misled = FALSE

\* connect, authenticate, and the Hello call.
Connect ==
    /\ stage = "connect"
    /\ stage' = "hello" /\ calls' = <<"hello">> /\ skipped' = 0
    /\ owner' = NoOwner /\ session' = FALSE
    /\ ignored' = 0 /\ stale' = FALSE /\ misled' = FALSE
    /\ UNCHANGED <<logind, used, subs, stream, delay, listening, channel, boundVars>>

\* run() returns: the socket is dropped, and the bus forgets the connection.
Close ==
    /\ stage' = "sleeping"
    /\ calls' = <<>> /\ subs' = {} /\ stream' = <<>>
    /\ UNCHANGED <<logind, used, skipped, owner, session, lossVars>>

\* The bus is not there, or goes away: an Err, and the delay stays as it is.
Break ==
    /\ stage # "sleeping"
    /\ breaks < MaxBreaks
    /\ breaks' = breaks + 1
    /\ Close
    /\ UNCHANGED <<delay, listening, channel, events>>

\* Mutant: the thread gives up at the bound.
WakeGivesUp ==
    /\ stage = "sleeping" /\ 2 * delay < MaxDelay
    /\ stage' = "connect"
    /\ delay' = 2 * delay
    /\ UNCHANGED <<busVars, skipped, owner, session, listening, channel,
                   boundVars, lossVars>>

\* spawn(): sleep, double the delay, try again.
Wake ==
    /\ stage = "sleeping"
    /\ stage' = "connect"
    /\ delay' = IF 2 * delay < MaxDelay THEN 2 * delay ELSE MaxDelay
    /\ UNCHANGED <<busVars, skipped, owner, session, listening, channel,
                   boundVars, lossVars>>

----------------------------------------------------------------------------
\* The bus takes the calls in order; the question about the session goes on to
\* logind, which may not know of one.
Answers(call) ==
    CASE call = "ask-owner"   -> {logind}
      [] call = "ask-session" -> {"ours", "error"}
      [] OTHER -> {"ok"}

BusAnswers ==
    /\ calls # <<>>
    /\ calls' = Tail(calls)
    /\ subs' = subs \cup Rules(Head(calls))
    /\ \E val \in Answers(Head(calls)) :
         stream' = Append(stream, Reply(Head(calls), val))
    /\ UNCHANGED <<logind, used, stage, skipped, owner, session, delay, listening,
                   channel, boundVars, lossVars>>

\* An AddMatch the bus refuses.
BusRefuses ==
    /\ calls # <<>> /\ Rules(Head(calls)) # {}
    /\ breaks < MaxBreaks
    /\ breaks' = breaks + 1
    /\ calls' = Tail(calls)
    /\ stream' = Append(stream, Reply(Head(calls), "error"))
    /\ UNCHANGED <<logind, used, subs, stage, skipped, owner, session, delay,
                   listening, channel, events, lossVars>>

Deliver(m) ==
    /\ events < MaxEvents
    /\ events' = events + 1
    /\ stream' = Append(stream, m)
    /\ UNCHANGED <<used, calls, subs, stage, skipped, owner, session, delay,
                   listening, channel, breaks, lossVars>>

\* logind announces a suspend to everyone who subscribed.
AnnounceSleep ==
    /\ logind # NoOwner /\ "sleep" \in subs
    /\ Deliver(Signal("sleep", logind, TRUE))
    /\ UNCHANGED logind

\* logind asks a session to lock its screen: this one or another.
AnnounceLock ==
    /\ logind # NoOwner /\ "lock" \in subs
    /\ \E ours \in BOOLEAN : Deliver(Signal("lock", logind, ours))
    /\ UNCHANGED logind

\* Some other peer, which may send what it likes, or a message that is neither
\* event, or cannot be parsed.
AnnounceOther ==
    /\ Connected
    /\ \E m \in {Signal("sleep", Foreign, TRUE), Noise}
               \cup {OwnerClaimed(new) : new \in Unique \cup {NoOwner, Foreign}} :
         Deliver(m)
    /\ UNCHANGED logind

\* logind stops, or starts under a unique name never seen before.
LogindChanges(new) ==
    /\ events < MaxEvents
    /\ events' = events + 1
    /\ logind' = new
    /\ \/ logind # NoOwner /\ new = NoOwner
       \/ logind = NoOwner /\ new \in Unique \ used
    /\ used' = used \cup ({new} \ {NoOwner})
    /\ stream' = IF "owner" \in subs THEN Append(stream, OwnerChanged(new)) ELSE stream
    /\ UNCHANGED <<calls, subs, stage, skipped, owner, session, delay, listening,
                   channel, breaks, lossVars>>

----------------------------------------------------------------------------
\* wait_for_reply and reply_string find their reply: an error ends the
\* connection, or, for the two questions, answers them with None.
ReadReply ==
    /\ stage \in Waiting /\ stream # <<>>
    /\ LET m == Head(stream) IN
       /\ m.kind = "reply" /\ m.call = stage
       /\ \/ /\ m.val = "error" /\ stage # "ask-session"
             /\ Close
             /\ UNCHANGED <<delay, listening, channel, boundVars>>
          \/ /\ m.val # "error" \/ stage = "ask-session"
             /\ stage' = After(stage)
             /\ stream' = Tail(stream)
             /\ skipped' = 0
             /\ calls' = IF After(stage) = "watching" THEN calls
                         ELSE Append(calls, After(stage))
             /\ owner' = IF stage = "ask-owner" THEN m.val ELSE owner
             /\ session' = (stage = "ask-session" /\ m.val = "ours")
             /\ UNCHANGED <<logind, used, subs, delay, listening, channel,
                            boundVars, lossVars>>

\* What else comes meanwhile is thrown away, and after MaxSkip messages
\* wait_for_reply fails and reply_string answers None.
ReadOther ==
    /\ stage \in Waiting /\ stream # <<>>
    /\ LET m == Head(stream) IN
       /\ ~(m.kind = "reply" /\ m.call = stage)
       /\ IF skipped + 1 < MaxSkip
          THEN /\ stage' = stage
               /\ stream' = Tail(stream)
               /\ skipped' = skipped + 1
               /\ UNCHANGED <<calls, subs>>
          ELSE IF stage \in {"ask-owner", "ask-session"}
          THEN /\ stage' = After(stage)
               /\ stream' = Tail(stream)
               /\ skipped' = 0
               /\ calls' = IF After(stage) = "watching" THEN calls
                           ELSE Append(calls, After(stage))
               /\ UNCHANGED subs
          ELSE /\ stage' = "sleeping"
               /\ calls' = <<>> /\ subs' = {} /\ stream' = <<>>
               /\ UNCHANGED skipped
       /\ stale' = (stale \/ Told(m))
    /\ UNCHANGED <<logind, used, owner, session, delay, listening, channel,
                   boundVars, ignored, misled>>

\* classify_from: a suspend, or a screen lock that may be ours, from whoever
\* owns logind's name as far as run() knows; from anyone when nobody does.
Classify(m) ==
    /\ m.kind \in {"sleep", "lock"}
    /\ owner # NoOwner => m.from = owner
    /\ m.kind = "lock" /\ session => m.ours

\* Mutant: an event is not passed on while logind's owner is not known.
ReadSignalOfKnown ==
    /\ stage = "watching" /\ stream # <<>>
    /\ LET m == Head(stream) IN
       /\ owner' = IF m.kind = "owner" THEN m.val ELSE owner
       /\ misled' = IF m.kind = "owner" THEN ~m.genuine ELSE misled
       /\ ignored' = ignored + (IF Suspend(m) /\ ~misled /\ ~Classify(m) THEN 1 ELSE 0)
       /\ IF Classify(m) /\ ~listening
          THEN /\ stage' = "sleeping"
               /\ delay' = FirstDelay
               /\ calls' = <<>> /\ subs' = {} /\ stream' = <<>>
               /\ UNCHANGED channel
          ELSE /\ stream' = Tail(stream)
               /\ channel' = IF Classify(m) /\ owner # NoOwner
                             THEN Append(channel, m.kind) ELSE channel
               /\ UNCHANGED <<stage, delay, calls, subs>>
    /\ UNCHANGED <<logind, used, skipped, session, listening, boundVars,
                   stale>>

\* The loop of run(): a change of owner is believed as it comes.  A send that fails means the agent is gone: Ok, and the
\* delay starts over.
ReadSignal ==
    /\ stage = "watching" /\ stream # <<>>
    /\ LET m == Head(stream) IN
       /\ owner' = IF m.kind = "owner" THEN m.val ELSE owner
       /\ misled' = IF m.kind = "owner" THEN ~m.genuine ELSE misled
       /\ ignored' = ignored + (IF Suspend(m) /\ ~misled /\ ~Classify(m) THEN 1 ELSE 0)
       /\ IF Classify(m) /\ ~listening
          THEN /\ stage' = "sleeping"
               /\ delay' = FirstDelay
               /\ calls' = <<>> /\ subs' = {} /\ stream' = <<>>
               /\ UNCHANGED channel
          ELSE /\ stream' = Tail(stream)
               /\ channel' = IF Classify(m) THEN Append(channel, m.kind) ELSE channel
               /\ UNCHANGED <<stage, delay, calls, subs>>
    /\ UNCHANGED <<logind, used, skipped, session, listening, boundVars,
                   stale>>

\* The agent drains the channel, or drops the receiver and exits.
AgentDrains ==
    /\ listening /\ channel # <<>>
    /\ channel' = <<>>
    /\ UNCHANGED <<busVars, stage, skipped, owner, session, delay, listening,
                   boundVars, lossVars>>

AgentExits ==
    /\ listening
    /\ listening' = FALSE
    /\ channel' = <<>>
    /\ UNCHANGED <<busVars, stage, skipped, owner, session, delay, boundVars,
                   lossVars>>

Read == ReadReply \/ ReadOther \/ ReadSignal

Next ==
    \/ Connect \/ Break \/ Wake \/ BusAnswers \/ BusRefuses
    \/ AnnounceSleep \/ AnnounceLock \/ AnnounceOther
    \/ \E new \in Unique \cup {NoOwner} : LogindChanges(new)
    \/ Read
    \/ AgentDrains \/ AgentExits

Spec == Init /\ [][Next]_vars

\* The thread runs, and the bus and logind answer what they are asked.
FairSpec ==
    /\ Spec
    /\ WF_vars(Connect) /\ WF_vars(Wake) /\ WF_vars(BusAnswers \/ BusRefuses)
    /\ WF_vars(Read)

----------------------------------------------------------------------------
\* Every variable has its type; the retry delay stays within its two bounds.
TypeOK ==
    /\ logind \in Unique \cup {NoOwner} /\ used \subseteq Unique
    /\ stage \in Waiting \cup {"connect", "watching", "sleeping"}
    /\ subs \subseteq {"sleep", "lock", "owner"}
    /\ skipped \in 0 .. MaxSkip - 1
    /\ owner \in Unique \cup {NoOwner, Foreign} /\ session \in BOOLEAN
    /\ delay \in FirstDelay .. MaxDelay
    /\ listening \in BOOLEAN /\ stale \in BOOLEAN /\ misled \in BOOLEAN
    /\ events \in 0 .. MaxEvents /\ breaks \in 0 .. MaxBreaks

\* Once watching, the name the watcher takes for logind, brought up to date by
\* the changes still to be read, is the owner of the name now, or none, which
\* believes everybody: it is never a dead name, unless a change was thrown away
\* before, or the last change it believed was not the bus's (sleepwatch.rs: "logind
\* came or went: re-learn who it is", which asks neither who sent the message nor
\* which name it is about).  The next genuine change puts the second right.
OwnerFollows ==
    LET Changes == {k \in 1 .. Len(stream) : Told(stream[k])} IN
    stage = "watching" /\ ~stale =>
        /\ Changes = {} => misled \/ owner \in {logind, NoOwner}
        /\ \A k \in Changes :
              (\A j \in Changes : j <= k) => stream[k].val = logind

\* A suspend that is read is acted on, through restarts of logind and whatever
\* order its last words and the change of owner arrive in, unless a change of
\* owner was thrown away while subscribing, or one that was not the bus's is the
\* last believed, which is not counted.
SuspendBelieved == ignored > 0 => stale

\* The two together: the watcher knows logind, and so believes it.
LogindKnown == OwnerFollows /\ SuspendBelieved

\* A suspend that reaches a watching connection gets to the agent, behind any
\* number of other messages and restarts of logind, unless the bus goes away
\* first (sleepwatch.rs: run), or a change of owner that is not the bus's was
\* believed, or waits in front of it.
SuspendHeard ==
    /\ stage = "watching" /\ ~stale /\ ~misled
    /\ \E k \in 1 .. Len(stream) :
         /\ Suspend(stream[k])
         /\ \A j \in 1 .. k : stream[j].kind = "owner" => Told(stream[j])
    ~> stage # "watching" \/ ~listening \/ \E k \in 1 .. Len(channel) : channel[k] = "sleep"

\* Once the bus stops failing, the watcher ends up watching with nothing left
\* unread, whatever was sent while it subscribed (sleepwatch.rs: spawn).
Recovers == <>[](stage = "watching" /\ stream = <<>>) \/ []<>(~listening)

============================================================================
