-------------------------- MODULE SleepWatchProofs --------------------------
(***************************************************************************)
(* Proofs about the suspend watcher, for every number of restarts of       *)
(* logind, of messages and of failures of the bus, and every retry delay:  *)
(* once it watches it knows who logind is, and believes its suspends.      *)
(***************************************************************************)
EXTENDS SleepWatch, TLAPS, SequenceTheorems

----------------------------------------------------------------------------
\* What the stream says of logind.

Name == Unique \cup {NoOwner}

Message ==
    [kind : {"reply"}, call : Waiting \ {"ask-owner"}, val : {"ok", "ours", "error"}]
    \cup [kind : {"reply"}, call : {"ask-owner"}, val : Name]
    \cup [kind : {"sleep", "lock"}, from : Name \cup {Foreign}, ours : BOOLEAN]
    \cup [kind : {"owner"}, val : Name, genuine : {TRUE}]
    \cup [kind : {"owner"}, val : Name \cup {Foreign}, genuine : {FALSE}]
    \cup [kind : {"noise"}]

\* A message sent while logind's name was `before', after which it was `after'.
Fits(m, before, after) ==
    /\ after = IF Told(m) THEN m.val ELSE before
    /\ m.kind = "sleep" /\ m.from # Foreign => m.from = before
    /\ m.kind = "reply" /\ m.call = "ask-owner" => m.val = before

\* From the q-th message on the stream tells every change of the name: was[k] is what
\* it was after the k-th, and who is what it is now.
Chronicle(s, q, was, who) ==
    /\ was[Len(s)] = who
    /\ \A k \in q + 1 .. Len(s) : Fits(s[k], was[k - 1], was[k])
    /\ \A j, k \in q .. Len(s) :
         j < k /\ (\A i \in j + 1 .. k : ~Told(s[i])) => was[j] = was[k]

\* The bus has taken up the subscription to changes of the owner.
Subscribes(m) == m.kind = "reply" /\ m.call = "match-owner" /\ m.val # "error"

\* One more message on the stream, and what it says of logind's owner.
LEMMA ChronicleGrows ==
    ASSUME NEW s \in Seq(Message), NEW q \in 0 .. Len(s), NEW was \in [Nat -> Name],
           NEW who \in Name, Chronicle(s, q, was, who), NEW m \in Message, NEW new \in Name,
           Fits(m, who, new)
    PROVE  \E w \in [Nat -> Name] : w[0] = was[0] /\ Chronicle(Append(s, m), q, w, new)
  <1>1. PICK n \in Nat : n = Len(s)
    BY LenProperties
  <1>2. PICK t : t = Append(s, m)
    OBVIOUS
  <1>3. Len(t) = n + 1 /\ t[n + 1] = m /\ \A i \in 1 .. n : t[i] = s[i]
    BY <1>1, <1>2, AppendProperties
  <1>4. PICK w \in [Nat -> Name] : w = [was EXCEPT ![n + 1] = new]
    OBVIOUS
  <1>5. w[n + 1] = new /\ \A k \in 0 .. n : w[k] = was[k]
    BY <1>1, <1>4
  <1>6. was[n] = who
    BY <1>1 DEF Chronicle
  <1>7. ASSUME NEW k \in q + 1 .. n + 1 PROVE Fits(t[k], w[k - 1], w[k])
    <2>1. CASE k = n + 1
      BY <1>1, <1>3, <1>5, <1>6, <2>1
    <2>2. CASE k # n + 1
      <3>1. k \in 1 .. n /\ k - 1 \in 0 .. n /\ k \in q + 1 .. Len(s)
        BY <1>1, <2>2
      <3> QED
        BY <1>3, <1>5, <3>1 DEF Chronicle
    <2> QED
      BY <2>1, <2>2
  <1>8. ASSUME NEW j \in q .. n + 1, NEW k \in q .. n + 1, j < k,
               \A i \in j + 1 .. k : ~Told(t[i])
        PROVE  w[j] = w[k]
    <2>1. \A i \in j + 1 .. k : i \in 1 .. n => ~Told(s[i])
      BY <1>3, <1>8
    <2>2. CASE k # n + 1
      <3>1. j \in q .. Len(s) /\ k \in q .. Len(s) /\ j \in 0 .. n /\ k \in 0 .. n
        BY <1>1, <1>8, <2>2
      <3>2. \A i \in j + 1 .. k : ~Told(s[i])
        BY <1>1, <2>1, <3>1
      <3>3. was[j] = was[k]
        BY <1>8, <3>1, <3>2 DEF Chronicle
      <3> QED
        BY <1>5, <3>1, <3>3
    <2>3. CASE k = n + 1
      <3>1. ~Told(m)
        BY <1>1, <1>3, <1>8, <2>3
      <3>2. new = who
        BY <3>1 DEF Fits
      <3>3. j \in q .. Len(s) /\ n \in q .. Len(s) /\ j \in 0 .. n
        BY <1>1, <1>8, <2>3
      <3>4. was[j] = was[n]
        <4>1. CASE j = n
          BY <4>1
        <4>2. CASE j # n
          <5>1. j < n
            BY <3>3, <4>2
          <5>2. \A i \in j + 1 .. n : ~Told(s[i])
            BY <1>1, <2>1, <2>3, <3>3
          <5> QED
            BY <3>3, <5>1, <5>2 DEF Chronicle
        <4> QED
          BY <4>1, <4>2
      <3> QED
        BY <1>1, <1>5, <1>6, <2>3, <3>2, <3>3, <3>4
    <2> QED
      BY <2>2, <2>3
  <1>9. Chronicle(t, q, w, new)
    BY <1>3, <1>5, <1>7, <1>8 DEF Chronicle
  <1> QED
    BY <1>1, <1>2, <1>5, <1>9

\* The first message of the stream is read.
LEMMA ChroniclePasses ==
    ASSUME NEW s \in Seq(Message), s # <<>>, NEW q \in 0 .. Len(s), NEW was \in [Nat -> Name],
           NEW who \in Name, Chronicle(s, q, was, who)
    PROVE  \E w \in [Nat -> Name] :
             /\ Chronicle(Tail(s), IF q = 0 THEN 0 ELSE q - 1, w, who)
             /\ q = 0 => Fits(Head(s), was[0], w[0])
  <1>1. PICK n \in Nat \ {0} : n = Len(s)
    BY EmptySeq
  <1>2. PICK t : t = Tail(s)
    OBVIOUS
  <1>3. Len(t) = n - 1 /\ \A i \in 1 .. n - 1 : t[i] = s[i + 1]
    BY <1>1, <1>2, HeadTailProperties
  <1>4. Head(s) = s[1]
    BY <1>1
  <1>5. PICK w \in [Nat -> Name] : \A k \in Nat : w[k] = was[k + 1]
    <2>1. [k \in Nat |-> was[k + 1]] \in [Nat -> Name]
      OBVIOUS
    <2> QED
      BY <2>1
  <1>6. PICK r \in 0 .. n - 1 : r = IF q = 0 THEN 0 ELSE q - 1
    BY <1>1
  <1>7. ASSUME NEW k \in r + 1 .. n - 1 PROVE Fits(t[k], w[k - 1], w[k])
    <2>1. k \in 1 .. n - 1 /\ k + 1 \in q + 1 .. Len(s) /\ k - 1 \in Nat /\ k \in Nat
          /\ (k + 1) - 1 = k /\ (k - 1) + 1 = k
      BY <1>1, <1>6
    <2>2. Fits(s[k + 1], was[k], was[k + 1])
      BY <2>1 DEF Chronicle
    <2> QED
      BY <1>3, <1>5, <2>1, <2>2
  <1>8. ASSUME NEW j \in r .. n - 1, NEW k \in r .. n - 1, j < k,
               \A i \in j + 1 .. k : ~Told(t[i])
        PROVE  w[j] = w[k]
    <2>1. j + 1 \in q .. Len(s) /\ k + 1 \in q .. Len(s) /\ j + 1 < k + 1
          /\ j \in Nat /\ k \in Nat
      BY <1>1, <1>6, <1>8
    <2>2. ASSUME NEW i \in (j + 1) + 1 .. k + 1 PROVE ~Told(s[i])
      <3>1. i - 1 \in j + 1 .. k /\ i - 1 \in 1 .. n - 1 /\ (i - 1) + 1 = i
        BY <1>6, <2>1
      <3> QED
        BY <1>3, <1>8, <3>1
    <2>3. was[j + 1] = was[k + 1]
      BY <2>1, <2>2 DEF Chronicle
    <2> QED
      BY <1>5, <2>1, <2>3
  <1>9. w[n - 1] = who
    <2>1. n - 1 \in Nat /\ (n - 1) + 1 = n
      BY <1>1
    <2> QED
      BY <1>1, <1>5, <2>1 DEF Chronicle
  <1>10. Chronicle(t, r, w, who)
    BY <1>3, <1>7, <1>8, <1>9 DEF Chronicle
  <1>11. ASSUME q = 0 PROVE Fits(Head(s), was[0], w[0])
    <2>1. 1 \in q + 1 .. Len(s) /\ 1 - 1 = 0 /\ 0 + 1 = 1
      BY <1>1, <1>11
    <2>2. Fits(s[1], was[0], was[1])
      BY <2>1 DEF Chronicle
    <2> QED
      BY <1>4, <1>5, <2>1, <2>2
  <1> QED
    BY <1>2, <1>6, <1>10, <1>11

----------------------------------------------------------------------------
\* The inductive invariant.

WatchTypes ==
    /\ TypeOK
    /\ stream \in Seq(Message) /\ calls \in Seq(Waiting)
    /\ ignored \in Nat

\* The stages after the subscription.
Past == {"ask-owner", "ask-session", "watching"}

\* What follows the bus's consent to the subscription is a chronicle.
Announced ==
    \A q \in 1 .. Len(stream) :
        Subscribes(stream[q]) =>
            /\ "owner" \in subs
            /\ \E was \in [Nat -> Name] : Chronicle(stream, q, was, logind)

\* Once the question is answered the watcher takes for logind whoever was when the
\* stream begins, unless it threw a change away or believed one that was not the
\* bus's; until then, nobody.
Knows ==
    /\ stage \in Waiting \ {"ask-session"} => owner = NoOwner
    /\ stage \in Past =>
          /\ "owner" \in subs
          /\ \E was \in [Nat -> Name] :
                /\ Chronicle(stream, 0, was, logind)
                /\ stage # "ask-owner" /\ ~stale /\ ~misled => owner \in {was[0], NoOwner}

Follows == Announced /\ Knows /\ SuspendBelieved

WatchInv == WatchTypes /\ Follows

----------------------------------------------------------------------------
\* Types.

\* What the bus sends is a message.
LEMMA MessageTypes ==
    /\ \A call \in Waiting \ {"ask-owner"}, val \in {"ok", "ours", "error"} :
         Reply(call, val) \in Message
    /\ \A name \in Name : Reply("ask-owner", name) \in Message
    /\ \A k \in {"sleep", "lock"}, from \in Name \cup {Foreign}, ours \in BOOLEAN :
         Signal(k, from, ours) \in Message
    /\ \A new \in Name : OwnerChanged(new) \in Message
    /\ \A new \in Name \cup {Foreign} : OwnerClaimed(new) \in Message
    /\ Noise \in Message
  BY DEF Reply, Signal, OwnerChanged, OwnerClaimed, Noise, Message

\* The watcher has its types when it starts.
LEMMA TypesInit == Init => WatchTypes
  <1> SUFFICES ASSUME Init PROVE WatchTypes
    OBVIOUS
  <1>1. 0 \in 0 .. MaxSkip - 1 /\ 0 \in 0 .. MaxEvents /\ 0 \in 0 .. MaxBreaks
        /\ FirstDelay \in FirstDelay .. MaxDelay
    BY WatchAssumption
  <1>2. stream \in Seq(Message) /\ calls \in Seq(Waiting)
    BY EmptySeq DEF Init
  <1> QED
    BY <1>1, <1>2 DEF Init, WatchTypes, TypeOK

\* Every step keeps the types.
LEMMA TypesStep ==
    ASSUME WatchTypes, [Next]_vars
    PROVE  WatchTypes'
  <1> USE DEF WatchTypes, TypeOK
  <1>0. <<>> \in Seq(Message) /\ <<>> \in Seq(Waiting)
    BY EmptySeq
  <1>1. stream # <<>> => Head(stream) \in Message /\ Tail(stream) \in Seq(Message)
    BY HeadTailProperties
  <1>2. calls # <<>> => Head(calls) \in Waiting /\ Tail(calls) \in Seq(Waiting)
    BY HeadTailProperties
  <1>3. \A m \in Message : Append(stream, m) \in Seq(Message)
    BY AppendProperties
  <1>4. \A c \in Waiting : Append(calls, c) \in Seq(Waiting)
    BY AppendProperties
  <1>5. \A c \in Waiting : After(c) \in Waiting \cup {"watching"}
    BY DEF After, Waiting
  <1>6. 0 \in 0 .. MaxSkip - 1 /\ skipped + 1 \in Nat
        /\ (skipped + 1 < MaxSkip => skipped + 1 \in 0 .. MaxSkip - 1)
    BY WatchAssumption
  <1>7. (events < MaxEvents => events + 1 \in 0 .. MaxEvents)
        /\ (breaks < MaxBreaks => breaks + 1 \in 0 .. MaxBreaks)
    BY WatchAssumption
  <1>8. CASE UNCHANGED vars
    BY <1>8 DEF vars, busVars, boundVars, lossVars
  <1>9. CASE Connect
    <2>1. <<"hello">> \in Seq(Waiting)
      BY DEF Waiting
    <2> QED
      BY <1>6, <1>9, <2>1 DEF Connect, boundVars, Waiting
  <1>10. CASE Break
    BY <1>0, <1>7, <1>10 DEF Break, Close, lossVars
  <1>11. CASE Wake
    <2>1. delay' \in FirstDelay .. MaxDelay
      BY <1>11, WatchAssumption DEF Wake
    <2> QED
      BY <1>11, <2>1 DEF Wake, busVars, boundVars, lossVars
  <1>12. CASE BusAnswers
    <2>1. \A val \in Answers(Head(calls)) : Reply(Head(calls), val) \in Message
      BY <1>2, <1>12, MessageTypes DEF Answers, Name, BusAnswers
    <2>2. Rules(Head(calls)) \subseteq {"sleep", "lock", "owner"}
      BY DEF Rules
    <2>3. stream' \in Seq(Message)
      BY <1>3, <1>12, <2>1 DEF BusAnswers
    <2> QED
      BY <1>2, <1>12, <2>2, <2>3 DEF BusAnswers, boundVars, lossVars
  <1>13. CASE BusRefuses
    <2>1. Head(calls) # "ask-owner"
      BY <1>13 DEF BusRefuses, Rules
    <2> QED
      BY <1>2, <1>3, <1>7, <1>13, <2>1, MessageTypes DEF BusRefuses, lossVars
  <1>14. ASSUME NEW m \in Message, Deliver(m), logind' = logind PROVE WatchTypes'
    BY <1>3, <1>7, <1>14 DEF Deliver, lossVars
  <1>15. CASE AnnounceSleep \/ AnnounceLock \/ AnnounceOther
    <2>1. logind \in Name \cup {Foreign} /\ Foreign \in Name \cup {Foreign}
      BY DEF Name
    <2> QED
      BY <1>14, <1>15, <2>1, MessageTypes
         DEF Name, AnnounceSleep, AnnounceLock, AnnounceOther
  <1>16. ASSUME NEW new \in Unique \cup {NoOwner}, LogindChanges(new) PROVE WatchTypes'
    <2>1. stream' \in Seq(Message)
      BY <1>3, <1>16, MessageTypes DEF LogindChanges, Name
    <2> QED
      BY <1>7, <1>16, <2>1 DEF LogindChanges, lossVars
  <1>17. CASE ReadReply
    <2>1. CASE Close /\ UNCHANGED <<delay, listening, channel, boundVars>>
      BY <1>0, <2>1 DEF Close, boundVars, lossVars
    <2>2. CASE /\ stage' = After(stage) /\ stream' = Tail(stream) /\ skipped' = 0
               /\ calls' = IF After(stage) = "watching" THEN calls
                           ELSE Append(calls, After(stage))
               /\ owner' = IF stage = "ask-owner" THEN Head(stream).val ELSE owner
               /\ session' = (stage = "ask-session" /\ Head(stream).val = "ours")
               /\ UNCHANGED <<logind, used, subs, delay, listening, channel, boundVars, lossVars>>
      <3>1. stage \in Waiting /\ stream # <<>> /\ Head(stream).kind = "reply"
            /\ Head(stream).call = stage
        BY <1>17 DEF ReadReply
      <3>2. stage = "ask-owner" => Head(stream).val \in Name
        BY <1>1, <3>1 DEF Message
      <3>3. calls' \in Seq(Waiting)
        BY <1>4, <1>5, <2>2, <3>1
      <3> QED
        BY <1>1, <1>5, <1>6, <2>2, <3>1, <3>2, <3>3 DEF boundVars, lossVars, Name
    <2> QED
      BY <1>17, <2>1, <2>2 DEF ReadReply
  <1>18. CASE ReadOther
    <2>1. stage \in Waiting /\ stream # <<>>
      BY <1>18 DEF ReadOther
    <2>2. stage' \in Waiting \cup {"sleeping", "watching"} /\ calls' \in Seq(Waiting)
          /\ stream' \in Seq(Message) /\ skipped' \in 0 .. MaxSkip - 1
          /\ subs' \subseteq {"sleep", "lock", "owner"}
      BY <1>0, <1>1, <1>4, <1>5, <1>6, <1>18, <2>1 DEF ReadOther
    <2>3. stale' \in BOOLEAN
      BY <1>18 DEF ReadOther, Told
    <2> QED
      BY <1>18, <2>2, <2>3 DEF ReadOther, boundVars
  <1>19. CASE ReadSignal
    <2>1. stream # <<>>
      BY <1>19 DEF ReadSignal
    <2>2. owner' \in Unique \cup {NoOwner, Foreign} /\ misled' \in BOOLEAN
      <3>1. Head(stream).kind = "owner" => /\ Head(stream).val \in Name \cup {Foreign}
                                           /\ Head(stream).genuine \in BOOLEAN
        BY <1>1, <2>1 DEF Message
      <3> QED
        BY <1>19, <3>1 DEF ReadSignal, Name
    <2>3. stage' \in {"watching", "sleeping"} /\ delay' \in FirstDelay .. MaxDelay
          /\ calls' \in Seq(Waiting) /\ stream' \in Seq(Message)
          /\ subs' \subseteq {"sleep", "lock", "owner"}
      <3>1. FirstDelay \in FirstDelay .. MaxDelay
        BY WatchAssumption
      <3>2. CASE Classify(Head(stream)) /\ ~listening
        BY <1>0, <1>19, <3>1, <3>2 DEF ReadSignal
      <3>3. CASE ~(Classify(Head(stream)) /\ ~listening)
        BY <1>1, <1>19, <2>1, <3>3 DEF ReadSignal
      <3> QED
        BY <3>2, <3>3
    <2>4. ignored' \in Nat
      BY <1>19 DEF ReadSignal
    <2> QED
      BY <1>19, <2>2, <2>3, <2>4 DEF ReadSignal, boundVars
  <1>20. CASE AgentDrains \/ AgentExits
    BY <1>20 DEF AgentDrains, AgentExits, busVars, boundVars, lossVars
  <1> QED
    BY <1>8, <1>9, <1>10, <1>11, <1>12, <1>13, <1>15, <1>16, <1>17, <1>18, <1>19, <1>20
    DEF Next, Read

----------------------------------------------------------------------------
\* The steps.

\* Before the first connection nothing is announced or believed.
LEMMA FollowsInit == Init => Follows
  BY EmptySeq DEF Init, Follows, Announced, Knows, SuspendBelieved, Past, Waiting

\* Whatever ends a connection ends its chronicle.
LEMMA Closed ==
    ASSUME stage' = "sleeping", stream' = <<>>, ignored' > 0 => stale'
    PROVE  Follows'
  BY EmptySeq DEF Follows, Announced, Knows, SuspendBelieved, Past, Waiting

\* Whatever the bus sends continues it.
LEMMA Sent ==
    ASSUME WatchInv, NEW m \in Message, stream' = Append(stream, m), subs \subseteq subs',
           logind' \in Name, "owner" \in subs => Fits(m, logind, logind'),
           Subscribes(m) => "owner" \in subs',
           UNCHANGED <<stage, owner, stale, misled, ignored>>
    PROVE  Follows'
  <1>1. stream \in Seq(Message) /\ logind \in Name
    BY DEF WatchInv, WatchTypes, TypeOK, Name
  <1>2. PICK n \in Nat : n = Len(stream)
    BY <1>1, LenProperties
  <1>3. Len(stream') = n + 1 /\ stream'[n + 1] = m /\ \A i \in 1 .. n : stream'[i] = stream[i]
    BY <1>1, <1>2, AppendProperties
  <1>4. ASSUME NEW q \in 1 .. Len(stream'), Subscribes(stream'[q])
        PROVE  /\ "owner" \in subs'
               /\ \E was \in [Nat -> Name] : Chronicle(stream', q, was, logind')
    <2>1. CASE q \in 1 .. n
      <3>1. Subscribes(stream[q]) /\ q \in 1 .. Len(stream)
        BY <1>2, <1>3, <1>4, <2>1
      <3>2. "owner" \in subs
        BY <3>1 DEF WatchInv, Follows, Announced
      <3>3. PICK was \in [Nat -> Name] : Chronicle(stream, q, was, logind)
        BY <3>1 DEF WatchInv, Follows, Announced
      <3>4. q \in 0 .. Len(stream) /\ Fits(m, logind, logind')
        BY <3>1, <3>2
      <3>5. \E w \in [Nat -> Name] : w[0] = was[0] /\ Chronicle(Append(stream, m), q, w, logind')
        BY <1>1, <3>3, <3>4, ChronicleGrows
      <3> QED
        BY <3>2, <3>5
    <2>2. CASE q = n + 1
      <3>1. PICK w \in [Nat -> Name] : w = [k \in Nat |-> logind']
        OBVIOUS
      <3>2. Chronicle(stream', q, w, logind')
        BY <1>2, <1>3, <2>2, <3>1 DEF Chronicle
      <3> QED
        BY <1>3, <1>4, <2>2, <3>2
    <2> QED
      BY <1>2, <1>3, <1>4, <2>1, <2>2
  <1>5. ASSUME stage \in Past
        PROVE  /\ "owner" \in subs'
               /\ \E was \in [Nat -> Name] :
                    /\ Chronicle(stream', 0, was, logind')
                    /\ stage # "ask-owner" /\ ~stale /\ ~misled => owner \in {was[0], NoOwner}
    <2>1. "owner" \in subs
      BY <1>5 DEF WatchInv, Follows, Knows
    <2>2. PICK was \in [Nat -> Name] :
            /\ Chronicle(stream, 0, was, logind)
            /\ stage # "ask-owner" /\ ~stale /\ ~misled => owner \in {was[0], NoOwner}
      BY <1>5 DEF WatchInv, Follows, Knows
    <2>3. 0 \in 0 .. Len(stream) /\ Fits(m, logind, logind')
      BY <1>2, <2>1
    <2>4. \E w \in [Nat -> Name] : w[0] = was[0] /\ Chronicle(Append(stream, m), 0, w, logind')
      BY <1>1, <2>2, <2>3, ChronicleGrows
    <2> QED
      BY <2>1, <2>2, <2>4
  <1>6. Announced'
    BY <1>4 DEF Announced
  <1>7. Knows'
    BY <1>5 DEF Knows, WatchInv, Follows
  <1> QED
    BY <1>6, <1>7 DEF Follows, SuspendBelieved, WatchInv

\* A message read is the chronicle's first: it told the truth of logind then, and
\* what is left of the stream is a chronicle still.
LEMMA ReadAway ==
    ASSUME WatchInv, stream # <<>>, stream' = Tail(stream), UNCHANGED <<logind, subs>>
    PROVE  /\ Announced'
           /\ Subscribes(Head(stream)) =>
                /\ "owner" \in subs
                /\ \E w \in [Nat -> Name] : Chronicle(stream', 0, w, logind)
           /\ stage \in Past =>
                \E b \in Name, w \in [Nat -> Name] :
                  /\ Chronicle(stream', 0, w, logind)
                  /\ Fits(Head(stream), b, w[0])
                  /\ stage # "ask-owner" /\ ~stale /\ ~misled => owner \in {b, NoOwner}
  <1>1. stream \in Seq(Message) /\ logind \in Name
    BY DEF WatchInv, WatchTypes, TypeOK, Name
  <1>2. PICK n \in Nat \ {0} : n = Len(stream)
    BY <1>1, EmptySeq
  <1>3. Len(stream') = n - 1 /\ \A i \in 1 .. n - 1 : stream'[i] = stream[i + 1]
    BY <1>1, <1>2, HeadTailProperties
  <1>4. ASSUME NEW q \in 1 .. n, Subscribes(stream[q])
        PROVE  /\ "owner" \in subs
               /\ \E w \in [Nat -> Name] : Chronicle(stream', q - 1, w, logind)
    <2>1. "owner" \in subs
      BY <1>2, <1>4 DEF WatchInv, Follows, Announced
    <2>2. PICK was \in [Nat -> Name] : Chronicle(stream, q, was, logind)
      BY <1>2, <1>4 DEF WatchInv, Follows, Announced
    <2>3. q \in 0 .. Len(stream) /\ q # 0
      BY <1>2
    <2>4. \E w \in [Nat -> Name] : Chronicle(Tail(stream), IF q = 0 THEN 0 ELSE q - 1, w, logind)
      BY <1>1, <2>2, <2>3, ChroniclePasses
    <2> QED
      BY <2>1, <2>3, <2>4
  <1>5. Announced'
    <2>1. ASSUME NEW q \in 1 .. Len(stream'), Subscribes(stream'[q])
          PROVE  /\ "owner" \in subs'
                 /\ \E w \in [Nat -> Name] : Chronicle(stream', q, w, logind')
      <3>1. q + 1 \in 1 .. n /\ (q + 1) - 1 = q /\ stream'[q] = stream[q + 1]
        BY <1>2, <1>3
      <3> QED
        BY <1>4, <2>1, <3>1
    <2> QED
      BY <2>1 DEF Announced
  <1>6. ASSUME Subscribes(Head(stream))
        PROVE  /\ "owner" \in subs
               /\ \E w \in [Nat -> Name] : Chronicle(stream', 0, w, logind)
    <2>1. Head(stream) = stream[1] /\ 1 \in 1 .. n /\ 1 - 1 = 0
      BY <1>2
    <2> QED
      BY <1>4, <1>6, <2>1
  <1>7. ASSUME stage \in Past
        PROVE  \E b \in Name, w \in [Nat -> Name] :
                 /\ Chronicle(stream', 0, w, logind)
                 /\ Fits(Head(stream), b, w[0])
                 /\ stage # "ask-owner" /\ ~stale /\ ~misled => owner \in {b, NoOwner}
    <2>1. PICK was \in [Nat -> Name] :
            /\ Chronicle(stream, 0, was, logind)
            /\ stage # "ask-owner" /\ ~stale /\ ~misled => owner \in {was[0], NoOwner}
      BY <1>7 DEF WatchInv, Follows, Knows
    <2>2. 0 \in 0 .. Len(stream)
      BY <1>2
    <2>3. PICK w \in [Nat -> Name] :
            /\ Chronicle(Tail(stream), IF 0 = 0 THEN 0 ELSE 0 - 1, w, logind)
            /\ 0 = 0 => Fits(Head(stream), was[0], w[0])
      BY <1>1, <2>1, <2>2, ChroniclePasses
    <2>4. was[0] \in Name
      OBVIOUS
    <2> QED
      BY <2>1, <2>3, <2>4
  <1> QED
    BY <1>5, <1>6, <1>7

\* A reply is read (sleepwatch.rs: wait_for_reply).
LEMMA ReplyKeeps ==
    ASSUME WatchInv, ReadReply
    PROVE  Follows'
  <1>1. /\ stage \in Waiting /\ stream # <<>>
        /\ Head(stream).kind = "reply" /\ Head(stream).call = stage
        /\ ignored \in Nat /\ (ignored > 0 => stale)
    BY DEF ReadReply, WatchInv, WatchTypes, Follows, SuspendBelieved
  <1>2. CASE Close
    <2>1. ignored' > 0 => stale'
      BY <1>1, <1>2 DEF Close, lossVars
    <2>2. stage' = "sleeping" /\ stream' = <<>>
      BY <1>2 DEF Close
    <2> QED
      BY <2>1, <2>2, Closed
  <1>3. CASE /\ Head(stream).val # "error" \/ stage = "ask-session"
             /\ stage' = After(stage) /\ stream' = Tail(stream)
             /\ owner' = IF stage = "ask-owner" THEN Head(stream).val ELSE owner
             /\ UNCHANGED <<logind, subs, lossVars>>
    <2>1. UNCHANGED <<ignored, stale, misled>>
      BY <1>3 DEF lossVars
    <2>2. Announced' /\ SuspendBelieved'
      BY <1>1, <1>3, <2>1, ReadAway DEF SuspendBelieved
    <2>3. Knows'
      <3>1. CASE stage \in {"hello", "match-sleep", "match-lock"}
        BY <1>3, <3>1 DEF After, Knows, WatchInv, Follows, Waiting, Past
      <3>2. CASE stage = "match-owner"
        <4>1. Subscribes(Head(stream))
          BY <1>1, <1>3, <3>2 DEF Subscribes
        <4>2. "owner" \in subs /\ \E w \in [Nat -> Name] : Chronicle(stream', 0, w, logind)
          BY <1>1, <1>3, <4>1, ReadAway
        <4>3. stage' = "ask-owner" /\ owner' = NoOwner
          BY <1>3, <3>2 DEF After, Knows, WatchInv, Follows, Waiting
        <4> QED
          BY <1>3, <4>2, <4>3 DEF Knows
      <3>3. CASE stage \in {"ask-owner", "ask-session"}
        <4>1. stage \in Past /\ stage' \in {"ask-session", "watching"}
          BY <1>3, <3>3 DEF Past, After
        <4>2. PICK b \in Name, w \in [Nat -> Name] :
                /\ Chronicle(stream', 0, w, logind)
                /\ Fits(Head(stream), b, w[0])
                /\ stage # "ask-owner" /\ ~stale /\ ~misled => owner \in {b, NoOwner}
          BY <1>1, <1>3, <4>1, ReadAway
        <4>3. w[0] = b
          BY <1>1, <4>2 DEF Fits, Told
        <4>4. stage = "ask-owner" => owner' = b
          BY <1>1, <1>3, <4>2 DEF Fits
        <4>5. ~stale /\ ~misled => owner' \in {w[0], NoOwner}
          BY <1>3, <3>3, <4>2, <4>3, <4>4
        <4>6. "owner" \in subs
          BY <4>1 DEF WatchInv, Follows, Knows
        <4> QED
          BY <1>3, <2>1, <4>1, <4>2, <4>5, <4>6 DEF Knows, Waiting
      <3> QED
        BY <1>1, <3>1, <3>2, <3>3 DEF Waiting
    <2> QED
      BY <2>2, <2>3 DEF Follows
  <1> QED
    BY <1>2, <1>3 DEF ReadReply

\* A signal is read while a reply is waited for, and dropped or noted (sleepwatch.rs: wait_for_reply).
LEMMA OtherKeeps ==
    ASSUME WatchInv, ReadOther
    PROVE  Follows'
  <1>1. /\ stage \in Waiting /\ stream # <<>>
        /\ stale' = (stale \/ Told(Head(stream)))
        /\ UNCHANGED <<logind, owner, ignored, misled>>
        /\ ignored \in Nat /\ (ignored > 0 => stale)
        /\ ~(Head(stream).kind = "reply" /\ Head(stream).call = stage)
    BY DEF ReadOther, WatchInv, WatchTypes, Follows, SuspendBelieved
  <1>2. CASE stage' = "sleeping" /\ stream' = <<>>
    <2>1. ignored' > 0 => stale'
      BY <1>1
    <2> QED
      BY <1>2, <2>1, Closed
  <1>3. CASE /\ stage' \in {stage} \cup (IF stage \in {"ask-owner", "ask-session"}
                                        THEN {After(stage)} ELSE {})
             /\ stream' = Tail(stream) /\ subs' = subs
    <2>1. Announced' /\ SuspendBelieved'
      BY <1>1, <1>3, ReadAway DEF SuspendBelieved
    <2>2. Knows'
      <3>1. CASE stage \notin Past
        BY <1>1, <1>3, <3>1 DEF Knows, WatchInv, Follows, Waiting, Past
      <3>2. CASE stage \in Past
        <4>1. PICK b \in Name, w \in [Nat -> Name] :
                /\ Chronicle(stream', 0, w, logind)
                /\ Fits(Head(stream), b, w[0])
                /\ stage # "ask-owner" /\ ~stale /\ ~misled => owner \in {b, NoOwner}
          BY <1>1, <1>3, <3>2, ReadAway
        <4>2. "owner" \in subs
          BY <3>2 DEF WatchInv, Follows, Knows
        <4>3. stage = "ask-owner" => owner = NoOwner
          BY <1>1 DEF WatchInv, Follows, Knows
        <4>4. ~stale' => ~stale /\ w[0] = b
          BY <1>1, <4>1 DEF Fits
        <4>5. ~stale' /\ ~misled => owner \in {w[0], NoOwner}
          BY <4>1, <4>3, <4>4
        <4>6. stage' = "ask-owner" => stage = "ask-owner"
          BY <1>3 DEF After
        <4>7. stage' \in Waiting \ {"ask-session"} => owner = NoOwner
          BY <1>3, <3>2, <4>3 DEF After, Past, Waiting
        <4> QED
          BY <1>1, <1>3, <4>1, <4>2, <4>5, <4>7 DEF Knows
      <3> QED
        BY <3>1, <3>2
    <2> QED
      BY <2>1, <2>2 DEF Follows
  <1> QED
    BY <1>2, <1>3 DEF ReadOther

\* A signal is read while the watcher waits for one (sleepwatch.rs: run).
LEMMA SignalKeeps ==
    ASSUME WatchInv, ReadSignal
    PROVE  Follows'
  <1>1. /\ stage = "watching" /\ stream # <<>>
        /\ owner' = IF Head(stream).kind = "owner" THEN Head(stream).val ELSE owner
        /\ misled' = IF Head(stream).kind = "owner" THEN ~Head(stream).genuine ELSE misled
        /\ UNCHANGED <<logind, stale>>
        /\ ignored \in Nat /\ (ignored > 0 => stale)
        /\ Head(stream) \in Message
    BY HeadTailProperties DEF ReadSignal, WatchInv, WatchTypes, Follows, SuspendBelieved
  <1>2. CASE Classify(Head(stream)) /\ ~listening
    <2>1. ignored' = ignored /\ stage' = "sleeping" /\ stream' = <<>>
      BY <1>1, <1>2 DEF ReadSignal
    <2>2. ignored' > 0 => stale'
      BY <1>1, <2>1
    <2> QED
      BY <2>1, <2>2, Closed
  <1>3. CASE ~(Classify(Head(stream)) /\ ~listening)
    <2>1. stream' = Tail(stream) /\ UNCHANGED <<stage, subs>>
      BY <1>3 DEF ReadSignal
    <2>2. Announced'
      BY <1>1, <2>1, ReadAway
    <2>3. stage \in Past
      BY <1>1 DEF Past
    <2>4. PICK b \in Name, w \in [Nat -> Name] :
            /\ Chronicle(stream', 0, w, logind)
            /\ Fits(Head(stream), b, w[0])
            /\ stage # "ask-owner" /\ ~stale /\ ~misled => owner \in {b, NoOwner}
      BY <1>1, <2>1, <2>3, ReadAway
    <2>5. ~stale /\ ~misled' => owner' \in {w[0], NoOwner}
      BY <1>1, <2>4 DEF Fits, Told
    <2>6. "owner" \in subs
      BY <2>3 DEF WatchInv, Follows, Knows
    <2>7. Knows'
      BY <1>1, <2>1, <2>4, <2>5, <2>6 DEF Knows, Waiting
    <2>8. ~stale => ignored' = ignored
      <3>1. ~stale /\ ~misled /\ Suspend(Head(stream)) => Classify(Head(stream))
        BY <1>1, <2>4 DEF Fits, Classify, Suspend, Told
      <3> QED
        BY <1>1, <3>1 DEF ReadSignal
    <2>9. SuspendBelieved'
      BY <1>1, <2>8 DEF SuspendBelieved
    <2> QED
      BY <2>2, <2>7, <2>9 DEF Follows
  <1> QED
    BY <1>2, <1>3

\* What touches neither the stream nor the watcher's belief.
LEMMA SteadyKeeps ==
    ASSUME Follows, UNCHANGED <<logind, stream, subs, stage, owner, stale, misled, ignored>>
    PROVE  Follows'
  BY DEF Follows, Announced, Knows, SuspendBelieved

\* The bus answers or refuses a call.
LEMMA BusKeeps ==
    ASSUME WatchInv, BusAnswers \/ BusRefuses
    PROVE  Follows'
  <1>1. logind \in Name /\ Head(calls) \in Waiting
    BY HeadTailProperties DEF WatchInv, WatchTypes, TypeOK, Name, BusAnswers, BusRefuses
  <1>2. PICK call, val :
          /\ call = Head(calls)
          /\ stream' = Append(stream, Reply(call, val)) /\ Reply(call, val) \in Message
          /\ \/ val \in Answers(call) /\ subs' = subs \cup Rules(call)
             \/ val = "error" /\ call # "ask-owner" /\ subs' = subs
          /\ UNCHANGED <<logind, stage, owner, stale, misled, ignored>>
    <2>1. CASE BusAnswers
      <3>1. \A val \in Answers(Head(calls)) : Reply(Head(calls), val) \in Message
        BY <1>1, MessageTypes DEF Answers
      <3> QED
        BY <2>1, <3>1 DEF BusAnswers, lossVars
    <2>2. CASE BusRefuses
      <3>1. Head(calls) # "ask-owner"
        BY <2>2 DEF BusRefuses, Rules
      <3>2. Reply(Head(calls), "error") \in Message
        BY <1>1, <3>1, MessageTypes
      <3> QED
        BY <2>2, <3>1, <3>2 DEF BusRefuses, lossVars
    <2> QED
      BY <2>1, <2>2
  <1>3. Reply(call, val).kind = "reply" /\ Reply(call, val).call = call
        /\ Reply(call, val).val = val
    BY DEF Reply
  <1>4. Fits(Reply(call, val), logind, logind')
    BY <1>2, <1>3 DEF Fits, Answers, Told
  <1>5. Subscribes(Reply(call, val)) => "owner" \in subs'
    BY <1>2, <1>3 DEF Subscribes, Rules
  <1>6. subs \subseteq subs'
    BY <1>2
  <1> QED
    BY <1>1, <1>2, <1>4, <1>5, <1>6, Sent

\* A signal that says nothing of logind's owner.
LEMMA DeliverKeeps ==
    ASSUME WatchInv, NEW m \in Message, Deliver(m), logind' = logind,
           ~Told(m), m.kind # "reply",
           m.kind = "sleep" => m.from \in {logind, Foreign}
    PROVE  Follows'
  <1>1. logind \in Name
    BY DEF WatchInv, WatchTypes, TypeOK, Name
  <1>2. Fits(m, logind, logind') /\ ~Subscribes(m)
    BY DEF Fits, Subscribes
  <1> QED
    BY <1>1, <1>2, Sent DEF Deliver, lossVars

\* Sleep, lock and the rest are announced.
LEMMA AnnounceKeeps ==
    ASSUME WatchInv, AnnounceSleep \/ AnnounceLock \/ AnnounceOther
    PROVE  Follows'
  <1>1. PICK m : /\ Deliver(m) /\ logind' = logind
                 /\ \/ m \in {Signal("sleep", logind, TRUE), Signal("sleep", Foreign, TRUE), Noise}
                    \/ \E ours \in BOOLEAN : m = Signal("lock", logind, ours)
                    \/ \E new \in Name \cup {Foreign} : m = OwnerClaimed(new)
    BY DEF AnnounceSleep, AnnounceLock, AnnounceOther, Name
  <1>2. logind \in Name \cup {Foreign} /\ Foreign \in Name \cup {Foreign}
    BY DEF WatchInv, WatchTypes, TypeOK, Name
  <1>3. m \in Message
    BY <1>1, <1>2, MessageTypes
  <1>4. ~Told(m) /\ m.kind # "reply" /\ (m.kind = "sleep" => m.from \in {logind, Foreign})
    BY <1>1 DEF Signal, Noise, OwnerClaimed, Told
  <1> QED
    BY <1>1, <1>3, <1>4, DeliverKeeps

\* logind starts, stops or is replaced.
LEMMA LogindKeeps ==
    ASSUME WatchInv, NEW new \in Unique \cup {NoOwner}, LogindChanges(new)
    PROVE  Follows'
  <1>1. logind' = new /\ new \in Name /\ UNCHANGED <<subs, stage, owner, stale, misled, ignored>>
    BY DEF LogindChanges, Name, lossVars
  <1>2. CASE "owner" \in subs
    <2>1. stream' = Append(stream, OwnerChanged(new)) /\ OwnerChanged(new) \in Message
      BY <1>1, <1>2, MessageTypes DEF LogindChanges
    <2>2. Fits(OwnerChanged(new), logind, logind') /\ ~Subscribes(OwnerChanged(new))
      BY <1>1 DEF Fits, Subscribes, OwnerChanged, Told
    <2> QED
      BY <1>1, <2>1, <2>2, Sent
  <1>3. CASE "owner" \notin subs
    <2>1. stream' = stream
      BY <1>3 DEF LogindChanges
    <2>2. stage \notin Past /\ \A q \in 1 .. Len(stream) : ~Subscribes(stream[q])
      BY <1>3 DEF WatchInv, Follows, Announced, Knows
    <2> QED
      BY <1>1, <2>1, <2>2 DEF WatchInv, Follows, Announced, Knows, SuspendBelieved
  <1> QED
    BY <1>2, <1>3

\* Every step keeps the invariant.
LEMMA WatchStep == WatchInv /\ [Next]_vars => WatchInv'
  <1> SUFFICES ASSUME WatchInv, [Next]_vars PROVE Follows'
    BY TypesStep DEF WatchInv
  <1>1. CASE UNCHANGED vars
    BY <1>1, SteadyKeeps DEF vars, busVars, lossVars, WatchInv
  <1>2. CASE Connect
    <2>1. Announced'
      BY <1>2 DEF Connect, WatchInv, Follows, Announced
    <2> QED
      BY <1>2, <2>1 DEF Connect, Follows, Knows, SuspendBelieved, Past
  <1>3. CASE Break
    <2>1. ignored' > 0 => stale'
      BY <1>3 DEF Break, Close, lossVars, WatchInv, Follows, SuspendBelieved
    <2>2. stage' = "sleeping" /\ stream' = <<>>
      BY <1>3 DEF Break, Close
    <2> QED
      BY <2>1, <2>2, Closed
  <1>4. CASE Wake
    <2>1. Announced' /\ SuspendBelieved'
      BY <1>4 DEF Wake, busVars, lossVars, WatchInv, Follows, Announced, SuspendBelieved
    <2>2. Knows'
      BY <1>4 DEF Wake, Knows, Past, Waiting
    <2> QED
      BY <2>1, <2>2 DEF Follows
  <1>5. CASE AgentDrains \/ AgentExits
    BY <1>5, SteadyKeeps DEF AgentDrains, AgentExits, busVars, lossVars, WatchInv
  <1> QED
    BY <1>1, <1>2, <1>3, <1>4, <1>5, BusKeeps, AnnounceKeeps, LogindKeeps, ReplyKeeps,
       OtherKeeps, SignalKeeps DEF Next, Read

----------------------------------------------------------------------------
\* What follows.

\* Types, the bounds of the retry delay, and the chronicle hold in every state.
THEOREM WatchInvariant == Spec => []WatchInv
  <1>1. Init => WatchInv
    BY TypesInit, FollowsInit DEF WatchInv
  <1> QED
    BY <1>1, WatchStep, PTL DEF Spec

\* A watching connection that threw no change of owner away takes nobody but logind
\* for logind, once the changes still to be read are in and unless the last change it
\* believed was not the bus's, and outside that lapse has turned away no suspend of
\* logind's, however often logind stopped and started and whatever else was on the
\* bus (sleepwatch.rs: classify_from, "re-learn who it is").
THEOREM LogindStaysKnown == Spec => []LogindKnown
  <1>1. WatchInv => LogindKnown
    <2> SUFFICES ASSUME WatchInv, stage = "watching", ~stale PROVE OwnerFollows
      BY DEF LogindKnown, WatchInv, Follows, OwnerFollows
    <2> DEFINE Changes == {k \in 1 .. Len(stream) : Told(stream[k])}
    <2>1. PICK was \in [Nat -> Name] :
            Chronicle(stream, 0, was, logind) /\ (misled \/ owner \in {was[0], NoOwner})
      BY DEF WatchInv, Follows, Knows, Past
    <2>2. Len(stream) \in Nat
      BY LenProperties DEF WatchInv, WatchTypes
    <2>3. ASSUME Changes = {} PROVE misled \/ owner \in {logind, NoOwner}
      <3>0. \A i \in 0 + 1 .. Len(stream) : ~Told(stream[i])
        BY <2>2, <2>3
      <3>1. was[0] = was[Len(stream)]
        BY <2>1, <2>2, <3>0 DEF Chronicle
      <3> QED
        BY <2>1, <3>1 DEF Chronicle
    <2>4. ASSUME NEW k \in Changes, \A j \in Changes : j <= k PROVE stream[k].val = logind
      <3>1. was[k] = stream[k].val
        BY <2>1, <2>2 DEF Chronicle, Fits
      <3>2. was[k] = was[Len(stream)]
        <4>1. \A i \in k + 1 .. Len(stream) : ~Told(stream[i])
          BY <2>2, <2>4
        <4> QED
          BY <2>1, <2>2, <4>1 DEF Chronicle
      <3> QED
        BY <2>1, <3>1, <3>2 DEF Chronicle
    <2> QED
      BY <2>3, <2>4 DEF OwnerFollows
  <1> QED
    BY <1>1, WatchInvariant, PTL

\* The retry delay never leaves its two bounds, and no more messages are thrown away
\* for one reply than its limit (sleepwatch.rs: spawn, wait_for_reply).
THEOREM WatchTypeCorrect == Spec => []TypeOK
  <1>1. WatchInv => TypeOK
    BY DEF WatchInv, WatchTypes
  <1> QED
    BY <1>1, WatchInvariant, PTL

=============================================================================
