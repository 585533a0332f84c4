--------------------------- MODULE LibraryProofs ---------------------------
(***************************************************************************)
(* Proofs about the parts that are called rather than talked to, for every *)
(* size of them: the verdict on the audit log is true whatever crashes and *)
(* damage the file has seen; a passkey signs for one owner of a domain; who*)
(* is to open a vault file opens it, and nobody else; the hygiene report is*)
(* true; lockdown is total; and what is called backed up is in a copy.     *)
(***************************************************************************)
EXTENDS MCLibrary, TLAPS, SequenceTheorems, FiniteSetTheorems, WellFoundedInduction

----------------------------------------------------------------------------
\* The audit log.

Over(s) == {s[k] : k \in 1 .. Len(s)}

\* The fact a line was written for, whatever the line says now.
Said(e) == e.digest[Len(e.digest)]

\* A line was written over a digest of earlier facts than its own, which is one of
\* those before m or a lie about one, and may have been edited.
Entry(e, m, lies) ==
    /\ Said(e) \in Nat /\ Reported(Said(e)) \in 1 .. m - 1
    /\ Said(e) \in 1 .. m - 1 \/ Said(e) \in lies
    /\ e.digest = Append(e.prev, Said(e))
    /\ e.fact \in {Said(e), False(Said(e))} /\ Reported(e.fact) = Reported(Said(e))
    /\ \A x \in Over(e.prev) : Reported(x) < Reported(Said(e))

\* Log.verify says nothing against a line, or against the first n lines.
Follows(l, i) ==
    /\ l[i] # Torn
    /\ l[i].prev = IF i = 1 THEN Genesis ELSE l[i - 1].digest
    /\ l[i].digest = Compute(l[i])
Whole(l, n) == \A i \in 1 .. n : Follows(l, i)

Lines == [fact : Nat, prev : Seq(Nat), digest : Seq(Nat)]

LogTypes(l, m, lies) ==
    /\ l \in Seq(Lines)
    /\ \A i \in 1 .. Len(l) : IF l[i] = Torn THEN i = Len(l) ELSE Entry(l[i], m, lies)

AuditTypes ==
    /\ next \in 1 .. MaxFacts + 1 /\ damage \in Nat
    /\ LogTypes(log, next, forged)
    /\ head = NoHead \/ head \in Seq(Nat)

\* A line knows of every line before it.
LaterKnows(l) ==
    \A i, j \in 1 .. Len(l) :
        i < j /\ l[j] # Torn => Said(l[i]) \in Over(l[j].prev)

\* Where nothing can be said against the log up to a line, its digest is over the
\* lines before it, and every fact up to it is there, known to be gone or one that
\* somebody computed the digests anew without.
SaidIn(l, f, n) == \E i \in 1 .. n : Said(l[i]) = f
TrueUpTo(l, n, cut) ==
    Whole(l, n) =>
        /\ \A f \in Over(l[n].digest) : SaidIn(l, f, n)
        /\ \A f \in 1 .. Reported(Said(l[n])) : f \in cut \/ SaidIn(l, f, n)
Excused == gone \cup forged
WholeIsTrue == \A n \in 1 .. Len(log) : TrueUpTo(log, n, Excused)
AllIsTrue ==
    Whole(log, Len(log)) => \A f \in 1 .. next - 1 : f \in Excused \/ SaidIn(log, f, Len(log))

\* An undamaged log is whole but for a torn line, and has the recorded head.
Honest ==
    damage = 0 =>
        /\ \A i \in 1 .. Len(log) : log[i] # Torn => Follows(log, i)
        /\ head = NoHead \/ \E i \in 1 .. Len(log) : log[i] # Torn /\ log[i].digest = head

\* What was kept is under the recorded head, unless it was forgiven.
HeadCovers ==
    /\ head = NoHead => kept = {}
    /\ head # NoHead => head # Genesis /\ kept \ forgiven \subseteq Over(head)
    /\ kept \cup gone \subseteq 1 .. next - 1

AuditInv == AuditTypes /\ LaterKnows(log) /\ WholeIsTrue /\ AllIsTrue /\ Honest /\ HeadCovers

\* What a sequence holds after one thing more.
LEMMA OverAppended ==
    ASSUME NEW s \in Seq(Nat), NEW x \in Nat
    PROVE  /\ Append(s, x) \in Seq(Nat) /\ Append(s, x) # <<>>
           /\ Append(s, x)[Len(Append(s, x))] = x
           /\ Over(Append(s, x)) = Over(s) \cup {x}
  <1>1. /\ Append(s, x) \in Seq(Nat) /\ Len(Append(s, x)) = Len(s) + 1 /\ Len(s) \in Nat
        /\ Append(s, x)[Len(s) + 1] = x
        /\ \A k \in 1 .. Len(s) : Append(s, x)[k] = s[k]
    OBVIOUS
  <1>2. Over(Append(s, x)) = Over(s) \cup {x}
    <2>1. ASSUME NEW y \in Over(Append(s, x)) PROVE y \in Over(s) \cup {x}
      BY <1>1 DEF Over
    <2>2. ASSUME NEW y \in Over(s) PROVE y \in Over(Append(s, x))
      BY <1>1 DEF Over
    <2>3. x \in Over(Append(s, x))
      BY <1>1 DEF Over
    <2> QED
      BY <2>1, <2>2, <2>3
  <1>3. Append(s, x) # <<>>
    BY <1>1
  <1> QED
    BY <1>1, <1>2, <1>3

\* What a fact was reported as.
LEMMA AsReported ==
    ASSUME NEW x \in Nat
    PROVE  /\ Reported(x) \in Nat
           /\ x <= MaxFacts => Reported(x) = x
           /\ x \in 1 .. MaxFacts => Reported(False(x)) = x /\ False(x) \in Nat /\ False(x) # x
  BY AuditAssumption DEF Reported, False

\* What the types say of one line.
LEMMA OneLine ==
    ASSUME NEW m \in Nat, NEW lies, NEW l, LogTypes(l, m, lies), NEW i \in 1 .. Len(l)
    PROVE  /\ Len(l) \in Nat /\ l[i] \in Lines
           /\ i < Len(l) => l[i] # Torn
           /\ l[i] # Torn =>
                 /\ Entry(l[i], m, lies) /\ Said(l[i]) \in Nat /\ Reported(Said(l[i])) \in 1 .. m - 1
                 /\ l[i].prev \in Seq(Nat)
                 /\ Over(l[i].digest) = Over(l[i].prev) \cup {Said(l[i])}
                 /\ \A x \in Over(l[i].digest) : x \in Nat /\ Reported(x) <= Reported(Said(l[i]))
  <1>1. Len(l) \in Nat /\ l[i] \in Lines
    BY DEF LogTypes
  <1>2. i < Len(l) => l[i] # Torn
    BY <1>1 DEF LogTypes
  <1>3. ASSUME l[i] # Torn
        PROVE  /\ Entry(l[i], m, lies) /\ Said(l[i]) \in Nat /\ Reported(Said(l[i])) \in 1 .. m - 1
               /\ l[i].prev \in Seq(Nat)
               /\ Over(l[i].digest) = Over(l[i].prev) \cup {Said(l[i])}
               /\ \A x \in Over(l[i].digest) : x \in Nat /\ Reported(x) <= Reported(Said(l[i]))
    <2>1. Entry(l[i], m, lies)
      BY <1>3 DEF LogTypes
    <2>2. Said(l[i]) \in Nat /\ Reported(Said(l[i])) \in 1 .. m - 1 /\ l[i].prev \in Seq(Nat)
      BY <1>1, <2>1 DEF Entry, Lines
    <2>3. Over(l[i].digest) = Over(l[i].prev) \cup {Said(l[i])}
      BY <1>1, <2>1, <2>2, OverAppended, SMTT(30) DEF Entry
    <2>4. \A x \in Over(l[i].prev) : Reported(x) < Reported(Said(l[i]))
      BY <2>1 DEF Entry
    <2>5. \A x \in Over(l[i].prev) : x \in Nat /\ Reported(x) \in Nat
      BY <2>2, AsReported, SMTT(30) DEF Over
    <2>6. Reported(Said(l[i])) \in Nat
      BY <2>2, AsReported
    <2>7. ASSUME NEW x \in Over(l[i].digest)
          PROVE  x \in Nat /\ Reported(x) <= Reported(Said(l[i]))
      BY <2>2, <2>3, <2>4, <2>5, <2>6, <2>7
    <2> QED
      BY <1>1, <2>1, <2>2, <2>3, <2>7
  <1> QED
    BY <1>1, <1>2, <1>3

\* Lines stand in the order of what they were written for.
LEMMA Ordered ==
    ASSUME NEW m \in Nat, NEW lies, NEW l, LogTypes(l, m, lies), LaterKnows(l),
           NEW i \in 1 .. Len(l), NEW j \in 1 .. Len(l), i < j, l[j] # Torn
    PROVE  Reported(Said(l[i])) < Reported(Said(l[j]))
  <1>1. Entry(l[j], m, lies)
    BY OneLine
  <1>2. Said(l[i]) \in Over(l[j].prev)
    BY DEF LaterKnows
  <1> QED
    BY <1>1, <1>2 DEF Entry

\* A line nothing is said against says what it was written for.
LEMMA SaysIt ==
    ASSUME NEW m \in Nat, NEW lies, NEW l, LogTypes(l, m, lies), NEW i \in 1 .. Len(l),
           Follows(l, i)
    PROVE  l[i].fact = Said(l[i])
  <1>1. Entry(l[i], m, lies) /\ l[i] \in Lines /\ l[i] # Torn
    BY OneLine DEF Follows
  <1>2. l[i].digest = Append(l[i].prev, l[i].fact)
    BY DEF Follows, Compute
  <1> QED
    BY <1>1, <1>2, OverAppended DEF Said, Lines

\* Logs that agree up to a point are as true up to it.
LEMMA SameLines ==
    ASSUME NEW l, NEW k, NEW n \in Nat, \A i \in 1 .. n : k[i] = l[i]
    PROVE  /\ \A i \in 1 .. n : Follows(k, i) <=> Follows(l, i)
           /\ Whole(k, n) <=> Whole(l, n)
           /\ \A f : SaidIn(k, f, n) <=> SaidIn(l, f, n)
  <1>1. ASSUME NEW i \in 1 .. n
        PROVE  Follows(k, i) <=> Follows(l, i)
    <2>1. /\ k[i] = l[i]
          /\ i # 1 => k[i - 1] = l[i - 1]
      OBVIOUS
    <2> QED
      BY <2>1 DEF Follows
  <1>2. \A f : SaidIn(k, f, n) <=> SaidIn(l, f, n)
    BY DEF SaidIn
  <1> QED
    BY <1>1, <1>2 DEF Whole

\* A verdict once true stays true of the same entries, whatever is lost later.
LEMMA TrueStays ==
    ASSUME NEW l, NEW k, NEW n \in Nat, \A i \in 1 .. n : k[i] = l[i],
           NEW cut, NEW more, cut \subseteq more,
           NEW m \in 1 .. n, TrueUpTo(l, m, cut)
    PROVE  TrueUpTo(k, m, more)
  <1>1. m \in Nat /\ (\A i \in 1 .. m : k[i] = l[i]) /\ k[m] = l[m]
    OBVIOUS
  <1> QED
    BY <1>1, SameLines DEF TrueUpTo

\* An entry is appended, and the sidecar written after it or not.
LEMMA EntryAppended ==
    ASSUME AuditInv, AppendEntry \/ AppendHeadless
    PROVE  AuditInv'
  <1>0. /\ AuditTypes /\ LaterKnows(log) /\ WholeIsTrue /\ AllIsTrue /\ Honest /\ HeadCovers
        /\ LogTypes(log, next, forged) /\ log \in Seq(Lines) /\ next \in Nat
    BY DEF AuditInv, AuditTypes, LogTypes
  <1> PICK n \in Nat : n = Len(log)
    BY <1>0
  <1> PICK e : e = Line(next, Head_)
    OBVIOUS
  <1>1. /\ next <= MaxFacts /\ next' = next + 1 /\ log' = Append(log, e)
        /\ damage' = damage /\ gone' = gone /\ forged' = forged /\ Excused' = Excused
        /\ \A i \in 1 .. n : log[i] # Torn
        /\ Reported(next) = next
    BY <1>0, AsReported DEF AppendEntry, AppendHeadless, Report, Readable, Excused
  <1>2. /\ Head_ \in Seq(Nat)
        /\ \A x \in Over(Head_) : Reported(x) < next
        /\ \A i \in 1 .. n : Said(log[i]) \in Over(Head_)
        /\ n # 0 => Head_ = log[n].digest
        /\ n = 0 => Head_ = Genesis /\ Over(Head_) = {}
    <2>1. CASE n = 0
      <3>1. log = <<>>
        BY <1>0, <2>1, EmptySeq
      <3>2. Head_ = <<>> /\ Over(<<>>) = {} /\ <<>> \in Seq(Nat)
        BY <3>1 DEF Head_, Genesis, Over
      <3> QED
        BY <2>1, <3>2 DEF Genesis
    <2>2. CASE n # 0
      <3>1. n \in 1 .. n /\ Head_ = log[n].digest
        BY <1>0, <2>2, EmptySeq DEF Head_
      <3>2. /\ Over(log[n].digest) = Over(log[n].prev) \cup {Said(log[n])}
            /\ log[n].digest \in Seq(Nat)
            /\ \A x \in Over(log[n].digest) : x \in Nat /\ Reported(x) <= Reported(Said(log[n]))
            /\ Reported(Said(log[n])) \in 1 .. next - 1
        <4>0. next \in Nat /\ LogTypes(log, next, forged)
          BY <1>0
        <4>1. log \in Seq(Lines) /\ n \in 1 .. Len(log) /\ log[n] # Torn
          BY <1>0, <1>1, <3>1
        <4>2. /\ log[n] \in Lines
              /\ Over(log[n].digest) = Over(log[n].prev) \cup {Said(log[n])}
              /\ \A x \in Over(log[n].digest) : x \in Nat /\ Reported(x) <= Reported(Said(log[n]))
              /\ Reported(Said(log[n])) \in 1 .. next - 1
          <5>1. log[n] \in Lines
            BY ONLY <4>0, <4>1, OneLine, SMT
          <5>2. Over(log[n].digest) = Over(log[n].prev) \cup {Said(log[n])}
            <6>1. Entry(log[n], next, forged)
              BY ONLY <4>0, <4>1, OneLine, SMT
            <6>2. Said(log[n]) \in Nat
              BY ONLY <4>0, <4>1, OneLine, SMT
            <6>3. log[n].prev \in Seq(Nat)
              BY ONLY <4>0, <4>1, OneLine, SMT
            <6> QED
              BY ONLY <6>1, <6>2, <6>3, <5>1, OverAppended, SMTT(30) DEF Entry
          <5>3. \A x \in Over(log[n].digest) : x \in Nat /\ Reported(x) <= Reported(Said(log[n]))
            BY ONLY <4>0, <4>1, OneLine, SMT
          <5>4. Reported(Said(log[n])) \in 1 .. next - 1
            BY ONLY <4>0, <4>1, OneLine, SMT
          <5> QED
            BY <5>1, <5>2, <5>3, <5>4
        <4> QED
          BY <4>2 DEF Lines
      <3>3. \A i \in 1 .. n : Said(log[i]) \in Over(log[n].digest)
        BY <1>0, <1>1, <3>1, <3>2 DEF LaterKnows
      <3>4. \A x \in Over(log[n].digest) : Reported(x) \in Nat
        BY <3>2, AsReported
      <3> QED
        BY <1>0, <2>2, <3>1, <3>2, <3>3, <3>4
    <2> QED
      BY <2>1, <2>2
  <1>3. /\ e.fact = next /\ e.prev = Head_ /\ e.digest = Append(Head_, next)
        /\ Said(e) = next /\ e.digest # <<>> /\ e.digest \in Seq(Nat)
        /\ Over(e.digest) = Over(Head_) \cup {next}
    BY <1>0, <1>2, OverAppended DEF Line, Said
  <1>4. e \in Lines /\ e # Torn
    BY <1>0, <1>2, <1>3 DEF Lines, Line, Torn, Genesis
  <1>5. /\ log' \in Seq(Lines) /\ Len(log') = n + 1 /\ log'[n + 1] = e
        /\ \A i \in 1 .. n : log'[i] = log[i]
    BY <1>0, <1>1, <1>4
  <1>6. /\ \A i \in 1 .. n + 1 : i = n + 1 \/ i \in 1 .. n
        /\ \A f \in 1 .. next : f = next \/ f \in 1 .. next - 1
    BY <1>0
  <1>7. ASSUME NEW i \in 1 .. n + 1
        PROVE  log'[i] # Torn /\ Entry(log'[i], next', forged)
    <2>1. CASE i = n + 1
      <3>1. Said(e) \in 1 .. next' - 1
        BY <1>0, <1>1, <1>3 DEF AuditTypes
      <3>2. Entry(e, next', forged)
        <4>1. Reported(next) \in 1 .. next' - 1 /\ \A x \in Over(e.prev) : Reported(x) < Reported(next)
          BY <1>1, <1>2, <1>3, <3>1
        <4> QED
          BY <1>3, <3>1, <4>1 DEF Entry
      <3> QED
        BY <1>4, <1>5, <2>1, <3>2
    <2>2. CASE i \in 1 .. n
      <3>1. Entry(log[i], next, forged)
        BY <1>0, <1>1, <2>2, OneLine
      <3>2. Entry(log[i], next', forged)
        BY <1>0, <1>1, <3>1 DEF Entry
      <3> QED
        BY <1>1, <1>5, <2>2, <3>2
    <2> QED
      BY <1>6, <2>1, <2>2
  <1>8. head' = head \/ head' = e.digest
    BY <1>3 DEF AppendEntry, AppendHeadless
  <1>9. AuditTypes'
    <2>1. LogTypes(log', next', forged)
      BY <1>5, <1>7 DEF LogTypes
    <2> QED
      <3>1. next' \in 1 .. MaxFacts + 1 /\ damage' \in Nat
        BY <1>0, <1>1, AuditAssumption DEF AuditTypes
      <3>2. head' = NoHead \/ head' \in Seq(Nat)
        BY <1>0, <1>3, <1>8 DEF AuditTypes
      <3> QED
        BY <1>1, <2>1, <3>1, <3>2 DEF AuditTypes
  <1>10. LaterKnows(log')
    <2>1. ASSUME NEW i \in 1 .. n + 1, NEW j \in 1 .. n + 1, i < j
          PROVE  Said(log'[i]) \in Over(log'[j].prev)
      <3>1. i \in 1 .. n /\ log'[i] = log[i]
        BY <1>5, <2>1
      <3>2. CASE j = n + 1
        BY <1>2, <1>3, <1>5, <3>1, <3>2
      <3>3. CASE j \in 1 .. n
        BY <1>0, <1>1, <1>5, <2>1, <3>1, <3>3 DEF LaterKnows
      <3> QED
        BY <1>6, <3>2, <3>3
    <2> QED
      BY <1>5, <2>1 DEF LaterKnows
  <1>11. ASSUME Whole(log', n + 1)
         PROVE  /\ \A f \in Over(Head_) : SaidIn(log, f, n)
                /\ \A f \in 1 .. next - 1 : f \in Excused \/ SaidIn(log, f, n)
    <2>1. Whole(log', n)
      BY <1>11 DEF Whole
    <2>2. Whole(log, n)
      BY <1>5, <2>1, SameLines
    <2>3. n # 0 => TrueUpTo(log, n, Excused)
      BY <1>0 DEF WholeIsTrue
    <2> QED
      BY <1>0, <1>2, <2>2, <2>3 DEF TrueUpTo, AllIsTrue
  <1>12. /\ \A f : SaidIn(log, f, n) => SaidIn(log', f, n + 1)
         /\ SaidIn(log', next, n + 1)
    BY <1>3, <1>5, SMTT(30) DEF SaidIn
  <1>13. WholeIsTrue'
    <2>1. ASSUME NEW m \in 1 .. n
          PROVE  TrueUpTo(log', m, Excused')
      BY <1>0, <1>1, <1>5, TrueStays DEF WholeIsTrue
    <2>2. TrueUpTo(log', n + 1, Excused')
      BY <1>1, <1>3, <1>5, <1>6, <1>11, <1>12 DEF TrueUpTo
    <2> QED
      BY <1>5, <1>6, <2>1, <2>2 DEF WholeIsTrue
  <1>14. AllIsTrue'
    BY <1>0, <1>1, <1>5, <1>6, <1>11, <1>12 DEF AllIsTrue
  <1>15. Honest'
    <2>1. ASSUME damage = 0, NEW i \in 1 .. n + 1
          PROVE  Follows(log', i)
      <3>1. CASE i \in 1 .. n
        BY <1>0, <1>1, <1>5, <2>1, <3>1, SameLines DEF Honest
      <3>2. CASE i = n + 1
        <4>1. e.prev = IF i = 1 THEN Genesis ELSE log'[i - 1].digest
          BY <1>2, <1>3, <1>5, <3>2
        <4> QED
          BY <1>3, <1>4, <1>5, <3>2, <4>1 DEF Follows, Compute
      <3> QED
        BY <1>6, <3>1, <3>2
    <2>2. ASSUME damage = 0
          PROVE  head' = NoHead \/ \E i \in 1 .. n + 1 : log'[i] # Torn /\ log'[i].digest = head'
      <3>1. CASE head' = e.digest
        BY <1>4, <1>5, <3>1
      <3>2. CASE head' = head
        BY <1>0, <1>5, <2>2, <3>2 DEF Honest
      <3> QED
        BY <1>8, <3>1, <3>2
    <2> QED
      BY <1>1, <1>5, <2>1, <2>2 DEF Honest
  <1>16. HeadCovers'
    <2>1. CASE AppendEntry
      <3>1. /\ head' = e.digest /\ kept' = kept \cup {next}
            /\ forgiven' = forgiven \cup (kept \ Facts)
        BY <1>3, <2>1 DEF AppendEntry
      <3>2. \A f \in kept \cap Facts : f \in Over(Head_)
        <4>1. SUFFICES ASSUME NEW i \in 1 .. n, log[i].fact \in kept
                       PROVE  log[i].fact \in Over(Head_)
          BY DEF Facts
        <4>2. Entry(log[i], next, forged)
          BY <1>0, <1>1, OneLine
        <4>3. log[i].fact \in 1 .. next - 1
          BY <1>0, <4>1 DEF HeadCovers
        <4>4. MaxFacts \in Nat
          BY AuditAssumption
        <4>5. log[i].fact = Said(log[i])
          <5>1. /\ Said(log[i]) \in Nat /\ Reported(Said(log[i])) # 0
                /\ log[i].fact \in {Said(log[i]), False(Said(log[i]))}
            BY <4>2 DEF Entry
          <5>2. Said(log[i]) # 0
            BY <4>4, <5>1 DEF Reported
          <5>3. log[i].fact <= MaxFacts
            BY <1>0, <1>1, <4>3, <4>4
          <5> QED
            BY <4>4, <5>1, <5>2, <5>3 DEF False
        <4> QED
          BY <1>2, <4>5
      <3>3. head' # NoHead /\ head' # Genesis
        BY <1>3, <3>1, AuditAssumption DEF Genesis
      <3>4. kept' \ forgiven' \subseteq Over(head')
        BY <1>3, <3>1, <3>2
      <3>5. kept' \cup gone' \subseteq 1 .. next' - 1
        <4>1. next \in 1 .. next /\ 1 .. next - 1 \subseteq 1 .. next /\ next' - 1 = next
          BY <1>0, <1>1 DEF AuditTypes
        <4> QED
          BY <1>0, <1>1, <3>1, <4>1 DEF HeadCovers
      <3> QED
        BY <3>3, <3>4, <3>5 DEF HeadCovers, Genesis
    <2>2. CASE AppendHeadless
      BY <1>0, <1>1, <2>2 DEF AppendHeadless, HeadCovers
    <2> QED
      BY <2>1, <2>2
  <1> QED
    BY <1>9, <1>10, <1>13, <1>14, <1>15, <1>16 DEF AuditInv

\* A line torn by a crash, or one that could not be written at all: the log is not
\* whole afterwards, and the fact is known to be gone.
LEMMA EntryLost ==
    ASSUME AuditInv, AppendTorn \/ AppendFails
    PROVE  AuditInv'
  <1>0. /\ AuditTypes /\ LaterKnows(log) /\ WholeIsTrue /\ AllIsTrue /\ Honest /\ HeadCovers
        /\ LogTypes(log, next, forged) /\ log \in Seq(Lines) /\ next \in Nat
    BY DEF AuditInv, AuditTypes, LogTypes
  <1> PICK n \in Nat : n = Len(log)
    BY <1>0
  <1>1. /\ next <= MaxFacts /\ next' = next + 1 /\ gone' = gone \cup {next}
        /\ UNCHANGED <<damage, head, kept, forgiven, forged>>
        /\ next' - 1 = next /\ 1 .. next - 1 \subseteq 1 .. next
        /\ Excused \subseteq Excused'
    BY <1>0 DEF AppendTorn, AppendFails, Report, Excused
  <1>2. \A e : Entry(e, next, forged) => Entry(e, next', forged)
    BY <1>0, <1>1 DEF Entry
  <1>3. /\ LogTypes(log', next', forged) /\ Len(log') \in n .. n + 1
        /\ \A i \in 1 .. n : log'[i] = log[i]
        /\ \E i \in 1 .. Len(log') : log'[i] = Torn
        /\ \A i \in 1 .. Len(log') : i \in 1 .. n \/ log'[i] = Torn
    <2>1. CASE AppendTorn
      <3>1. Torn \in Lines
        BY DEF Torn, Lines, Genesis
      <3>2. /\ log' = Append(log, Torn) /\ log' \in Seq(Lines)
            /\ Len(log') = n + 1 /\ log'[n + 1] = Torn
            /\ \A i \in 1 .. n : log'[i] = log[i] /\ log[i] # Torn
        BY <1>0, <2>1, <3>1 DEF AppendTorn, Readable
      <3>3. \A i \in 1 .. n : Entry(log'[i], next', forged)
        BY <1>0, <1>2, <3>2, OneLine
      <3>4. \A i \in 1 .. n + 1 : i = n + 1 \/ i \in 1 .. n
        OBVIOUS
      <3>5. LogTypes(log', next', forged)
        BY <3>2, <3>3, <3>4 DEF LogTypes
      <3> QED
        BY <3>2, <3>4, <3>5
    <2>2. CASE AppendFails
      BY <1>0, <1>2, <2>2 DEF AppendFails, Readable, LogTypes
    <2> QED
      BY <2>1, <2>2
  <1>4. ASSUME NEW m \in 1 .. Len(log'), m \notin 1 .. n \/ m = Len(log')
        PROVE  ~Whole(log', m)
    <2>1. PICK i \in 1 .. Len(log') : log'[i] = Torn
      BY <1>3
    <2>2. i = Len(log')
      BY <1>3, <2>1 DEF LogTypes
    <2>3. i \in 1 .. m
      BY <1>3, <1>4, <2>2
    <2> QED
      BY <2>1, <2>3 DEF Whole, Follows
  <1>5. AuditTypes'
    BY <1>0, <1>1, <1>3, AuditAssumption DEF AuditTypes
  <1>6. LaterKnows(log')
    BY <1>0, <1>3 DEF LaterKnows
  <1>7. WholeIsTrue'
    <2>1. ASSUME NEW m \in 1 .. Len(log')
          PROVE  TrueUpTo(log', m, Excused')
      <3>1. CASE m \in 1 .. n
        BY <1>0, <1>1, <1>3, <3>1, TrueStays DEF WholeIsTrue
      <3>2. CASE m \notin 1 .. n
        BY <1>4, <3>2 DEF TrueUpTo
      <3> QED
        BY <3>1, <3>2
    <2> QED
      BY <2>1 DEF WholeIsTrue
  <1>8. AllIsTrue'
    <2>1. Len(log') \in 1 .. Len(log')
      BY <1>3
    <2> QED
      BY <1>4, <2>1 DEF AllIsTrue
  <1>9. Honest'
    <2>1. SUFFICES ASSUME damage = 0
                   PROVE  Honest'
      BY <1>1 DEF Honest
    <2>2. ASSUME NEW i \in 1 .. Len(log'), log'[i] # Torn
          PROVE  Follows(log', i)
      <3>1. i \in 1 .. n
        BY <1>3, <2>2
      <3>2. Follows(log, i)
        BY <1>0, <1>3, <2>1, <2>2, <3>1 DEF Honest
      <3> QED
        BY <1>3, <3>1, <3>2, SameLines
    <2>3. head = NoHead \/ \E i \in 1 .. Len(log') : log'[i] # Torn /\ log'[i].digest = head
      BY <1>0, <1>3, <2>1 DEF Honest
    <2> QED
      BY <1>1, <2>2, <2>3 DEF Honest
  <1>10. HeadCovers'
    <2>1. next \in 1 .. next
      BY <1>0 DEF AuditTypes
    <2>2. (kept \cup gone)' \subseteq 1 .. next' - 1
      BY <1>0, <1>1, <2>1 DEF HeadCovers
    <2> QED
      BY <1>0, <1>1, <2>2 DEF HeadCovers
  <1> QED
    BY <1>5, <1>6, <1>7, <1>8, <1>9, <1>10 DEF AuditInv

\* The file loses its end; what lay past the cut is known to be gone.
LEMMA CutStep ==
    ASSUME AuditInv, NEW n \in Nat, Cut(n)
    PROVE  AuditInv'
  <1>0. /\ AuditTypes /\ LaterKnows(log) /\ WholeIsTrue /\ AllIsTrue /\ Honest /\ HeadCovers
        /\ LogTypes(log, next, forged) /\ log \in Seq(Lines) /\ next \in Nat /\ Len(log) \in Nat
    BY DEF AuditInv, AuditTypes, LogTypes
  <1>1. /\ n < Len(log) /\ damage' = damage + 1 /\ log' = SubSeq(log, 1, n)
        /\ gone' = gone \cup {f \in 1 .. next - 1 : \A i \in 1 .. n : Reported(log[i].fact) < f}
        /\ UNCHANGED <<head, next, kept, forgiven, forged>> /\ damage \in Nat
        /\ Excused \subseteq Excused' /\ gone' \subseteq Excused'
    BY <1>0 DEF Cut, AuditTypes, Excused
  <1>2. /\ log' \in Seq(Lines) /\ Len(log') = n
        /\ \A i \in 1 .. n : log'[i] = log[i] /\ log[i] # Torn /\ i \in 1 .. Len(log)
    <2>1. \A i \in 1 .. n : log[i] \in Lines /\ log[i] # Torn /\ i \in 1 .. Len(log)
      BY <1>0, <1>1, OneLine
    <2> QED
      BY <1>1, <2>1, SubSeqProperties
  <1>3. AuditTypes' /\ LaterKnows(log')
    <2>1. LogTypes(log', next, forged)
      BY <1>0, <1>2 DEF LogTypes
    <2> QED
      BY <1>0, <1>1, <1>2, <2>1 DEF AuditTypes, LaterKnows
  <1>4. WholeIsTrue'
    <2>1. ASSUME NEW m \in 1 .. n
          PROVE  TrueUpTo(log', m, Excused')
      <3>1. TrueUpTo(log, m, Excused) /\ Excused \subseteq Excused'
        BY <1>0, <1>1, <1>2 DEF WholeIsTrue
      <3> QED
        BY <1>2, <3>1, TrueStays
    <2> QED
      BY <1>2, <2>1 DEF WholeIsTrue
  <1>5. AllIsTrue'
    <2>1. SUFFICES ASSUME Whole(log', n), NEW f \in 1 .. next - 1,
                          NEW i \in 1 .. n, ~(Reported(log[i].fact) < f)
                   PROVE  f \in Excused' \/ SaidIn(log', f, n)
      BY <1>1, <1>2 DEF AllIsTrue
    <2>2. Whole(log, n) /\ Follows(log, i)
      BY <1>2, <2>1, SameLines DEF Whole
    <2>3. n \in 1 .. n /\ n \in 1 .. Len(log) /\ log[n] # Torn
      BY <1>2
    <2>4. /\ Reported(Said(log[i])) <= Reported(Said(log[n]))
          /\ Reported(Said(log[i])) \in Nat /\ Reported(Said(log[n])) \in Nat
      <3>1. Reported(Said(log[i])) \in Nat /\ Reported(Said(log[n])) \in Nat
        BY <1>0, <1>2, <2>3, OneLine, AsReported
      <3>2. CASE i < n
        BY <1>0, <1>2, <2>3, <3>1, <3>2, Ordered
      <3> QED
        BY <3>1, <3>2
    <2>5. log[i].fact = Said(log[i])
      BY <1>0, <1>2, <2>2, SaysIt
    <2>6. f \in 1 .. Reported(Said(log[n]))
      BY <2>1, <2>4, <2>5
    <2>7. f \in Excused \/ SaidIn(log, f, n)
      BY <1>0, <2>2, <2>3, <2>6 DEF WholeIsTrue, TrueUpTo
    <2> QED
      BY <1>1, <1>2, <2>7, SameLines
  <1>6. Honest' /\ HeadCovers'
    BY <1>0, <1>1 DEF Honest, HeadCovers
  <1> QED
    BY <1>3, <1>4, <1>5, <1>6 DEF AuditInv

\* A line is edited: it no longer says what its digest was computed over.
LEMMA EditStep ==
    ASSUME AuditInv, NEW n \in Nat, Edit(n)
    PROVE  AuditInv'
  <1>0. /\ AuditTypes /\ LaterKnows(log) /\ WholeIsTrue /\ AllIsTrue /\ Honest /\ HeadCovers
        /\ LogTypes(log, next, forged) /\ log \in Seq(Lines) /\ next \in Nat /\ Len(log) \in Nat
        /\ MaxFacts \in Nat
    BY AuditAssumption DEF AuditInv, AuditTypes, LogTypes
  <1>1. /\ n \in 1 .. Len(log) /\ log[n].fact \in 1 .. MaxFacts
        /\ log' = [log EXCEPT ![n].fact = False(@)]
        /\ UNCHANGED <<head, next, kept, gone, forgiven, forged>>
        /\ damage \in Nat /\ damage' = damage + 1 /\ Excused' = Excused
    BY <1>0 DEF Edit, AuditTypes, Excused
  <1>2. log[n] # Torn /\ log[n] \in Lines /\ Entry(log[n], next, forged)
    <2>1. log[n] # Torn
      BY <1>1 DEF Torn
    <2> QED
      BY <1>0, <1>1, <2>1, OneLine
  <1>3. /\ log[n].fact = Said(log[n]) /\ Said(log[n]) \in 1 .. MaxFacts
        /\ Reported(False(Said(log[n]))) = Said(log[n]) /\ Reported(Said(log[n])) = Said(log[n])
        /\ False(Said(log[n])) \in Nat /\ False(Said(log[n])) # Said(log[n])
    <2>1. log[n].fact = Said(log[n])
      <3>1. /\ Said(log[n]) \in Nat /\ Reported(Said(log[n])) # 0
            /\ log[n].fact \in {Said(log[n]), False(Said(log[n]))}
        BY <1>2 DEF Entry
      <3>2. Said(log[n]) # 0
        BY <1>0, <3>1 DEF Reported
      <3> QED
        BY <1>0, <1>1, <3>1, <3>2 DEF False
    <2> QED
      BY <1>0, <1>1, <2>1, AsReported
  <1> PICK e : e = [log[n] EXCEPT !.fact = False(@)]
    OBVIOUS
  <1>4. /\ e \in Lines /\ e.fact = False(log[n].fact)
        /\ e.prev = log[n].prev /\ e.digest = log[n].digest
    <2>1. log[n] \in [fact : Nat, prev : Seq(Nat), digest : Seq(Nat)]
      BY <1>0, <1>2 DEF Lines
    <2>2. False(log[n].fact) \in Nat
      BY <1>3
    <2> QED
      BY <2>1, <2>2 DEF Lines
  <1>5. e # Torn /\ Said(e) = Said(log[n]) /\ Entry(e, next, forged)
    <2>1. e # Torn
      BY <1>0, <1>1, <1>4 DEF Torn, False
    <2>2. Said(e) = Said(log[n])
      BY <1>4 DEF Said
    <2> QED
      BY <1>2, <1>3, <1>4, <2>1, <2>2 DEF Entry
  <1>6. /\ log' \in Seq(Lines) /\ Len(log') = Len(log) /\ log'[n] = e
        /\ \A i \in 1 .. Len(log) : i # n => log'[i] = log[i]
    BY <1>0, <1>1, <1>4
  <1>7. ~Follows(log', n)
    <2>1. e.digest = Append(e.prev, Said(e)) /\ Said(e) \in Nat
      <3>1. e.digest = Append(e.prev, Said(e)) /\ Said(e) \in Nat
        BY <1>5 DEF Entry
      <3> QED
        BY <1>0, <3>1
    <2>2. e.prev \in Seq(Nat) /\ e.fact \in Nat
      BY <1>4 DEF Lines
    <2>3. e.fact # Said(e)
      BY <1>0, <1>3, <1>4, <1>5, <2>1
    <2>4. Append(e.prev, Said(e)) # Append(e.prev, e.fact)
      BY <2>1, <2>2, <2>3, OverAppended
    <2> QED
      BY <1>6, <2>1, <2>4 DEF Follows, Compute
  <1>8. AuditTypes' /\ LaterKnows(log')
    <2>1. LogTypes(log', next, forged)
      BY <1>0, <1>2, <1>5, <1>6 DEF LogTypes
    <2>2. \A i \in 1 .. Len(log) : Said(log'[i]) = Said(log[i]) /\ log'[i].prev = log[i].prev
                                   /\ (log'[i] = Torn <=> log[i] = Torn)
      BY <1>2, <1>4, <1>5, <1>6
    <2>3. LaterKnows(log')
      BY <1>0, <1>6, <2>2 DEF LaterKnows
    <2>4. damage' \in Nat
      BY <1>1
    <2> QED
      BY <1>0, <1>1, <2>1, <2>3, <2>4 DEF AuditTypes
  <1>9. WholeIsTrue'
    <2>1. ASSUME NEW m \in 1 .. Len(log)
          PROVE  TrueUpTo(log', m, Excused)
      <3>1. CASE m < n
        <4>1. m \in Nat /\ m \in 1 .. m /\ \A i \in 1 .. m : log'[i] = log[i]
          BY <1>1, <1>6, <3>1
        <4> QED
          BY <1>0, <4>1, TrueStays DEF WholeIsTrue
      <3>2. CASE n <= m
        <4>1. n \in 1 .. m
          BY <1>0, <1>1, <3>2
        <4> QED
          BY <1>7, <4>1 DEF TrueUpTo, Whole
      <3> QED
        BY <1>0, <3>1, <3>2
    <2> QED
      BY <1>1, <1>6, <2>1 DEF WholeIsTrue
  <1>10. AllIsTrue'
    BY <1>1, <1>6, <1>7 DEF AllIsTrue, Whole
  <1>11. Honest' /\ HeadCovers'
    BY <1>0, <1>1 DEF Honest, HeadCovers
  <1> QED
    BY <1>8, <1>9, <1>10, <1>11 DEF AuditInv

\* A line in the middle is removed: the one after it knew of it.
LEMMA RemoveStep ==
    ASSUME AuditInv, NEW n \in Nat, RemoveMiddle(n)
    PROVE  AuditInv'
  <1>0. /\ AuditTypes /\ LaterKnows(log) /\ WholeIsTrue /\ AllIsTrue /\ Honest /\ HeadCovers
        /\ LogTypes(log, next, forged) /\ log \in Seq(Lines) /\ next \in Nat
    BY DEF AuditInv, AuditTypes, LogTypes
  <1> PICK k \in Nat : k = Len(log) - 1
    <2>1. n \in 1 .. Len(log) - 1 /\ Len(log) \in Nat
      BY <1>0 DEF RemoveMiddle
    <2> QED
      BY <2>1
  <1>1. /\ n \in 1 .. k /\ damage' = damage + 1 /\ Len(log) = k + 1
        /\ log' = SubSeq(log, 1, n - 1) \o SubSeq(log, n + 1, k + 1)
        /\ UNCHANGED <<head, next, kept, gone, forgiven, forged>> /\ damage \in Nat
        /\ Excused' = Excused
    BY <1>0 DEF RemoveMiddle, AuditTypes, Excused
  <1>2. /\ log' \in Seq(Lines) /\ Len(log') = k
        /\ \A i \in 1 .. k : log'[i] = IF i < n THEN log[i] ELSE log[i + 1]
    <2> DEFINE s == SubSeq(log, 1, n - 1)
               t == SubSeq(log, n + 1, k + 1)
    <2>1. /\ s \in Seq(Lines) /\ Len(s) = n - 1 /\ \A i \in 1 .. n - 1 : s[i] = log[i]
      <3>1. \A i \in 1 .. n - 1 : log[i] \in Lines
        BY <1>0, <1>1
      <3> QED
        BY <1>1, <3>1, SubSeqProperties
    <2>2. /\ t \in Seq(Lines) /\ Len(t) = k + 1 - n
          /\ \A i \in 1 .. k + 1 - n : t[i] = log[n + i]
      <3>1. \A i \in n + 1 .. k + 1 : log[i] \in Lines
        BY <1>0, <1>1
      <3> QED
        BY <1>1, <3>1, SubSeqProperties
    <2> HIDE DEF s, t
    <2>3. log' = s \o t
      BY <1>1 DEF s, t
    <2>4. \A i \in 1 .. k : log'[i] = IF i <= n - 1 THEN s[i] ELSE t[i - (n - 1)]
      <3>1. Len(s) + Len(t) = k
        BY <1>1, <2>1, <2>2
      <3> QED
        BY <2>1, <2>2, <2>3, <3>1, ConcatProperties
    <2>5. ASSUME NEW i \in 1 .. k
          PROVE  log'[i] = IF i < n THEN log[i] ELSE log[i + 1]
      <3>1. CASE i < n
        <4>1. i \in 1 .. n - 1 /\ i <= n - 1
          BY <1>1, <3>1
        <4>2. log'[i] = s[i]
          BY <2>4, <4>1
        <4>3. s[i] = log[i]
          BY <2>1, <4>1
        <4> QED
          BY <3>1, <4>2, <4>3
      <3>2. CASE ~(i < n)
        <4>1. i - (n - 1) \in 1 .. k + 1 - n /\ n + (i - (n - 1)) = i + 1 /\ ~(i <= n - 1)
          BY <1>1, <3>2
        <4> QED
          BY <2>2, <2>4, <3>2, <4>1
      <3> QED
        BY <3>1, <3>2
    <2>6. Len(s) + Len(t) = k
      BY <1>1, <2>1, <2>2
    <2> QED
      BY <2>1, <2>2, <2>3, <2>5, <2>6, ConcatProperties
  <1>3. ~Follows(log', n)
    <2>1. SUFFICES ASSUME Follows(log', n) PROVE FALSE
      OBVIOUS
    <2>2. log'[n] = log[n + 1] /\ log[n + 1] # Torn /\ n + 1 \in 1 .. k + 1 /\ n \in 1 .. k + 1
      BY <1>1, <1>2, <2>1 DEF Follows
    <2>3. Said(log[n]) \in Over(log[n + 1].prev)
      BY <1>0, <1>1, <2>2 DEF LaterKnows
    <2>4. CASE n = 1
      BY <2>1, <2>2, <2>3, <2>4 DEF Follows, Genesis, Over
    <2>5. CASE n # 1
      <3>1. /\ log[n + 1].prev = log[n - 1].digest /\ n - 1 \in 1 .. k + 1 /\ n - 1 < n
            /\ log[n - 1] # Torn /\ log[n] # Torn
        <4>1. n - 1 \in 1 .. k /\ n - 1 \in 1 .. k + 1 /\ n - 1 < n /\ n - 1 < Len(log) /\ n < Len(log)
          BY <1>1, <2>5
        <4>2. log[n - 1] # Torn /\ log[n] # Torn
          BY <1>0, <1>1, <2>2, <4>1, OneLine
        <4>3. log'[n].prev = log'[n - 1].digest /\ log'[n - 1] = log[n - 1]
          BY <1>2, <2>1, <2>5, <4>1 DEF Follows
        <4> QED
          BY <2>2, <4>1, <4>2, <4>3
      <3>2. Reported(Said(log[n])) <= Reported(Said(log[n - 1]))
        BY <1>0, <1>1, <2>3, <3>1, OneLine
      <3>3. Reported(Said(log[n - 1])) < Reported(Said(log[n]))
        BY <1>0, <1>1, <2>2, <3>1, Ordered
      <3>4. /\ Reported(Said(log[n])) \in 1 .. next - 1
            /\ Reported(Said(log[n - 1])) \in 1 .. next - 1
        BY <1>0, <1>1, <2>2, <3>1, OneLine
      <3> QED
        BY <1>0, <3>2, <3>3, <3>4
    <2> QED
      BY <2>4, <2>5
  <1>4. AuditTypes' /\ LaterKnows(log')
    <2>1. LogTypes(log', next, forged)
      <3>1. ASSUME NEW i \in 1 .. k
            PROVE  IF log'[i] = Torn THEN i = k ELSE Entry(log'[i], next, forged)
        <4>1. CASE i < n
          <5>1. i \in 1 .. k + 1 /\ log'[i] = log[i] /\ i # k + 1
            <6>1. log'[i] = log[i]
              BY <1>2, <4>1
            <6>2. k \in Nat /\ i \in 1 .. k
              BY <1>1
            <6> QED
              BY <6>1, <6>2
          <5> QED
            BY <1>0, <1>1, <5>1 DEF LogTypes
        <4>2. CASE ~(i < n)
          <5>1. i + 1 \in 1 .. k + 1 /\ log'[i] = log[i + 1]
            <6>1. i + 1 \in 1 .. k + 1
              OBVIOUS
            <6> QED
              BY <1>2, <4>2, <6>1
          <5>2. IF log[i + 1] = Torn THEN i + 1 = k + 1 ELSE Entry(log[i + 1], next, forged)
            BY <1>0, <1>1, <5>1 DEF LogTypes
          <5> QED
            BY <5>1, <5>2
        <4> QED
          BY <4>1, <4>2
      <3> QED
        BY <1>2, <3>1 DEF LogTypes
    <2>2. LaterKnows(log')
      <3>1. ASSUME NEW i \in 1 .. k, NEW j \in 1 .. k, i < j, log'[j] # Torn
            PROVE  Said(log'[i]) \in Over(log'[j].prev)
        <4>1. \E p, q \in 1 .. k + 1 : p < q /\ log'[i] = log[p] /\ log'[j] = log[q]
          <5>1. CASE j < n
            <6>1. i \in 1 .. k + 1 /\ j \in 1 .. k + 1 /\ i < n
              BY <3>1, <5>1
            <6>2. log'[i] = log[i] /\ log'[j] = log[j]
              BY <1>2, <5>1, <6>1
            <6> QED
              BY <3>1, <6>1, <6>2
          <5>2. CASE i < n /\ ~(j < n)
            <6>1. i \in 1 .. k + 1 /\ j + 1 \in 1 .. k + 1 /\ i < j + 1
              BY <3>1
            <6> QED
              BY <1>2, <5>2, <6>1
          <5>3. CASE ~(i < n) /\ ~(j < n)
            <6>1. i + 1 \in 1 .. k + 1 /\ j + 1 \in 1 .. k + 1 /\ i + 1 < j + 1
              BY <3>1
            <6> QED
              BY <1>2, <5>3, <6>1
          <5>4. (j < n => i < n) /\ n \in Nat
            BY <3>1
          <5> QED
            BY <5>1, <5>2, <5>3, <5>4
        <4> QED
          BY <1>0, <1>1, <3>1, <4>1, ZenonT(60) DEF LaterKnows
      <3> QED
        BY <1>2, <3>1 DEF LaterKnows
    <2> QED
      BY <1>0, <1>1, <2>1, <2>2 DEF AuditTypes
  <1>5. WholeIsTrue'
    <2>1. ASSUME NEW m \in 1 .. k
          PROVE  TrueUpTo(log', m, Excused)
      <3>1. CASE m < n
        <4>1. m \in Nat /\ m \in 1 .. m /\ m \in 1 .. Len(log)
          BY <1>1
        <4>2. \A i \in 1 .. m : i \in 1 .. k /\ i < n
          BY <3>1
        <4>3. \A i \in 1 .. m : log'[i] = log[i]
          BY <1>2, <4>2
        <4> QED
          BY <1>0, <4>1, <4>3, TrueStays DEF WholeIsTrue
      <3>2. CASE n <= m
        BY <1>1, <1>3, <3>2 DEF TrueUpTo, Whole
      <3> QED
        BY <1>1, <3>1, <3>2
    <2> QED
      BY <1>1, <1>2, <2>1 DEF WholeIsTrue
  <1>6. AllIsTrue'
    BY <1>1, <1>2, <1>3 DEF AllIsTrue, Whole
  <1>7. Honest' /\ HeadCovers'
    BY <1>0, <1>1 DEF Honest, HeadCovers
  <1> QED
    BY <1>4, <1>5, <1>6, <1>7 DEF AuditInv

\* The lines are chained anew over what they say now: what was false or missing is
\* known to somebody who did that.
LEMMA RehashStep ==
    ASSUME AuditInv, Rehash
    PROVE  AuditInv'
  <1>0. /\ AuditTypes /\ LaterKnows(log) /\ WholeIsTrue /\ AllIsTrue /\ Honest /\ HeadCovers
        /\ LogTypes(log, next, forged) /\ log \in Seq(Lines) /\ next \in Nat
        /\ damage \in Nat /\ next \in 1 .. MaxFacts + 1 /\ MaxFacts \in Nat
    BY AuditAssumption DEF AuditInv, AuditTypes, LogTypes
  <1> PICK n \in Nat : n = Len(log)
    BY <1>0
  <1> PICK said : said = [i \in 1 .. n |-> log[i].fact]
    OBVIOUS
  <1>1. /\ log' = [i \in 1 .. n |-> Line(said[i], SubSeq(said, 1, i - 1))]
        /\ forged' = forged \cup (Facts \ (1 .. next - 1)) \cup ((1 .. next - 1) \ Facts)
        /\ UNCHANGED <<head, next, kept, gone, forgiven>> /\ damage' = damage + 1
        /\ \A i \in 1 .. n : log[i] # Torn
    BY DEF Rehash, Readable
  <1>2. ASSUME NEW i \in 1 .. n
        PROVE  /\ said[i] = log[i].fact /\ said[i] \in Nat /\ said[i] \in Facts
               /\ Reported(said[i]) = Reported(Said(log[i]))
               /\ Reported(said[i]) \in 1 .. next - 1 /\ said[i] # 0
               /\ said[i] \in 1 .. next - 1 \/ said[i] \in forged'
    <2>1. Entry(log[i], next, forged) /\ log[i] \in Lines
      BY <1>0, <1>1, OneLine
    <2>2. /\ said[i] = log[i].fact /\ said[i] \in Nat /\ said[i] \in Facts
          /\ Reported(said[i]) = Reported(Said(log[i]))
          /\ Reported(said[i]) \in 1 .. next - 1
      BY <2>1 DEF Lines, Facts, Entry
    <2>3. said[i] # 0
      BY <1>0, <2>2 DEF Reported
    <2> QED
      BY <1>1, <2>2, <2>3
  <1>3. said \in Seq(Nat) /\ Len(said) = n
    BY <1>2
  <1>4. ASSUME NEW i \in 1 .. n, NEW j \in 1 .. n, i < j
        PROVE  Reported(said[i]) < Reported(said[j])
    BY <1>0, <1>1, <1>2, <1>4, Ordered, SMTT(30)
  <1>5. ASSUME NEW i \in 1 .. n
        PROVE  /\ log'[i].fact = said[i] /\ log'[i].prev = SubSeq(said, 1, i - 1)
               /\ log'[i].digest = Append(log'[i].prev, said[i])
               /\ log'[i].prev \in Seq(Nat) /\ log'[i].digest \in Seq(Nat)
               /\ log'[i] \in Lines /\ log'[i] # Torn /\ Said(log'[i]) = said[i]
               /\ Over(log'[i].prev) = {said[k] : k \in 1 .. i - 1}
               /\ Over(log'[i].digest) = {said[k] : k \in 1 .. i}
    <2> PICK p : p = SubSeq(said, 1, i - 1)
      OBVIOUS
    <2> PICK d : d = Append(p, said[i])
      OBVIOUS
    <2>1. log'[i] = Line(said[i], p)
      BY <1>1
    <2>2. p \in Seq(Nat) /\ Len(p) = i - 1 /\ \A k \in 1 .. i - 1 : p[k] = said[k]
      <3> PICK m \in Nat : m = i - 1
        OBVIOUS
      <3>1. m <= n /\ \A k \in 1 .. m : said[k] \in Nat
        BY <1>2
      <3>2. /\ SubSeq(said, 1, m) \in Seq(Nat) /\ Len(SubSeq(said, 1, m)) = m
            /\ \A k \in 1 .. m : SubSeq(said, 1, m)[k] = said[k]
        BY <1>3, <3>1, SubSeqProperties
      <3> QED
        BY <3>2
    <2>3. log'[i].fact = said[i] /\ log'[i].prev = p /\ log'[i].digest = d
      BY <2>1 DEF Line
    <2>4. d \in Seq(Nat) /\ d # <<>> /\ d[Len(d)] = said[i] /\ Over(d) = Over(p) \cup {said[i]}
      <3>1. p \in Seq(Nat) /\ said[i] \in Nat
        BY <1>2, <2>2
      <3>2. /\ Append(p, said[i]) \in Seq(Nat) /\ Append(p, said[i]) # <<>>
            /\ Append(p, said[i])[Len(Append(p, said[i]))] = said[i]
            /\ Over(Append(p, said[i])) = Over(p) \cup {said[i]}
        BY <3>1, OverAppended, Zenon
      <3> QED
        BY <3>2, Zenon
    <2>5. Over(p) = {said[k] : k \in 1 .. i - 1}
      <3>1. ASSUME NEW x \in Over(p) PROVE x \in {said[k] : k \in 1 .. i - 1}
        BY <2>2 DEF Over
      <3>2. ASSUME NEW k \in 1 .. i - 1 PROVE said[k] \in Over(p)
        <4>1. k \in 1 .. Len(p) /\ p[k] = said[k]
          BY <2>2
        <4> QED
          BY <4>1 DEF Over
      <3> QED
        BY <3>1, <3>2
    <2>6. {said[k] : k \in 1 .. i} = {said[k] : k \in 1 .. i - 1} \cup {said[i]}
      <3>1. i \in 1 .. i /\ \A k \in 1 .. i - 1 : k \in 1 .. i
        OBVIOUS
      <3>2. \A k \in 1 .. i : k = i \/ k \in 1 .. i - 1
        OBVIOUS
      <3> QED
        BY <3>1, <3>2, Zenon
    <2>7. log'[i] \in Lines /\ log'[i] # Torn
      BY <1>2, <2>1, <2>2, <2>3, <2>4 DEF Lines, Line, Torn
    <2>8. Said(log'[i]) = said[i]
      BY <2>3, <2>4 DEF Said
    <2>9. Over(log'[i].prev) = Over(p) /\ Over(log'[i].digest) = Over(d)
      BY <2>3
    <2> QED
      BY <2>2, <2>3, <2>4, <2>5, <2>6, <2>7, <2>8, <2>9
  <1>6. log' \in Seq(Lines) /\ Len(log') = n
    BY <1>1, <1>5
  <1>7. ASSUME NEW i \in 1 .. n
        PROVE  Entry(log'[i], next, forged')
    <2>1. /\ Said(log'[i]) = said[i] /\ log'[i].fact = said[i]
          /\ log'[i].digest = Append(log'[i].prev, said[i])
          /\ Over(log'[i].prev) = {said[k] : k \in 1 .. i - 1}
      BY <1>5
    <2>2. ASSUME NEW x \in Over(log'[i].prev) PROVE Reported(x) < Reported(said[i])
      <3> PICK k \in 1 .. i - 1 : x = said[k]
        BY <2>1
      <3>1. k \in 1 .. n /\ k < i
        OBVIOUS
      <3> QED
        BY <1>4, <3>1
    <2>3. /\ said[i] \in Nat /\ Reported(said[i]) \in 1 .. next - 1
          /\ said[i] \in 1 .. next - 1 \/ said[i] \in forged'
      BY <1>1, <1>2
    <2> QED
      BY <2>1, <2>2, <2>3 DEF Entry
  <1>8. AuditTypes'
    <2>1. LogTypes(log', next, forged')
      BY <1>5, <1>6, <1>7 DEF LogTypes
    <2> QED
      BY <1>0, <1>1, <2>1 DEF AuditTypes
  <1>9. LaterKnows(log')
    <2>1. ASSUME NEW i \in 1 .. n, NEW j \in 1 .. n, i < j
          PROVE  Said(log'[i]) \in Over(log'[j].prev)
      <3>1. i \in 1 .. j - 1
        BY <2>1
      <3>2. Said(log'[i]) = said[i] /\ Over(log'[j].prev) = {said[k] : k \in 1 .. j - 1}
        BY <1>5
      <3> QED
        BY <3>1, <3>2
    <2> QED
      BY <1>6, <2>1 DEF LaterKnows
  <1>10. \A f \in 1 .. next - 1 : f \in Excused' \/ \E i \in 1 .. n : said[i] = f
    BY <1>1, <1>2 DEF Excused, Facts
  <1>11. WholeIsTrue'
    <2>1. ASSUME NEW m \in 1 .. n
          PROVE  TrueUpTo(log', m, Excused')
      <3>0. \A i \in 1 .. m : i \in 1 .. n
        OBVIOUS
      <3>1. \A f \in Over(log'[m].digest) : SaidIn(log', f, m)
        <4>0. Over(log'[m].digest) = {said[k] : k \in 1 .. m}
          BY <1>5
        <4>1. SUFFICES ASSUME NEW k \in 1 .. m PROVE SaidIn(log', said[k], m)
          BY <4>0
        <4>2. Said(log'[k]) = said[k]
          BY <1>5, <3>0
        <4> QED
          BY <4>2 DEF SaidIn
      <3>2. ASSUME NEW f \in 1 .. Reported(Said(log'[m]))
            PROVE  f \in Excused' \/ SaidIn(log', f, m)
        <4>1. Reported(said[m]) \in 1 .. next - 1 /\ f \in 1 .. Reported(said[m])
          BY <1>2, <1>5, <3>2
        <4>2. f \in 1 .. next - 1 /\ f <= Reported(said[m]) /\ f \in Nat /\ f <= MaxFacts
          BY <1>0, <4>1
        <4>3. ASSUME NEW i \in 1 .. n, said[i] = f
              PROVE  SaidIn(log', f, m)
          <5>1. Reported(said[i]) = f
            BY <4>2, <4>3, AsReported
          <5>2. ~(m < i)
            BY <1>2, <1>4, <4>2, <5>1
          <5>3. i \in 1 .. m
            BY <5>2
          <5> QED
            BY <1>5, <4>3, <5>3 DEF SaidIn
        <4> QED
          BY <1>10, <4>2, <4>3
      <3> QED
        BY <3>1, <3>2 DEF TrueUpTo
    <2> QED
      BY <1>6, <2>1 DEF WholeIsTrue
  <1>12. AllIsTrue'
    <2>1. ASSUME NEW f \in 1 .. next - 1
          PROVE  f \in Excused' \/ SaidIn(log', f, n)
      <3>1. ASSUME NEW i \in 1 .. n, said[i] = f
            PROVE  SaidIn(log', f, n)
        <4>1. Said(log'[i]) = f
          BY <1>5, <3>1
        <4> QED
          BY <4>1 DEF SaidIn
      <3> QED
        BY <1>10, <3>1
    <2> QED
      BY <1>1, <1>6, <2>1 DEF AllIsTrue
  <1>13. Honest' /\ HeadCovers'
    BY <1>0, <1>1 DEF Honest, HeadCovers
  <1> QED
    BY <1>8, <1>9, <1>11, <1>12, <1>13 DEF AuditInv

\* The log keeps its invariant through crashes and damage.
LEMMA AuditStep ==
    ASSUME AuditInv, Next \/ UNCHANGED auditVars
    PROVE  AuditInv'
  <1>1. CASE UNCHANGED auditVars
    BY <1>1 DEF auditVars, vars, AuditInv, AuditTypes, WholeIsTrue, AllIsTrue, Excused, Honest,
       HeadCovers
  <1>2. ASSUME NEW n \in 0 .. MaxFacts, Cut(n) \/ Edit(n) \/ RemoveMiddle(n)
        PROVE  AuditInv'
    <2>1. n \in Nat
      BY AuditAssumption
    <2> QED
      BY <1>2, <2>1, CutStep, EditStep, RemoveStep
  <1> QED
    BY <1>1, <1>2, EntryAppended, EntryLost, RehashStep DEF Next

\* It starts empty.
LEMMA AuditStart == Init => AuditInv
  <1> SUFFICES ASSUME Init PROVE AuditInv
    OBVIOUS
  <1>1. log = <<>> /\ head = NoHead /\ next = 1 /\ damage = 0 /\ kept = {}
        /\ gone = {}
    BY DEF Init
  <1>2. log \in Seq(Lines) /\ Len(log) = 0
    BY <1>1, EmptySeq
  <1> QED
    BY <1>1, <1>2, AuditAssumption DEF AuditInv, AuditTypes, LogTypes, LaterKnows, WholeIsTrue,
       AllIsTrue, Honest, HeadCovers

\* What the verdict says is so.
LEMMA Verdicts == AuditInv => VerdictIsTrue
  <1> SUFFICES ASSUME AuditInv PROVE VerdictIsTrue
    OBVIOUS
  <1>0. /\ AuditTypes /\ LaterKnows(log) /\ WholeIsTrue /\ AllIsTrue /\ Honest /\ HeadCovers
        /\ LogTypes(log, next, forged) /\ log \in Seq(Lines) /\ next \in Nat
    BY DEF AuditInv, AuditTypes, LogTypes
  <1> PICK n \in Nat : n = Len(log)
    BY <1>0
  <1>1. Verify = "intact" <=> Readable /\ Chained /\ HeadKnown
    BY DEF Verify
  <1>2. Readable /\ Chained <=> Whole(log, n)
    BY DEF Readable, Chained, Whole, Follows
  <1>3. HonestIsIntact
    <2>1. SUFFICES ASSUME damage = 0, Readable PROVE Whole(log, n) /\ HeadKnown
      BY <1>1, <1>2 DEF HonestIsIntact
    <2>2. Whole(log, n)
      BY <1>0, <2>1 DEF Honest, Readable, Whole
    <2>3. HeadKnown
      BY <1>0, <2>1 DEF Honest, HeadKnown
    <2> QED
      BY <2>2, <2>3
  <1>4. ASSUME Whole(log, n)
        PROVE  \A i \in 1 .. n : /\ log[i] # Torn /\ log[i].fact = Said(log[i])
                                 /\ log[i].fact \in (1 .. next - 1) \cup forged
    <2>1. ASSUME NEW i \in 1 .. n
          PROVE  log[i] # Torn /\ log[i].fact = Said(log[i]) /\ log[i].fact \in (1 .. next - 1) \cup forged
      <3>1. Follows(log, i) /\ log[i] # Torn
        BY <1>4 DEF Whole, Follows
      <3>2. log[i].fact = Said(log[i]) /\ Entry(log[i], next, forged)
        BY <1>0, <3>1, SaysIt, OneLine
      <3> QED
        BY <3>1, <3>2 DEF Entry
    <2> QED
      BY <2>1
  <1>5. ASSUME Whole(log, n)
        PROVE  \A f : SaidIn(log, f, n) <=> f \in Facts
    BY <1>4, <1>5 DEF SaidIn, Facts
  <1>6. IntactIsTrue
    <2>1. SUFFICES ASSUME Whole(log, n)
                   PROVE  /\ Facts \subseteq (1 .. next - 1) \cup forged
                          /\ \A i, j \in 1 .. Len(log) :
                                i < j /\ {log[i].fact, log[j].fact} \cap forged = {}
                                => log[i].fact < log[j].fact
                          /\ 1 .. next - 1 \subseteq Facts \cup gone \cup forged
      BY <1>1, <1>2 DEF IntactIsTrue
    <2>2. Facts \subseteq (1 .. next - 1) \cup forged
      BY <1>4, <2>1 DEF Facts
    <2>3. ASSUME NEW i \in 1 .. n, NEW j \in 1 .. n, i < j,
                 log[i].fact \notin forged, log[j].fact \notin forged
          PROVE  log[i].fact < log[j].fact
      <3>1. /\ log[i].fact \in 1 .. next - 1 /\ log[j].fact \in 1 .. next - 1
            /\ log[i].fact = Said(log[i]) /\ log[j].fact = Said(log[j]) /\ log[j] # Torn
        BY <1>4, <2>1, <2>3
      <3>2. Reported(log[i].fact) = log[i].fact /\ Reported(log[j].fact) = log[j].fact
        <4>1. next - 1 <= MaxFacts /\ MaxFacts \in Nat
          BY <1>0, AuditAssumption DEF AuditTypes
        <4>2. \A x \in 1 .. next - 1 : x \in Nat /\ x <= MaxFacts
          BY <1>0, <4>1
        <4> QED
          BY <3>1, <4>2, AsReported
      <3> QED
        BY <1>0, <2>3, <3>1, <3>2, Ordered
    <2>4. 1 .. next - 1 \subseteq Facts \cup gone \cup forged
      BY <1>0, <1>5, <2>1 DEF AllIsTrue, Excused
    <2> QED
      BY <2>2, <2>3, <2>4
  <1>7. CutIsSeen
    <2>1. SUFFICES ASSUME Whole(log, n), HeadKnown PROVE kept \ forgiven \subseteq Facts
      BY <1>1, <1>2 DEF CutIsSeen
    <2>2. CASE head = NoHead
      BY <1>0, <2>2 DEF HeadCovers
    <2>3. ASSUME NEW i \in 1 .. n, log[i].digest = head, head # NoHead
          PROVE  kept \ forgiven \subseteq Facts
      <3>1. TrueUpTo(log, i, Excused) /\ Whole(log, i)
        BY <1>0, <2>1 DEF WholeIsTrue, Whole
      <3>2. \A f \in Over(head) : SaidIn(log, f, i)
        BY <2>3, <3>1 DEF TrueUpTo
      <3>3. \A f \in Over(head) : SaidIn(log, f, n)
        BY <3>2 DEF SaidIn
      <3> QED
        BY <1>0, <1>5, <2>1, <2>3, <3>3 DEF HeadCovers
    <2>4. CASE head = Head_ /\ head # NoHead
      <3>1. log # <<>>
        BY <1>0, <2>4 DEF HeadCovers, Head_
      <3>2. n \in 1 .. n /\ log[n].digest = head
        BY <1>0, <2>4, <3>1, EmptySeq DEF Head_
      <3> QED
        BY <2>3, <2>4, <3>2
    <2> QED
      BY <2>1, <2>2, <2>3, <2>4 DEF HeadKnown
  <1> QED
    BY <1>3, <1>6, <1>7 DEF VerdictIsTrue

\* Whatever crashes, cuts and edits the audit log sees, its verdict is true: an honest
\* log is intact, an intact one is the truth but for lines whose digests somebody
\* computed anew, and what a recorded head covered is missed, if it is cut off or
\* rewritten, until a head is recorded again (audit.rs: verify, append).
THEOREM AuditVerdictIsTrue == LibrarySpec => []VerdictIsTrue
  <1>1. LibraryInit => AuditInv
    BY AuditStart DEF LibraryInit
  <1>2. AuditInv /\ [LibraryNext]_libraryVars => AuditInv'
    BY AuditStep DEF LibraryNext, libraryVars
  <1> QED
    BY <1>1, <1>2, Verdicts, PTL DEF LibrarySpec

----------------------------------------------------------------------------
\* Numbers.

\* Of some numbers, one is the least: what is false of a number is false of a first.
LEMMA Least ==
    ASSUME NEW T \in SUBSET Nat, T # {}
    PROVE  \E x \in T : \A y \in T : x <= y
  <1>1. IsWellFoundedOn(OpToRel(<, Nat), Nat)
    BY NatLessThanWellFounded
  <1>2. PICK x \in T : \A y \in T : ~(<<y, x>> \in OpToRel(<, Nat))
    BY <1>1, WFMin
  <1>3. ASSUME NEW y \in T PROVE ~(y < x)
    <2>1. x \in Nat /\ y \in Nat
      OBVIOUS
    <2>2. y < x => <<y, x>> \in OpToRel(<, Nat)
      BY <2>1 DEF OpToRel
    <2> QED
      BY <1>2, <2>2
  <1>4. ASSUME NEW y \in T PROVE x <= y
    <2>1. x \in Nat /\ y \in Nat
      OBVIOUS
    <2> QED
      BY <1>3, <2>1
  <1> QED
    BY <1>4

\* The greatest of some numbers under a bound is one of them: the least distance
\* from the bound is reached.
LEMMA Greatest ==
    ASSUME NEW T \in SUBSET Nat, T # {}, NEW b \in Nat, \A x \in T : x <= b
    PROVE  Pass!Max(T) \in T /\ \A y \in T : y <= Pass!Max(T)
  <1> DEFINE D == {b - x : x \in T}
  <1>1. D \subseteq Nat /\ D # {}
    <2>1. \A x \in T : b - x \in Nat
      OBVIOUS
    <2>2. D \subseteq Nat
      BY <2>1
    <2>3. D # {}
      OBVIOUS
    <2> QED
      BY <2>2, <2>3
  <1>2. PICK d \in D : \A e \in D : d <= e
    <2> HIDE DEF D
    <2> QED
      BY <1>1, Least
  <1>3. PICK x \in T : d = b - x
    OBVIOUS
  <1>4. \A y \in T : x >= y
    <2>1. ASSUME NEW y \in T PROVE x >= y
      <3>1. b - y \in D
        OBVIOUS
      <3>2. b - x <= b - y
        BY <1>2, <1>3, <3>1
      <3> QED
        BY <3>2
    <2> QED
      BY <2>1
  <1>5. Pass!Max(T) \in T /\ \A y \in T : Pass!Max(T) >= y
    BY <1>4 DEF Pass!Max
  <1> QED
    BY <1>5

----------------------------------------------------------------------------
\* Passkeys.

\* A name in the domain of another is a beginning of it here.
LEMMA Beginning ==
    ASSUME NEW s \in Seq(STRING), NEW h \in Seq(STRING)
    PROVE  Pass!IsPrefix(s, h) <=>
             Len(s) <= Len(h) /\ \A i \in 1 .. Len(s) : s[i] = h[i]
  <1>1. ASSUME Len(s) <= Len(h)
        PROVE  SubSeq(s, 1, Len(s)) = SubSeq(h, 1, Len(s)) <=>
                 \A i \in 1 .. Len(s) : s[i] = h[i]
    <2>1. /\ Len(s) \in Nat /\ Len(h) \in Nat
          /\ SubSeq(s, 1, Len(s)) \in Seq(STRING) /\ SubSeq(h, 1, Len(s)) \in Seq(STRING)
          /\ Len(SubSeq(s, 1, Len(s))) = Len(s) /\ Len(SubSeq(h, 1, Len(s))) = Len(s)
          /\ \A i \in 1 .. Len(s) : SubSeq(s, 1, Len(s))[i] = s[i]
          /\ \A i \in 1 .. Len(s) : SubSeq(h, 1, Len(s))[i] = h[i]
      BY <1>1
    <2> QED
      BY <2>1, SeqEqual
  <1> QED
    BY <1>1 DEF Pass!IsPrefix

\* The public suffix is as long as the longest rule that fits, and at least one label.
LEMMA SuffixIsLongest ==
    ASSUME NEW d \in Seq(STRING)
    PROVE  /\ Pass!SuffixLength(d) \in Nat /\ Pass!SuffixLength(d) >= 1
           /\ \A r \in Suffixes : Pass!Fits(r, d) => Len(r) <= Pass!SuffixLength(d)
           /\ \/ Pass!SuffixLength(d) = 1
              \/ \E r \in Suffixes : Pass!Fits(r, d) /\ Len(r) = Pass!SuffixLength(d)
  <1> DEFINE F == {q \in Suffixes : Pass!Fits(q, d)}
             T == {1} \cup {Len(r) : r \in F}
  <1>1. \A r \in F : Len(r) \in Nat /\ Len(r) <= Len(d)
    BY PasskeyAssumption DEF Pass!Fits
  <1>2. T \in SUBSET Nat /\ T # {} /\ Len(d) + 1 \in Nat /\ \A x \in T : x <= Len(d) + 1
    BY <1>1
  <1>3. Pass!Max(T) \in T /\ \A y \in T : y <= Pass!Max(T)
    <2> HIDE DEF T
    <2> QED
      BY <1>2, Greatest
  <1>4. Pass!SuffixLength(d) = Pass!Max(T)
    BY DEF Pass!SuffixLength
  <1> QED
    BY <1>2, <1>3, <1>4

\* Both names in a domain of their own have the same owner when one is a suffix of
\* the other that reaches below its public suffix.
LEMMA SameOwner ==
    ASSUME NEW s \in Seq(STRING), NEW h \in Seq(STRING),
           Pass!IsRegistrableDomainSuffixOfOrEqualTo(s, h)
    PROVE  Pass!OwnerOf(s) = Pass!OwnerOf(h)
  <1>1. CASE s = h
    BY <1>1
  <1>2. CASE s # h
    <2> DEFINE n == Pass!SuffixLength(s)
               m == Pass!SuffixLength(h)
    <2>1. /\ Pass!EndsWith(h, s) /\ Pass!HasRegistrable(s)
          /\ Pass!PublicSuffixOf(h) # s /\ ~Pass!EndsWith(Pass!PublicSuffixOf(h), s)
      BY <1>2 DEF Pass!IsRegistrableDomainSuffixOfOrEqualTo
    <2>2. Len(s) <= Len(h) /\ \A i \in 1 .. Len(s) : s[i] = h[i]
      BY <2>1, Beginning DEF Pass!EndsWith, Pass!IsStrictPrefix
    <2>3. /\ n \in Nat /\ n >= 1 /\ m \in Nat /\ m >= 1
          /\ Len(s) \in Nat /\ Len(h) \in Nat /\ Len(s) > n
      BY <2>1, SuffixIsLongest DEF Pass!HasRegistrable
    <2>4. Pass!HasRegistrable(h)
      BY <2>1 DEF Pass!PublicSuffixOf
    <2>5. Pass!PublicSuffixOf(h) = SubSeq(h, 1, m)
      <3>1. Len(h) > m
        BY <2>4 DEF Pass!HasRegistrable
      <3> DEFINE e == SubSeq(h, 1, m + 1)
      <3>2. e \in Seq(STRING) /\ Len(e) = m + 1 /\ \A i \in 1 .. m : e[i] = h[i]
        BY <2>3, <3>1
      <3>3. Pass!PublicSuffixOf(h) = SubSeq(e, 1, Len(e) - 1)
        BY <2>4 DEF Pass!PublicSuffixOf, Pass!Front, Pass!EffectiveTldPlusOne
      <3> HIDE DEF e
      <3>4. Len(e) - 1 = m
        BY <2>3, <3>2
      <3>5. SubSeq(e, 1, m) = SubSeq(h, 1, m)
        <4>1. /\ SubSeq(e, 1, m) \in Seq(STRING) /\ SubSeq(h, 1, m) \in Seq(STRING)
              /\ Len(SubSeq(e, 1, m)) = m /\ Len(SubSeq(h, 1, m)) = m
              /\ \A i \in 1 .. m : SubSeq(e, 1, m)[i] = e[i]
              /\ \A i \in 1 .. m : SubSeq(h, 1, m)[i] = h[i]
          BY <2>3, <3>1, <3>2
        <4> QED
          BY <3>2, <4>1, SeqEqual
      <3> QED
        BY <3>3, <3>4, <3>5
    <2>6. Len(s) > m
      <3>1. SUFFICES ASSUME Len(s) <= m PROVE FALSE
        BY <2>3
      <3>2. Len(h) > m
        BY <2>4 DEF Pass!HasRegistrable
      <3> DEFINE p == SubSeq(h, 1, m)
      <3>3. p \in Seq(STRING) /\ Len(p) = m /\ \A i \in 1 .. m : p[i] = h[i]
        BY <2>3, <3>2
      <3> HIDE DEF p
      <3>4. \A i \in 1 .. Len(s) : s[i] = p[i]
        BY <2>2, <2>3, <3>1, <3>3
      <3>5. Pass!IsPrefix(s, p)
        BY <3>1, <3>3, <3>4, Beginning
      <3>6. Pass!EndsWith(p, s) \/ p = s
        BY <3>5 DEF Pass!EndsWith, Pass!IsStrictPrefix
      <3> QED
        BY <2>1, <2>5, <3>6 DEF p
    <2>7. \A r \in Suffixes : Pass!Fits(r, s) => Pass!Fits(r, h)
      <3>1. ASSUME NEW r \in Suffixes, Pass!Fits(r, s) PROVE Pass!Fits(r, h)
        <4>1. r \in Seq(STRING) /\ Len(r) \in Nat /\ DOMAIN r = 1 .. Len(r)
          BY PasskeyAssumption
        <4> QED
          BY <2>2, <2>3, <3>1, <4>1 DEF Pass!Fits
      <3> QED
        BY <3>1
    <2>8. \A r \in Suffixes : Pass!Fits(r, h) /\ Len(r) < Len(s) => Pass!Fits(r, s)
      <3>1. ASSUME NEW r \in Suffixes, Pass!Fits(r, h), Len(r) < Len(s) PROVE Pass!Fits(r, s)
        <4>1. r \in Seq(STRING) /\ Len(r) \in Nat /\ DOMAIN r = 1 .. Len(r)
          BY PasskeyAssumption
        <4> QED
          BY <2>2, <2>3, <3>1, <4>1 DEF Pass!Fits
      <3> QED
        BY <3>1
    <2>9. n = m
      <3>1. n <= m
        <4>1. n = 1 \/ \E r \in Suffixes : Pass!Fits(r, s) /\ Len(r) = n
          BY SuffixIsLongest
        <4>2. \A r \in Suffixes : Pass!Fits(r, s) => Len(r) <= m
          BY <2>7, SuffixIsLongest
        <4> QED
          BY <2>3, <4>1, <4>2
      <3>2. m <= n
        <4>1. m = 1 \/ \E r \in Suffixes : Pass!Fits(r, h) /\ Len(r) = m
          BY SuffixIsLongest
        <4>2. \A r \in Suffixes : Pass!Fits(r, h) /\ Len(r) = m => Len(r) <= n
          BY <2>6, <2>8, SuffixIsLongest
        <4> QED
          BY <2>3, <4>1, <4>2
      <3> QED
        BY <2>3, <3>1, <3>2
    <2>10. SubSeq(s, 1, n + 1) = SubSeq(h, 1, n + 1)
      <3> HIDE DEF n, m
      <3>1. n + 1 \in Nat /\ n + 1 <= Len(s) /\ n + 1 <= Len(h)
        BY <2>2, <2>3
      <3>2. /\ SubSeq(s, 1, n + 1) \in Seq(STRING) /\ SubSeq(h, 1, n + 1) \in Seq(STRING)
            /\ Len(SubSeq(s, 1, n + 1)) = n + 1 /\ Len(SubSeq(h, 1, n + 1)) = n + 1
            /\ \A i \in 1 .. n + 1 : SubSeq(s, 1, n + 1)[i] = s[i]
            /\ \A i \in 1 .. n + 1 : SubSeq(h, 1, n + 1)[i] = h[i]
        BY <3>1
      <3>3. \A i \in 1 .. n + 1 : s[i] = h[i]
        BY <2>2, <3>1
      <3> QED
        BY <3>2, <3>3, SeqEqual
    <2> QED
      BY <2>1, <2>4, <2>9, <2>10 DEF Pass!OwnerOf, Pass!EffectiveTldPlusOne
  <1> QED
    BY <1>1, <1>2

\* A credential is of the domain it was minted in, and every assertion was made where
\* it may sign.
PassInv ==
    /\ cred # Pass!NoCred =>
         /\ cred.rp \in Seq(STRING) /\ minted \in Seq(STRING)
         /\ Pass!IsRegistrableDomainSuffixOfOrEqualTo(cred.rp, minted)
    /\ signed # Pass!None =>
         /\ cred # Pass!NoCred /\ signed.host \in Seq(STRING)
         /\ Pass!IsRegistrableDomainSuffixOfOrEqualTo(cred.rp, signed.host)

\* A credential is minted under a name its host may use.
LEMMA Minted ==
    ASSUME PassInv, NEW rp \in Seq(STRING), NEW host \in Seq(STRING), NEW offer, NEW prf,
           Pass!IsRegistrableDomainSuffixOfOrEqualTo(rp, host),
           Pass!Mint(rp, host, offer, prf)
    PROVE  PassInv'
  <1>1. /\ cred = Pass!NoCred /\ cred'.rp = rp /\ minted' = host /\ signed' = signed
    BY DEF Pass!Mint
  <1>2. signed = Pass!None
    BY <1>1 DEF PassInv
  <1> QED
    BY <1>1, <1>2 DEF PassInv, Pass!None

\* A credential signs for a host its name may be used for.
LEMMA Asserted ==
    ASSUME PassInv, cred # Pass!NoCred, NEW host \in Seq(STRING), NEW salt, NEW backed,
           Pass!IsRegistrableDomainSuffixOfOrEqualTo(cred.rp, host),
           Pass!Sign(host, salt, backed)
    PROVE  PassInv'
  <1>1. signed'.host = host /\ cred' = cred /\ minted' = minted
    BY DEF Pass!Sign
  <1> QED
    BY <1>1 DEF PassInv, Pass!NoCred

\* The host of a page is a name, or none.
LEMMA HostIsName ==
    ASSUME NEW o \in Pass!Origin PROVE Pass!OriginHost(o) \in Seq(STRING)
  <1>1. o.host \in Hosts \cup {Pass!Ip}
    BY DEF Pass!Origin
  <1>2. <<>> \in Seq(STRING) /\ Pass!Ip = <<>>
    BY DEF Pass!Ip
  <1>3. o.host \in Seq(STRING)
    BY <1>1, <1>2, PasskeyAssumption
  <1> QED
    BY <1>2, <1>3 DEF Pass!OriginHost

\* Every step keeps it.
LEMMA PassStep == PassInv /\ [Pass!Next]_passVars => PassInv'
  <1> SUFFICES ASSUME PassInv, [Pass!Next]_passVars PROVE PassInv'
    OBVIOUS
  <1>1. ASSUME NEW rp \in Hosts, NEW prf \in BOOLEAN, NEW o \in Pass!Origin,
               Pass!CreateForPage(rp, o, prf)
        PROVE  PassInv'
    BY <1>1, HostIsName, Minted, PasskeyAssumption DEF Pass!CreateForPage, Pass!RpIdIsValidForOrigin
  <1>2. ASSUME NEW rp \in Hosts, NEW prf \in BOOLEAN, NEW offer \in AlgorithmLists,
               Pass!CreateForKey(rp, offer, prf)
        PROVE  PassInv'
    <2>1. Pass!IsRegistrableDomainSuffixOfOrEqualTo(rp, rp)
      BY <1>2 DEF Pass!CreateForKey, Pass!RpIdIsRegistrable, Pass!IsRegistrableDomainSuffixOfOrEqualTo
    <2> QED
      BY <1>2, <2>1, Minted, PasskeyAssumption DEF Pass!CreateForKey
  <1>3. ASSUME NEW salt \in BOOLEAN, NEW backed \in BOOLEAN, NEW o \in Pass!Origin,
               Pass!AssertForPage(o, salt, backed)
        PROVE  PassInv'
    BY <1>3, HostIsName, Asserted DEF Pass!AssertForPage, Pass!RpIdIsValidForOrigin
  <1>4. ASSUME NEW salt \in BOOLEAN, NEW backed \in BOOLEAN, Pass!AssertForKey(salt, backed)
        PROVE  PassInv'
    <2>1. /\ cred # Pass!NoCred /\ cred.rp \in Seq(STRING)
          /\ Pass!IsRegistrableDomainSuffixOfOrEqualTo(cred.rp, cred.rp)
      BY <1>4 DEF Pass!AssertForKey, Pass!RpIdIsRegistrable, PassInv,
                  Pass!IsRegistrableDomainSuffixOfOrEqualTo
    <2> QED
      BY <1>4, <2>1, Asserted DEF Pass!AssertForKey
  <1>5. ASSUME UNCHANGED passVars PROVE PassInv'
    BY <1>5 DEF passVars, PassInv, Pass!NoCred, Pass!None
  <1> QED
    BY <1>1, <1>2, <1>3, <1>4, <1>5 DEF Pass!Next

\* What was signed for and what was minted for have one owner.
LEMMA Owners == PassInv => OneOwner
  <1> SUFFICES ASSUME PassInv, signed # Pass!None
               PROVE  Pass!OwnerOf(signed.host) = Pass!OwnerOf(minted)
    BY DEF OneOwner, Pass!OneOwner
  <1>1. /\ cred.rp \in Seq(STRING) /\ minted \in Seq(STRING) /\ signed.host \in Seq(STRING)
        /\ Pass!IsRegistrableDomainSuffixOfOrEqualTo(cred.rp, minted)
        /\ Pass!IsRegistrableDomainSuffixOfOrEqualTo(cred.rp, signed.host)
    BY DEF PassInv
  <1>2. Pass!OwnerOf(cred.rp) = Pass!OwnerOf(minted)
    BY <1>1, SameOwner
  <1>3. Pass!OwnerOf(cred.rp) = Pass!OwnerOf(signed.host)
    BY <1>1, SameOwner
  <1> QED
    BY <1>2, <1>3

\* A passkey minted for one site signs for no site of another owner, whatever hosts
\* there are and whatever the public suffix list says of them (passkey.rs:
\* is_registrable_domain_suffix_of_or_equal_to, Credential::create and assert).
THEOREM PasskeysHaveOneOwner == LibrarySpec => []OneOwner
  <1>1. LibraryInit => PassInv
    BY DEF LibraryInit, Pass!Init, PassInv
  <1>2. PassInv /\ [LibraryNext]_libraryVars => PassInv'
    BY PassStep DEF LibraryNext, libraryVars
  <1> QED
    BY <1>1, <1>2, Owners, PTL DEF LibrarySpec

----------------------------------------------------------------------------
\* The recipients of a vault file.

PassphraseRecipients ==
    [label : {"passphrase"}, kind : {"passphrase"}, salt : Nat,
     sealed : [key : {"kek"} \X Passphrase \X Nat, text : Nat]]
HybridRecipients ==
    [label : Label, kind : {"hybrid"}, public : Nat, salt : Nat,
     sealed : [key : {"hybrid"} \X Nat \X Nat, text : Nat]]
AnyRecipient == PassphraseRecipients \cup HybridRecipients
KeyIds == [label : Label, id : Nat]
Holders == [passphrase : Passphrase, keys : SUBSET KeyIds]
Methods == {"passphrase", "recovery"}
Handles == [open : {TRUE}, epoch : Nat, recipients : Seq(AnyRecipient), dek : Nat,
            records : Nat, method : Methods, owed : Nat]

\* A list of recipients seals the data key for the holders and for nobody else, and
\* no two recipients have one label.
SealedFor(r, w) ==
    r.sealed.key = IF r.kind = "passphrase" THEN Keys!DeriveKek(w.passphrase, r.salt)
                   ELSE Keys!CombineShared(r.public, r.salt)
LabelsDiffer(rs) == \A i, j \in 1 .. Len(rs) : rs[i].label = rs[j].label => i = j
IsFor(r, k) == r.kind = "hybrid" /\ r.label = k.label /\ r.public = k.id
Serves(rs, dek, w) ==
    /\ rs \in Seq(AnyRecipient) /\ dek \in Nat /\ w \in Holders
    /\ \A i \in 1 .. Len(rs) : rs[i].sealed.text = dek /\ SealedFor(rs[i], w)
    /\ LabelsDiffer(rs)
    /\ \E i \in 1 .. Len(rs) : rs[i].kind = "passphrase"
    /\ \A i \in 1 .. Len(rs) : rs[i].kind = "hybrid" => \E k \in w.keys : IsFor(rs[i], k)
    /\ \A k \in w.keys : \E i \in 1 .. Len(rs) : IsFor(rs[i], k)

\* A file as a save writes it, for those who were to open it.
WrittenFor(f, w) ==
    /\ f.epoch \in Nat /\ f.payload.text \in Nat
    /\ f = Keys!FileOf(f.epoch, f.recipients, f.payload.key, f.payload.text)
    /\ Serves(f.recipients, f.payload.key, w)

KeysInv ==
    /\ drawn \in Nat /\ keyfiles \subseteq KeyIds
    /\ \A s \in saved : WrittenFor(s.file, s.who)
    /\ \E s \in saved : disk.mac = s.file.mac
    /\ \/ handle = Keys!Closed
       \/ handle \in Handles /\ Serves(handle.recipients, handle.dek, who)

\* What a file is made of.
LEMMA FileParts ==
    ASSUME NEW e, NEW rs, NEW d, NEW t
    PROVE  LET f == Keys!FileOf(e, rs, d, t) IN
           /\ f.epoch = e /\ f.recipients = rs /\ f.payload.key = d /\ f.payload.text = t
           /\ f.payload = Keys!Seal(d, t)
           /\ f.mac = <<d, <<e, rs, Keys!Seal(d, t)>>>>
  BY DEF Keys!FileOf, Keys!Seal, Keys!MacInput

\* ... and what a recipient is.
LEMMA RecipientParts ==
    ASSUME NEW r \in AnyRecipient
    PROVE  /\ r.kind = "passphrase" => r.label = "passphrase"
           /\ r.kind # "passphrase" => r.kind = "hybrid" /\ r.label \in Label /\ r.public \in Nat
           /\ r.salt \in Nat
  BY DEF AnyRecipient, PassphraseRecipients, HybridRecipients

\* What a passphrase recipient is made of.
LEMMA MadePassphrase ==
    ASSUME NEW p \in Passphrase, NEW n \in Nat, NEW d \in Nat,
           NEW r, r = Keys!PassphraseRecipient(p, n, d)
    PROVE  /\ r \in AnyRecipient /\ r.kind = "passphrase" /\ r.label = "passphrase"
           /\ r.salt = n /\ r.sealed.text = d /\ r.sealed.key = Keys!DeriveKek(p, n)
  <1>1. <<"kek", p, n>> \in {"kek"} \X Passphrase \X Nat
    OBVIOUS
  <1>2. r = [label |-> "passphrase", kind |-> "passphrase", salt |-> n,
             sealed |-> [key |-> <<"kek", p, n>>, text |-> d]]
    BY DEF Keys!PassphraseRecipient, Keys!Seal, Keys!DeriveKek
  <1>3. r \in PassphraseRecipients
    BY <1>1, <1>2 DEF PassphraseRecipients
  <1> QED
    BY <1>2, <1>3 DEF AnyRecipient, Keys!DeriveKek

\* ... and a recovery recipient.
LEMMA MadeHybrid ==
    ASSUME NEW l \in Label, NEW id \in Nat, NEW n \in Nat, NEW d \in Nat,
           NEW r, r = Keys!WrapHybrid(l, id, n, d)
    PROVE  /\ r \in AnyRecipient /\ r.kind = "hybrid" /\ r.label = l /\ r.public = id
           /\ r.salt = n /\ r.sealed.text = d /\ r.sealed.key = Keys!CombineShared(id, n)
  <1>1. <<"hybrid", id, n>> \in {"hybrid"} \X Nat \X Nat
    OBVIOUS
  <1>2. r = [label |-> l, kind |-> "hybrid", public |-> id, salt |-> n,
             sealed |-> [key |-> <<"hybrid", id, n>>, text |-> d]]
    BY DEF Keys!WrapHybrid, Keys!Seal, Keys!CombineShared
  <1>3. r \in HybridRecipients
    BY <1>1, <1>2 DEF HybridRecipients
  <1> QED
    BY <1>2, <1>3 DEF AnyRecipient, Keys!CombineShared

\* What was unlocked is the file, and a save wrote it.
LEMMA Unlocked ==
    ASSUME KeysInv, NEW d, NEW m \in Methods, NEW h, h = Keys!FinishUnlock(disk, d, m), h.open
    PROVE  /\ h \in Handles /\ h.epoch = disk.epoch /\ h.recipients = disk.recipients
           /\ \E s \in saved :
                /\ s.file.epoch = h.epoch /\ s.file.recipients = h.recipients
                /\ s.file.payload = Keys!Seal(h.dek, h.records)
                /\ h.dek = s.file.payload.key
  <1>1. /\ disk.mac = <<d, <<disk.epoch, disk.recipients, disk.payload>>>>
        /\ disk.payload.key = d
        /\ h = [open |-> TRUE, epoch |-> disk.epoch, recipients |-> disk.recipients, dek |-> d,
                records |-> disk.payload.text, method |-> m, owed |-> 0]
    BY DEF Keys!FinishUnlock, Keys!Refused, Keys!Closed, Keys!MacInput, Keys!Opens
  <1>2. PICK s \in saved : disk.mac = s.file.mac
    BY DEF KeysInv
  <1>3. WrittenFor(s.file, s.who)
    BY DEF KeysInv
  <1>4. /\ s.file.mac = <<s.file.payload.key, <<s.file.epoch, s.file.recipients, s.file.payload>>>>
        /\ s.file.payload = Keys!Seal(s.file.payload.key, s.file.payload.text)
    BY <1>3, FileParts DEF WrittenFor
  <1>5. /\ s.file.payload.key = d /\ s.file.epoch = disk.epoch
        /\ s.file.recipients = disk.recipients /\ s.file.payload = disk.payload
    BY <1>1, <1>2, <1>4
  <1>6. /\ disk.epoch \in Nat /\ disk.recipients \in Seq(AnyRecipient) /\ d \in Nat
        /\ disk.payload.text \in Nat
    BY <1>3, <1>5 DEF WrittenFor, Serves
  <1>7. h \in Handles
    BY <1>1, <1>6 DEF Handles
  <1> QED
    BY <1>1, <1>4, <1>5, <1>7

\* Either way in, a vault is refused or it was unlocked.
LEMMA WaysIn ==
    ASSUME NEW p, NEW k
    PROVE  /\ Keys!Unlock(disk, p).open =>
                \E d : Keys!Unlock(disk, p) = Keys!FinishUnlock(disk, d, "passphrase")
           /\ Keys!UnlockWithRecovery(disk, k).open =>
                \E d : Keys!UnlockWithRecovery(disk, k) = Keys!FinishUnlock(disk, d, "recovery")
  <1>1. ASSUME NEW at, NEW m
        PROVE  Keys!UnlockAt(disk, at, m).open =>
                 \E d : Keys!UnlockAt(disk, at, m) = Keys!FinishUnlock(disk, d, m)
    BY DEF Keys!UnlockAt, Keys!Refused, Keys!Closed
  <1>2. PICK a : Keys!Unlock(disk, p) = Keys!UnlockAt(disk, a, "passphrase")
    BY DEF Keys!Unlock
  <1>3. PICK b : Keys!UnlockWithRecovery(disk, k) = Keys!UnlockAt(disk, b, "recovery")
    BY DEF Keys!UnlockWithRecovery
  <1> QED
    BY <1>1, <1>2, <1>3

\* A save writes a file for those the list serves.
LEMMA Saving ==
    ASSUME KeysInv, handle \in Handles,
           NEW rs, NEW d, NEW w, Serves(rs, d, w), NEW t \in Nat, NEW owed \in Nat,
           Keys!Save(rs, d, t, w, owed), drawn' \in Nat, keyfiles' = keyfiles
    PROVE  KeysInv'
  <1> DEFINE f == Keys!FileOf(handle.epoch + 1, rs, d, t)
             s == [file |-> f, who |-> w]
  <1>1. /\ disk' = f /\ who' = w /\ saved' = saved \cup {s}
        /\ handle' = [handle EXCEPT !.epoch = @ + 1, !.recipients = rs, !.dek = d,
                                    !.records = t, !.owed = owed]
    BY DEF Keys!Save
  <1>2. handle.epoch + 1 \in Nat /\ rs \in Seq(AnyRecipient) /\ d \in Nat
    BY DEF Handles, Serves
  <1>3. f.epoch = handle.epoch + 1 /\ f.recipients = rs /\ f.payload.key = d /\ f.payload.text = t
    BY FileParts
  <1>4. WrittenFor(f, w)
    <2> HIDE DEF f
    <2>1. f = Keys!FileOf(f.epoch, f.recipients, f.payload.key, f.payload.text)
      BY <1>3 DEF f
    <2> QED
      BY <1>2, <1>3, <2>1 DEF WrittenFor
  <1>5. handle' \in Handles /\ handle'.recipients = rs /\ handle'.dek = d
    BY <1>1, <1>2 DEF Handles
  <1> HIDE DEF f
  <1>6. \A x \in saved' : WrittenFor(x.file, x.who)
    BY <1>1, <1>4 DEF KeysInv
  <1>7. \E x \in saved' : disk'.mac = x.file.mac
    <2>1. s \in saved' /\ s.file = f
      BY <1>1
    <2> QED
      BY <1>1, <2>1
  <1>8. keyfiles' \subseteq KeyIds
    BY DEF KeysInv
  <1>9. Serves(handle'.recipients, handle'.dek, who')
    BY <1>1, <1>5
  <1> QED
    BY <1>5, <1>6, <1>7, <1>8, <1>9 DEF KeysInv

\* A vault is opened for those who could open the file when it was saved.
LEMMA Opening ==
    ASSUME KeysInv, NEW d, NEW m \in Methods, NEW h, h = Keys!FinishUnlock(disk, d, m),
           Keys!Open(h)
    PROVE  KeysInv'
  <1>1. /\ h.open /\ handle' = h
        /\ who' = (CHOOSE x \in saved : x.file.epoch = disk.epoch /\ x.file.recipients = disk.recipients).who
        /\ disk' = disk /\ keyfiles' = keyfiles /\ drawn' = drawn /\ saved' = saved
    BY DEF Keys!Open
  <1>2. h \in Handles /\ h.epoch = disk.epoch /\ h.recipients = disk.recipients
    BY <1>1, Unlocked
  <1>3. PICK s \in saved :
                /\ s.file.epoch = h.epoch /\ s.file.recipients = h.recipients
                /\ h.dek = s.file.payload.key
    BY <1>1, Unlocked
  <1>4. PICK x \in saved : /\ who' = x.who
                           /\ x.file.epoch = disk.epoch /\ x.file.recipients = disk.recipients
    BY <1>1, <1>2, <1>3
  <1>5. Serves(s.file.recipients, s.file.payload.key, s.who) /\ Serves(x.file.recipients, x.file.payload.key, x.who)
    BY DEF KeysInv, WrittenFor
  <1>6. PICK i \in 1 .. Len(h.recipients) : h.recipients[i].kind = "passphrase"
    BY <1>3, <1>5 DEF Serves
  <1>7. h.recipients[i].sealed.text = s.file.payload.key /\ h.recipients[i].sealed.text = x.file.payload.key
    BY <1>2, <1>3, <1>4, <1>5 DEF Serves
  <1>8. Serves(h.recipients, h.dek, who')
    BY <1>2, <1>3, <1>4, <1>5, <1>7
  <1> QED
    BY <1>1, <1>2, <1>8 DEF KeysInv

\* A recipient served again.
LEMMA RewrappedOne ==
    ASSUME NEW r \in AnyRecipient, NEW p \in Passphrase, NEW n \in Nat, NEW v, v.passphrase = p,
           NEW x, x = Keys!Rewrapped(r, p, n)
    PROVE  /\ x \in AnyRecipient /\ x.kind = r.kind /\ x.label = r.label
           /\ x.kind = "hybrid" => x.public = r.public
           /\ x.sealed.text = n /\ SealedFor(x, v)
  <1>1. CASE r.kind = "passphrase"
    <2>1. x = Keys!PassphraseRecipient(p, n, n) /\ r.label = "passphrase"
      BY <1>1, RecipientParts DEF Keys!Rewrapped
    <2>2. /\ x \in AnyRecipient /\ x.kind = "passphrase" /\ x.label = "passphrase"
          /\ x.salt = n /\ x.sealed.text = n /\ x.sealed.key = Keys!DeriveKek(p, n)
      BY <2>1, MadePassphrase
    <2> QED
      BY <1>1, <2>1, <2>2 DEF SealedFor
  <1>2. CASE r.kind # "passphrase"
    <2>1. PICK l \in Label, u \in Nat : l = r.label /\ u = r.public
      BY <1>2, RecipientParts
    <2>2. r.kind = "hybrid" /\ x = Keys!WrapHybrid(l, u, n, n)
      BY <1>2, <2>1, RecipientParts DEF Keys!Rewrapped
    <2>3. /\ x \in AnyRecipient /\ x.kind = "hybrid" /\ x.label = l /\ x.public = u
          /\ x.salt = n /\ x.sealed.text = n /\ x.sealed.key = Keys!CombineShared(u, n)
      BY <2>2, MadeHybrid
    <2> QED
      BY <2>1, <2>2, <2>3 DEF SealedFor
  <1> QED
    BY <1>1, <1>2

\* A list served again under a new key and a new passphrase.
LEMMA RewrappedServes ==
    ASSUME NEW rs, NEW d, NEW w, Serves(rs, d, w), NEW p \in Passphrase, NEW n \in Nat
    PROVE  Serves([i \in DOMAIN rs |-> Keys!Rewrapped(rs[i], p, n)], n, [w EXCEPT !.passphrase = p])
  <1> DEFINE q == [i \in DOMAIN rs |-> Keys!Rewrapped(rs[i], p, n)]
             v == [w EXCEPT !.passphrase = p]
  <1>1. /\ rs \in Seq(AnyRecipient) /\ w \in Holders
        /\ Len(rs) \in Nat /\ DOMAIN rs = 1 .. Len(rs)
        /\ \A i \in 1 .. Len(rs) : rs[i] \in AnyRecipient
    BY DEF Serves
  <1>2. v \in Holders /\ v.passphrase = p /\ v.keys = w.keys
    BY <1>1 DEF Holders
  <1>3. ASSUME NEW i \in 1 .. Len(rs)
        PROVE  /\ q[i] \in AnyRecipient /\ q[i].kind = rs[i].kind /\ q[i].label = rs[i].label
               /\ q[i].kind = "hybrid" => q[i].public = rs[i].public
               /\ q[i].sealed.text = n /\ SealedFor(q[i], v)
    <2>1. PICK r \in AnyRecipient : r = rs[i]
      BY <1>1
    <2>2. PICK x : x = q[i]
      OBVIOUS
    <2>3. x = Keys!Rewrapped(r, p, n)
      BY <1>1, <2>1, <2>2
    <2> HIDE DEF q, v
    <2>4. /\ x \in AnyRecipient /\ x.kind = r.kind /\ x.label = r.label
          /\ x.kind = "hybrid" => x.public = r.public
          /\ x.sealed.text = n /\ SealedFor(x, v)
      BY <1>2, <2>3, RewrappedOne
    <2> QED
      BY <2>1, <2>2, <2>4
  <1>4. q \in Seq(AnyRecipient) /\ Len(q) = Len(rs)
    BY <1>1, <1>3
  <1> HIDE DEF q, v
  <1>5. LabelsDiffer(q)
    BY <1>3, <1>4 DEF LabelsDiffer, Serves
  <1>6. \E i \in 1 .. Len(q) : q[i].kind = "passphrase"
    BY <1>3, <1>4 DEF Serves
  <1>7. ASSUME NEW i \in 1 .. Len(q), q[i].kind = "hybrid" PROVE \E k \in v.keys : IsFor(q[i], k)
    BY <1>2, <1>3, <1>4, <1>7 DEF Serves, IsFor
  <1>8. ASSUME NEW k \in v.keys PROVE \E i \in 1 .. Len(q) : IsFor(q[i], k)
    BY <1>2, <1>3, <1>4, SMTT(30) DEF Serves, IsFor
  <1>9. \A i \in 1 .. Len(q) : q[i].sealed.text = n /\ SealedFor(q[i], v)
    BY <1>3, <1>4
  <1>10. Serves(q, n, v)
    BY <1>2, <1>4, <1>5, <1>6, <1>7, <1>8, <1>9 DEF Serves
  <1> QED
    BY <1>10 DEF q, v

\* A list that serves one key more.
LEMMA AddedServes ==
    ASSUME NEW rs, NEW d, NEW w, Serves(rs, d, w), NEW l \in Label, NEW n \in Nat,
           l \notin {rs[i].label : i \in DOMAIN rs}
    PROVE  Serves(Append(rs, Keys!WrapHybrid(l, n, n, d)), d,
                  [w EXCEPT !.keys = @ \cup {[label |-> l, id |-> n]}])
  <1> DEFINE new == Keys!WrapHybrid(l, n, n, d)
             q == Append(rs, new)
             key == [label |-> l, id |-> n]
             v == [w EXCEPT !.keys = @ \cup {key}]
  <1>1. /\ rs \in Seq(AnyRecipient) /\ w \in Holders /\ d \in Nat
        /\ Len(rs) \in Nat /\ DOMAIN rs = 1 .. Len(rs)
    BY DEF Serves
  <1>2. key \in KeyIds /\ key.label = l /\ key.id = n
    BY DEF KeyIds
  <1> HIDE DEF key
  <1>3. v \in Holders /\ v.passphrase = w.passphrase /\ v.keys = w.keys \cup {key}
    BY <1>1, <1>2 DEF Holders
  <1>4. /\ new \in AnyRecipient /\ new.kind = "hybrid" /\ new.label = l /\ new.public = n
        /\ new.salt = n /\ new.sealed.text = d /\ new.sealed.key = Keys!CombineShared(n, n)
    BY <1>1, MadeHybrid
  <1> HIDE DEF new
  <1>5. /\ q \in Seq(AnyRecipient) /\ Len(q) = Len(rs) + 1 /\ q[Len(rs) + 1] = new
        /\ \A i \in 1 .. Len(rs) : q[i] = rs[i]
    BY <1>1, <1>4
  <1> HIDE DEF q, v
  <1>6. \A i \in 1 .. Len(q) : i \in 1 .. Len(rs) \/ i = Len(rs) + 1
    BY <1>1, <1>5
  <1>7. \A i \in 1 .. Len(rs) : rs[i].label # l
    BY <1>1
  <1>8. ASSUME NEW i \in 1 .. Len(q)
        PROVE  q[i].sealed.text = d /\ SealedFor(q[i], v)
    <2>1. CASE i \in 1 .. Len(rs)
      <3>1. q[i] = rs[i] /\ rs[i].sealed.text = d /\ SealedFor(rs[i], w)
        BY <1>5, <2>1 DEF Serves
      <3> QED
        BY <1>3, <3>1 DEF SealedFor
    <2>2. CASE i = Len(rs) + 1
      BY <1>4, <1>5, <2>2 DEF SealedFor
    <2> QED
      BY <1>6, <2>1, <2>2
  <1>9. LabelsDiffer(q)
    <2>1. ASSUME NEW i \in 1 .. Len(q), NEW j \in 1 .. Len(q), q[i].label = q[j].label
          PROVE  i = j
      <3>1. CASE i \in 1 .. Len(rs) /\ j \in 1 .. Len(rs)
        BY <1>5, <2>1, <3>1 DEF Serves, LabelsDiffer
      <3>2. CASE i \in 1 .. Len(rs) /\ j = Len(rs) + 1
        BY <1>4, <1>5, <1>7, <2>1, <3>2
      <3>3. CASE i = Len(rs) + 1 /\ j \in 1 .. Len(rs)
        BY <1>4, <1>5, <1>7, <2>1, <3>3
      <3> QED
        BY <1>6, <3>1, <3>2, <3>3
    <2> QED
      BY <2>1 DEF LabelsDiffer
  <1>10. \E i \in 1 .. Len(q) : q[i].kind = "passphrase"
    <2>1. PICK i \in 1 .. Len(rs) : rs[i].kind = "passphrase"
      BY DEF Serves
    <2>2. i \in 1 .. Len(q) /\ q[i] = rs[i]
      BY <1>1, <1>5
    <2> QED
      BY <2>1, <2>2
  <1>11. ASSUME NEW i \in 1 .. Len(q), q[i].kind = "hybrid"
         PROVE  \E k \in v.keys : IsFor(q[i], k)
    <2>1. CASE i \in 1 .. Len(rs)
      BY <1>3, <1>5, <1>11, <2>1 DEF Serves
    <2>2. CASE i = Len(rs) + 1
      <3>1. IsFor(q[i], key) /\ key \in v.keys
        BY <1>2, <1>3, <1>4, <1>5, <2>2 DEF IsFor
      <3> QED
        BY <3>1
    <2> QED
      BY <1>6, <2>1, <2>2
  <1>12. ASSUME NEW k \in v.keys
         PROVE  \E i \in 1 .. Len(q) : IsFor(q[i], k)
    <2>1. CASE k \in w.keys
      <3>1. PICK i \in 1 .. Len(rs) : IsFor(rs[i], k)
        BY <2>1 DEF Serves
      <3>2. i \in 1 .. Len(q) /\ q[i] = rs[i]
        BY <1>1, <1>5
      <3> QED
        BY <3>1, <3>2
    <2>2. CASE k = key
      <3>1. Len(rs) + 1 \in 1 .. Len(q) /\ IsFor(q[Len(rs) + 1], k)
        BY <1>1, <1>2, <1>4, <1>5, <2>2 DEF IsFor
      <3> QED
        BY <3>1
    <2> QED
      BY <1>3, <2>1, <2>2
  <1>13. Serves(q, d, v)
    BY <1>1, <1>3, <1>5, <1>8, <1>9, <1>10, <1>11, <1>12 DEF Serves
  <1> QED
    BY <1>13 DEF q, v, new, key

\* A sequence without one of its elements.
LEMMA WithoutAt ==
    ASSUME NEW S, NEW s \in Seq(S), NEW i \in 1 .. Len(s), NEW r, r = Keys!RemoveAt(s, i)
    PROVE  /\ r \in Seq(S) /\ Len(r) = Len(s) - 1
           /\ \A j \in 1 .. Len(r) : r[j] = IF j < i THEN s[j] ELSE s[j + 1]
  <1> DEFINE a == SubSeq(s, 1, i - 1)
             b == SubSeq(s, i + 1, Len(s))
  <1>1. Len(s) \in Nat /\ i \in Nat /\ i >= 1 /\ i <= Len(s)
    OBVIOUS
  <1>2. a \in Seq(S) /\ Len(a) = i - 1 /\ \A j \in 1 .. i - 1 : a[j] = s[j]
    BY <1>1
  <1>3. b \in Seq(S) /\ Len(b) = Len(s) - i /\ \A j \in 1 .. Len(s) - i : b[j] = s[i + j]
    BY <1>1
  <1>4. r = a \o b
    BY DEF Keys!RemoveAt
  <1> HIDE DEF a, b
  <1>5. /\ r \in Seq(S) /\ Len(r) = Len(a) + Len(b)
        /\ \A j \in 1 .. Len(a) + Len(b) : r[j] = IF j <= Len(a) THEN a[j] ELSE b[j - Len(a)]
    <2>1. a \in Seq(S) /\ b \in Seq(S)
      BY <1>2, <1>3
    <2> QED
      BY <1>4, <2>1, ConcatProperties
  <1>6. Len(r) = Len(s) - 1
    BY <1>1, <1>2, <1>3, <1>5
  <1>7. ASSUME NEW j \in 1 .. Len(r)
        PROVE  r[j] = IF j < i THEN s[j] ELSE s[j + 1]
    <2>1. CASE j < i
      <3>1. j \in 1 .. i - 1 /\ j <= Len(a) /\ j \in 1 .. Len(a) + Len(b)
        BY <1>1, <1>2, <1>3, <1>5, <2>1
      <3> QED
        BY <1>2, <1>5, <2>1, <3>1
    <2>2. CASE ~(j < i)
      <3>1. /\ j \in 1 .. Len(a) + Len(b) /\ ~(j <= Len(a))
            /\ j - Len(a) \in 1 .. Len(s) - i /\ i + (j - Len(a)) = j + 1
        BY <1>1, <1>2, <1>3, <1>5, <2>2
      <3>2. r[j] = b[j - Len(a)]
        BY <1>5, <3>1
      <3>3. b[j - Len(a)] = s[i + (j - Len(a))]
        BY <1>3, <3>1
      <3> QED
        BY <2>2, <3>1, <3>2, <3>3
    <2> QED
      BY <2>1, <2>2
  <1> QED
    BY <1>5, <1>6, <1>7

\* The first recipient of a label is the only one.
LEMMA FirstOfLabel ==
    ASSUME NEW rs \in Seq(AnyRecipient), LabelsDiffer(rs),
           NEW i \in 1 .. Len(rs)
    PROVE  Keys!Min({j \in 1 .. Len(rs) : rs[j].label = rs[i].label}) = i
  <1> DEFINE I == {j \in 1 .. Len(rs) : rs[j].label = rs[i].label}
  <1>1. I = {i}
    BY DEF LabelsDiffer
  <1>2. i \in I /\ \A y \in I : y = i /\ i =< y
    BY <1>1
  <1> HIDE DEF I
  <1>3. Keys!Min(I) = i
    BY <1>2 DEF Keys!Min
  <1> QED
    BY <1>3 DEF I

\* A list without the recipient of a label.
LEMMA RemovedServes ==
    ASSUME NEW rs, NEW d, NEW w, Serves(rs, d, w), NEW l, l # "passphrase",
           NEW at \in 1 .. Len(rs), rs[at].label = l,
           NEW q, q = Keys!RemoveAt(rs, at),
           NEW v \in Holders, v.passphrase = w.passphrase,
           \A k : k \in v.keys <=> k \in w.keys /\ k.label # l
    PROVE  Serves(q, d, v)
  <1>1. /\ rs \in Seq(AnyRecipient) /\ w \in Holders /\ d \in Nat /\ LabelsDiffer(rs)
        /\ Len(rs) \in Nat
    BY DEF Serves
  <1>2. /\ v \in Holders /\ v.passphrase = w.passphrase
        /\ \A k : k \in v.keys <=> k \in w.keys /\ k.label # l
    OBVIOUS
  <1>3. rs[at].label = l /\ at \in Nat /\ at >= 1
    OBVIOUS
  <1>4. /\ q \in Seq(AnyRecipient) /\ Len(q) = Len(rs) - 1
        /\ \A j \in 1 .. Len(q) : q[j] = IF j < at THEN rs[j] ELSE rs[j + 1]
    BY <1>1, WithoutAt
  <1>5. ASSUME NEW j \in 1 .. Len(q)
        PROVE  \E i \in 1 .. Len(rs) : i # at /\ q[j] = rs[i] /\ i = IF j < at THEN j ELSE j + 1
    <2>1. j \in Nat /\ j >= 1 /\ j <= Len(rs) - 1
      BY <1>1, <1>4
    <2>2. CASE j < at
      <3>1. j \in 1 .. Len(rs) /\ j # at
        BY <1>1, <2>1, <2>2
      <3> QED
        BY <1>4, <2>2, <3>1
    <2>3. CASE ~(j < at)
      <3>1. j + 1 \in 1 .. Len(rs) /\ j + 1 # at
        BY <1>1, <2>1, <2>3
      <3> QED
        BY <1>4, <2>3, <3>1
    <2> QED
      BY <2>2, <2>3
  <1>6. ASSUME NEW i \in 1 .. Len(rs), i # at
        PROVE  \E j \in 1 .. Len(q) : q[j] = rs[i]
    <2>1. CASE i < at
      <3>1. i \in 1 .. Len(q)
        BY <1>1, <1>4, <2>1
      <3> QED
        BY <1>4, <2>1, <3>1
    <2>2. CASE i > at
      <3>1. i - 1 \in 1 .. Len(q) /\ ~(i - 1 < at) /\ i - 1 + 1 = i
        BY <1>1, <1>4, <2>2
      <3>2. q[i - 1] = rs[i]
        BY <1>4, <3>1
      <3> QED
        BY <3>1, <3>2
    <2>3. i \in Nat
      OBVIOUS
    <2> QED
      BY <1>3, <1>6, <2>1, <2>2, <2>3
  <1>7. \A i \in 1 .. Len(rs) : i # at => rs[i].label # l
    BY <1>1, <1>3 DEF LabelsDiffer
  <1>8. ASSUME NEW j \in 1 .. Len(q)
        PROVE  q[j].sealed.text = d /\ SealedFor(q[j], v)
    <2>1. PICK i \in 1 .. Len(rs) : q[j] = rs[i]
      BY <1>5
    <2>2. rs[i].sealed.text = d /\ SealedFor(rs[i], w)
      BY DEF Serves
    <2> QED
      BY <1>2, <2>1, <2>2 DEF SealedFor
  <1>9. LabelsDiffer(q)
    <2>1. ASSUME NEW j \in 1 .. Len(q), NEW k \in 1 .. Len(q), q[j].label = q[k].label
          PROVE  j = k
      <3>1. PICK i \in 1 .. Len(rs) : q[j] = rs[i] /\ i = IF j < at THEN j ELSE j + 1
        BY <1>5
      <3>2. PICK m \in 1 .. Len(rs) : q[k] = rs[m] /\ m = IF k < at THEN k ELSE k + 1
        BY <1>5
      <3>3. i = m
        BY <1>1, <2>1, <3>1, <3>2 DEF LabelsDiffer
      <3>4. j \in Nat /\ k \in Nat /\ at \in Nat
        OBVIOUS
      <3> QED
        BY <3>1, <3>2, <3>3, <3>4
    <2> QED
      BY <2>1 DEF LabelsDiffer
  <1>10. \E j \in 1 .. Len(q) : q[j].kind = "passphrase"
    <2>1. PICK i \in 1 .. Len(rs) : rs[i].kind = "passphrase"
      BY DEF Serves
    <2>2. rs[i] \in AnyRecipient
      BY <1>1
    <2>3. rs[i].label = "passphrase"
      BY <2>1, <2>2, RecipientParts
    <2>4. i # at
      BY <1>3, <2>3
    <2> QED
      BY <1>6, <2>1, <2>4
  <1>11. ASSUME NEW j \in 1 .. Len(q), q[j].kind = "hybrid"
         PROVE  \E k \in v.keys : IsFor(q[j], k)
    <2>1. PICK i \in 1 .. Len(rs) : i # at /\ q[j] = rs[i]
      BY <1>5
    <2>2. PICK k \in w.keys : IsFor(rs[i], k)
      BY <1>11, <2>1 DEF Serves
    <2>3. k.label # l
      BY <1>7, <2>1, <2>2 DEF IsFor
    <2> QED
      BY <1>2, <2>1, <2>2, <2>3
  <1>12. ASSUME NEW k \in v.keys
         PROVE  \E j \in 1 .. Len(q) : IsFor(q[j], k)
    <2>1. k \in w.keys /\ k.label # l
      BY <1>2
    <2>2. PICK i \in 1 .. Len(rs) : IsFor(rs[i], k)
      BY <2>1 DEF Serves
    <2>3. i # at
      BY <1>3, <2>1, <2>2 DEF IsFor
    <2> QED
      BY <1>6, <2>2, <2>3
  <1> QED
    BY <1>1, <1>2, <1>4, <1>8, <1>9, <1>10, <1>11, <1>12 DEF Serves

\* The first file serves the first passphrase.
LEMMA KeysStart == Keys!Init => KeysInv
  <1> SUFFICES ASSUME Keys!Init PROVE KeysInv
    OBVIOUS
  <1>1. PICK p \in Passphrase :
          /\ who = [passphrase |-> p, keys |-> {}]
          /\ disk = Keys!FileOf(1, <<Keys!PassphraseRecipient(p, 1, 1)>>, 1, 1)
          /\ saved = {[file |-> disk, who |-> who]}
          /\ handle = Keys!Closed /\ keyfiles = {} /\ drawn = 1
    BY DEF Keys!Init
  <1>2. PICK r : r = Keys!PassphraseRecipient(p, 1, 1)
    OBVIOUS
  <1>3. /\ r \in AnyRecipient /\ r.kind = "passphrase" /\ r.label = "passphrase"
        /\ r.salt = 1 /\ r.sealed.text = 1 /\ r.sealed.key = Keys!DeriveKek(p, 1)
    BY <1>2, MadePassphrase
  <1>4. /\ who \in Holders /\ who.passphrase = p /\ who.keys = {}
    BY <1>1 DEF Holders
  <1>5. PICK rs : rs = <<r>>
    OBVIOUS
  <1>6. rs \in Seq(AnyRecipient) /\ Len(rs) = 1 /\ rs[1] = r /\ 1 \in 1 .. Len(rs)
    BY <1>3, <1>5
  <1>7. \A i \in 1 .. Len(rs) : i = 1
    BY <1>6
  <1>8. Serves(rs, 1, who)
    <2>1. \A i \in 1 .. Len(rs) : rs[i].sealed.text = 1 /\ SealedFor(rs[i], who)
      BY <1>3, <1>4, <1>6, <1>7 DEF SealedFor
    <2>2. LabelsDiffer(rs)
      BY <1>7 DEF LabelsDiffer
    <2>3. \E i \in 1 .. Len(rs) : rs[i].kind = "passphrase"
      BY <1>3, <1>6
    <2>4. \A i \in 1 .. Len(rs) : rs[i].kind # "hybrid"
      BY <1>3, <1>6, <1>7
    <2> QED
      BY <1>4, <1>6, <2>1, <2>2, <2>3, <2>4 DEF Serves
  <1>9. disk = Keys!FileOf(1, rs, 1, 1)
    BY <1>1, <1>2, <1>5
  <1>10. disk.epoch = 1 /\ disk.recipients = rs /\ disk.payload.key = 1 /\ disk.payload.text = 1
    BY <1>9, FileParts
  <1>11. WrittenFor(disk, who)
    BY <1>8, <1>9, <1>10 DEF WrittenFor
  <1>12. \A s \in saved : s.file = disk /\ s.who = who
    BY <1>1
  <1>13. \E s \in saved : disk.mac = s.file.mac
    BY <1>1, <1>12
  <1> QED
    BY <1>1, <1>11, <1>12, <1>13 DEF KeysInv

\* A recipient is removed.
LEMMA Removing ==
    ASSUME KeysInv, handle \in Handles, NEW l, Keys!RemoveRecipient(l) PROVE KeysInv'
  <1> PICK rs : rs = handle.recipients
    OBVIOUS
  <1> PICK d : d = handle.dek
    OBVIOUS
  <1>0. Serves(rs, d, who)
    <2>1. handle.open
      BY DEF Handles
    <2>2. handle # Keys!Closed
      BY <2>1 DEF Keys!Closed
    <2> QED
      BY <2>2 DEF KeysInv
  <1>1. /\ rs \in Seq(AnyRecipient) /\ LabelsDiffer(rs)
        /\ Len(rs) \in Nat /\ DOMAIN rs = 1 .. Len(rs)
    BY <1>0 DEF Serves
  <1>2. /\ l # "passphrase" /\ drawn' = drawn + 1 /\ keyfiles' = keyfiles
        /\ l \in {rs[i].label : i \in DOMAIN rs}
    BY DEF Keys!RemoveRecipient, Keys!Draw, Keys!Labels
  <1>3. PICK at \in 1 .. Len(rs) : rs[at].label = l
    BY <1>1, <1>2
  <1>4. Keys!Min({j \in 1 .. Len(rs) : rs[j].label = l}) = at
    BY <1>1, <1>3, FirstOfLabel
  <1>5. {j \in 1 .. Len(rs) : rs[j].label = l} # {}
    BY <1>3
  <1>6. Keys!RemoveFirstMatch(rs, LAMBDA r : r.label = l)
          = Keys!RemoveAt(rs, Keys!Min({j \in 1 .. Len(rs) : rs[j].label = l}))
    BY <1>3, <1>5 DEF Keys!RemoveFirstMatch, Keys!SelectInSeq
  <1>7. Keys!Save(Keys!RemoveFirstMatch(rs, LAMBDA r : r.label = l), handle.dek, handle.records,
                  [who EXCEPT !.keys = {k \in @ : k.label # l}], 0)
    BY DEF Keys!RemoveRecipient
  <1> PICK q : q = Keys!RemoveAt(rs, at)
    OBVIOUS
  <1> PICK v : v = [who EXCEPT !.keys = {k \in @ : k.label # l}]
    OBVIOUS
  <1>8. Keys!Save(q, d, handle.records, v, 0)
    BY <1>4, <1>6, <1>7
  <1>9. Serves(q, d, v)
    <2>1. PICK w \in Holders : w = who
      BY <1>0 DEF Serves
    <2>2. v = [w EXCEPT !.keys = {k \in w.keys : k.label # l}]
      BY <2>1
    <2>3. /\ v \in Holders /\ v.passphrase = w.passphrase
          /\ \A k : k \in v.keys <=> k \in w.keys /\ k.label # l
      BY <2>2 DEF Holders
    <2>4. Serves(rs, d, w) /\ l # "passphrase"
      BY <1>0, <1>2, <2>1
    <2> QED
      <3>1. Serves(rs, d, w) /\ l # "passphrase"
        BY <2>4
      <3>2. at \in 1 .. Len(rs)
        BY <1>3
      <3>3. rs[at].label = l
        BY <1>3
      <3>4. q = Keys!RemoveAt(rs, at)
        OBVIOUS
      <3>5. v \in Holders
        BY <2>3
      <3>6. v.passphrase = w.passphrase
        BY <2>3
      <3>7. \A k : k \in v.keys <=> k \in w.keys /\ k.label # l
        BY <2>3
      <3> QED
        BY ONLY <3>1, <3>2, <3>3, <3>4, <3>5, <3>6, <3>7, RemovedServes
  <1>10. handle.records \in Nat /\ drawn' \in Nat
    BY <1>2 DEF Handles, KeysInv
  <1> QED
    BY <1>2, <1>8, <1>9, <1>10, Saving

\* Every step keeps it.
LEMMA KeysStep == KeysInv /\ [Keys!Next]_keyVars => KeysInv'
  <1> SUFFICES ASSUME KeysInv, [Keys!Next]_keyVars PROVE KeysInv'
    OBVIOUS
  <1>0. /\ handle.open => handle \in Handles /\ Serves(handle.recipients, handle.dek, who)
        /\ drawn \in Nat
    BY DEF KeysInv, Keys!Closed
  <1>1. ASSUME Keys!OpenAny PROVE KeysInv'
    <2>1. ASSUME NEW p, Keys!Open(Keys!Unlock(disk, p)) PROVE KeysInv'
      <3>1. Keys!Unlock(disk, p).open
        BY <2>1 DEF Keys!Open
      <3>2. PICK d : Keys!Unlock(disk, p) = Keys!FinishUnlock(disk, d, "passphrase")
        BY <3>1, WaysIn
      <3>3. Keys!Open(Keys!FinishUnlock(disk, d, "passphrase"))
        BY <2>1, <3>2
      <3>4. "passphrase" \in Methods
        BY DEF Methods
      <3> QED
        BY <3>3, <3>4, Opening
    <2>2. ASSUME NEW k, Keys!Open(Keys!UnlockWithRecovery(disk, k)) PROVE KeysInv'
      <3>1. Keys!UnlockWithRecovery(disk, k).open
        BY <2>2 DEF Keys!Open
      <3>2. PICK d : Keys!UnlockWithRecovery(disk, k) = Keys!FinishUnlock(disk, d, "recovery")
        BY <3>1, WaysIn
      <3>3. Keys!Open(Keys!FinishUnlock(disk, d, "recovery"))
        BY <2>2, <3>2
      <3>4. "recovery" \in Methods
        BY DEF Methods
      <3> QED
        BY <3>3, <3>4, Opening
    <2> QED
      BY <1>1, <2>1, <2>2 DEF Keys!OpenAny
  <1>2. ASSUME Keys!Write PROVE KeysInv'
    <2>1. /\ handle.open /\ drawn' = drawn + 1 /\ keyfiles' = keyfiles
          /\ Keys!Save(handle.recipients, handle.dek, drawn', who, 0)
      BY <1>2 DEF Keys!Write, Keys!Working, Keys!Draw
    <2>2. drawn' \in Nat
      BY <1>0, <2>1
    <2> QED
      BY <1>0, <2>1, <2>2, Saving
  <1>3. ASSUME NEW p \in Passphrase, Keys!Rekey(p) PROVE KeysInv'
    <2> DEFINE q == [i \in DOMAIN handle.recipients |-> Keys!Rewrapped(handle.recipients[i], p, drawn')]
               v == [who EXCEPT !.passphrase = p]
    <2>1. /\ handle.open /\ drawn' = drawn + 1 /\ keyfiles' = keyfiles
          /\ Keys!Save(q, drawn', handle.records, v, 0)
      BY <1>3 DEF Keys!Rekey, Keys!Draw
    <2>2. drawn' \in Nat /\ handle.records \in Nat
      BY <1>0, <2>1 DEF Handles
    <2>3. PICK n \in Nat : n = drawn'
      BY <2>2
    <2>4. Serves([i \in DOMAIN handle.recipients |-> Keys!Rewrapped(handle.recipients[i], p, n)], n, v)
      BY <1>0, <2>1, RewrappedServes
    <2>5. Serves(q, drawn', v)
      BY <2>3, <2>4
    <2> HIDE DEF q, v
    <2> QED
      BY <1>0, <2>1, <2>2, <2>5, Saving
  <1>4. ASSUME NEW l \in Label, Keys!AddRecovery(l) PROVE KeysInv'
    <2>1. drawn' = drawn + 1 /\ handle.open /\ keyfiles' = keyfiles
      BY <1>4 DEF Keys!AddRecovery, Keys!Working, Keys!Draw
    <2>2. PICK n \in Nat : n = drawn'
      BY <1>0, <2>1
    <2> DEFINE q == Append(handle.recipients, Keys!WrapHybrid(l, n, n, handle.dek))
               v == [who EXCEPT !.keys = @ \cup {[label |-> l, id |-> n]}]
    <2>3. Keys!Save(q, handle.dek, handle.records, v, n)
      BY <1>4, <2>2 DEF Keys!AddRecovery
    <2>4. l \notin {handle.recipients[i].label : i \in DOMAIN handle.recipients}
      BY <1>4 DEF Keys!AddRecovery, Keys!Labels
    <2>5. Serves(q, handle.dek, v)
      BY <1>0, <2>1, <2>4, AddedServes
    <2>6. handle.records \in Nat
      BY <1>0, <2>1 DEF Handles
    <2> HIDE DEF q, v
    <2> QED
      BY <1>0, <2>1, <2>2, <2>3, <2>5, <2>6, Saving
  <1>5. ASSUME NEW l \in Label, Keys!RemoveRecipient(l) PROVE KeysInv'
    <2>1. handle.open
      BY <1>5 DEF Keys!RemoveRecipient, Keys!Working
    <2> QED
      BY <1>0, <1>5, <2>1, Removing
  <1>6. ASSUME NEW b \in BOOLEAN, Keys!KeyFile(b) PROVE KeysInv'
    <2>1. /\ handle.open /\ handle' = Keys!Closed /\ disk' = disk /\ drawn' = drawn /\ saved' = saved
          /\ keyfiles' = keyfiles \/ keyfiles' = keyfiles \cup {k \in who.keys : k.id = handle.owed}
      BY <1>6 DEF Keys!KeyFile
    <2>2. who.keys \subseteq KeyIds
      BY <1>0, <2>1 DEF Serves, Holders
    <2>3. keyfiles' \subseteq KeyIds
      BY <2>1, <2>2 DEF KeysInv
    <2> QED
      BY <2>1, <2>3 DEF KeysInv
  <1>7. ASSUME Keys!Close PROVE KeysInv'
    BY <1>7 DEF Keys!Close, KeysInv
  <1>8. ASSUME NEW s \in saved, NEW t \in saved, NEW file \in Keys!Mixed(s.file, t.file),
               Keys!Replace(file)
        PROVE  KeysInv'
    <2>1. /\ handle = Keys!Closed /\ handle' = handle /\ disk' = file
          /\ keyfiles' = keyfiles /\ drawn' = drawn /\ saved' = saved
      BY <1>0, <1>8 DEF Keys!Replace, KeysInv, Handles
    <2>2. file.mac = s.file.mac
      <3>1. s.file = Keys!FileOf(s.file.epoch, s.file.recipients, s.file.payload.key, s.file.payload.text)
        BY DEF KeysInv, WrittenFor
      <3>2. PICK e, rs, y, m : s.file = [epoch |-> e, recipients |-> rs, payload |-> y, mac |-> m]
        BY <3>1 DEF Keys!FileOf
      <3>3. \/ file = s.file \/ file = [s.file EXCEPT !.payload = t.file.payload]
            \/ file = [s.file EXCEPT !.recipients = t.file.recipients]
            \/ file = [s.file EXCEPT !.epoch = t.file.epoch]
        BY <1>8 DEF Keys!Mixed
      <3> QED
        BY <3>2, <3>3
    <2> QED
      BY <2>1, <2>2 DEF KeysInv
  <1>9. ASSUME UNCHANGED keyVars PROVE KeysInv'
    BY <1>9 DEF keyVars, KeysInv
  <1> QED
    BY <1>1, <1>2, <1>3, <1>4, <1>5, <1>6, <1>7, <1>8, <1>9 DEF Keys!Next

\* Which of the recipients of a served list open, and that a file opens by them.
LEMMA FileOpens ==
    ASSUME NEW f, NEW w, WrittenFor(f, w), NEW m,
           NEW at, at \subseteq 1 .. Len(f.recipients)
    PROVE  /\ at = {} => Keys!UnlockAt(f, at, m).open = FALSE
           /\ \A i : at = {i} => Keys!UnlockAt(f, at, m).open = TRUE
  <1> PICK rs : rs = f.recipients
    OBVIOUS
  <1> PICK d : d = f.payload.key
    OBVIOUS
  <1>1. at = {} => Keys!UnlockAt(f, at, m).open = FALSE
    BY DEF Keys!UnlockAt, Keys!Refused, Keys!Closed
  <1>2. ASSUME NEW i, at = {i} PROVE Keys!UnlockAt(f, at, m).open = TRUE
    <2>1. i \in 1 .. Len(rs) /\ \A y \in at : y = i /\ i =< y
      BY <1>2
    <2>2. Keys!Min(at) = i
      BY <1>2, <2>1 DEF Keys!Min
    <2>3. rs[i].sealed.text = d
      BY <2>1 DEF WrittenFor, Serves
    <2>4. Keys!UnlockAt(f, at, m) = Keys!FinishUnlock(f, d, m)
      BY <1>2, <2>2, <2>3 DEF Keys!UnlockAt
    <2>5. f.mac = <<d, <<f.epoch, f.recipients, f.payload>>>> /\ f.payload.key = d
      BY FileParts DEF WrittenFor
    <2> QED
      BY <2>4, <2>5 DEF Keys!FinishUnlock, Keys!MacInput, Keys!Opens
  <1> QED
    BY <1>1, <1>2

\* The passphrase of the holders opens a file and no other does.
LEMMA PassphraseOpens ==
    ASSUME NEW f, NEW w, WrittenFor(f, w), NEW p
    PROVE  Keys!Unlock(f, p).open <=> p = w.passphrase
  <1> PICK rs : rs = f.recipients
    OBVIOUS
  <1> DEFINE at == {i \in DOMAIN rs : rs[i].kind = "passphrase"
                                      /\ rs[i].sealed.key = Keys!DeriveKek(p, rs[i].salt)}
  <1>1. /\ rs \in Seq(AnyRecipient) /\ Len(rs) \in Nat /\ DOMAIN rs = 1 .. Len(rs)
        /\ LabelsDiffer(rs)
        /\ \A i \in 1 .. Len(rs) : SealedFor(rs[i], w)
        /\ \E i \in 1 .. Len(rs) : rs[i].kind = "passphrase"
    BY DEF WrittenFor, Serves
  <1>2. Keys!Unlock(f, p) = Keys!UnlockAt(f, at, "passphrase")
    BY DEF Keys!Unlock, Keys!Opens
  <1>3. at \subseteq 1 .. Len(f.recipients)
    BY <1>1
  <1>4. \A i \in 1 .. Len(rs) : rs[i].kind = "passphrase" =>
            rs[i].sealed.key = <<"kek", w.passphrase, rs[i].salt>>
    BY <1>1 DEF SealedFor, Keys!DeriveKek
  <1>5. ASSUME p # w.passphrase PROVE at = {}
    BY <1>1, <1>4, <1>5 DEF Keys!DeriveKek
  <1>6. ASSUME p = w.passphrase PROVE \E i : at = {i}
    <2>1. PICK i \in 1 .. Len(rs) : rs[i].kind = "passphrase"
      BY <1>1
    <2>2. i \in at
      BY <1>1, <1>4, <1>6, <2>1 DEF Keys!DeriveKek
    <2>3. ASSUME NEW j \in at PROVE j = i
      <3>1. j \in 1 .. Len(rs) /\ rs[j].kind = "passphrase"
        BY <1>1
      <3>2. rs[i] \in AnyRecipient /\ rs[j] \in AnyRecipient
        BY <1>1, <3>1
      <3>3. rs[i].label = "passphrase" /\ rs[j].label = "passphrase"
        BY <2>1, <3>1, <3>2, RecipientParts
      <3> QED
        BY <1>1, <3>1, <3>3 DEF LabelsDiffer
    <2> QED
      BY <2>2, <2>3
  <1> HIDE DEF at
  <1>7. ASSUME p = w.passphrase PROVE Keys!Unlock(f, p).open
    <2>1. PICK i : at = {i}
      BY <1>6, <1>7
    <2>2. Keys!UnlockAt(f, at, "passphrase").open = TRUE
      BY <1>3, <2>1, FileOpens
    <2> QED
      BY <1>2, <2>2
  <1>8. ASSUME p # w.passphrase PROVE ~Keys!Unlock(f, p).open
    <2>1. at = {}
      BY <1>5, <1>8
    <2>2. Keys!UnlockAt(f, at, "passphrase").open = FALSE
      BY <1>3, <2>1, FileOpens
    <2> QED
      BY <1>2, <2>2
  <1> QED
    BY <1>7, <1>8

\* A recovery key of the holders opens a file and no other does.
LEMMA KeyOpens ==
    ASSUME NEW f, NEW w, WrittenFor(f, w), NEW k \in KeyIds
    PROVE  Keys!UnlockWithRecovery(f, k).open <=> k \in w.keys
  <1> PICK rs : rs = f.recipients
    OBVIOUS
  <1> DEFINE at == {i \in DOMAIN rs : /\ rs[i].kind = "hybrid" /\ rs[i].label = k.label
                                      /\ rs[i].sealed.key = Keys!CombineShared(k.id, rs[i].salt)}
  <1>1. /\ rs \in Seq(AnyRecipient) /\ Len(rs) \in Nat /\ DOMAIN rs = 1 .. Len(rs)
        /\ LabelsDiffer(rs)
        /\ \A i \in 1 .. Len(rs) : SealedFor(rs[i], w)
        /\ \A i \in 1 .. Len(rs) : rs[i].kind = "hybrid" => \E x \in w.keys : IsFor(rs[i], x)
        /\ \A x \in w.keys : \E i \in 1 .. Len(rs) : IsFor(rs[i], x)
        /\ w.keys \subseteq KeyIds
    BY DEF WrittenFor, Serves, Holders
  <1>2. Keys!UnlockWithRecovery(f, k) = Keys!UnlockAt(f, at, "recovery")
    BY DEF Keys!UnlockWithRecovery, Keys!Opens
  <1>3. at \subseteq 1 .. Len(f.recipients)
    BY <1>1
  <1>4. \A i \in 1 .. Len(rs) : rs[i].kind = "hybrid" =>
            rs[i].sealed.key = <<"hybrid", rs[i].public, rs[i].salt>>
    BY <1>1 DEF SealedFor, Keys!CombineShared
  <1>5. \A i \in at : i \in 1 .. Len(rs) /\ IsFor(rs[i], k)
    BY <1>1, <1>4 DEF IsFor, Keys!CombineShared
  <1>6. ASSUME NEW i \in at PROVE k \in w.keys
    <2>1. PICK x \in w.keys : IsFor(rs[i], x)
      BY <1>1, <1>5
    <2>2. x.label = k.label /\ x.id = k.id
      BY <1>5, <2>1 DEF IsFor
    <2>3. x = k
      BY <1>1, <2>2 DEF KeyIds
    <2> QED
      BY <2>3
  <1>7. ASSUME k \in w.keys PROVE \E i : at = {i}
    <2>1. PICK i \in 1 .. Len(rs) : IsFor(rs[i], k)
      BY <1>1, <1>7
    <2>2. i \in at
      BY <1>1, <1>4, <2>1 DEF IsFor, Keys!CombineShared
    <2>3. \A j \in at : j = i
      BY <1>1, <1>5, <2>1 DEF IsFor, LabelsDiffer
    <2> QED
      BY <2>2, <2>3, ZenonT(60)
  <1> HIDE DEF at
  <1>8. ASSUME k \in w.keys PROVE Keys!UnlockWithRecovery(f, k).open
    <2>1. PICK i : at = {i}
      BY <1>7, <1>8
    <2>2. Keys!UnlockAt(f, at, "recovery").open = TRUE
      BY <1>3, <2>1, FileOpens
    <2> QED
      BY <1>2, <2>2
  <1>9. ASSUME k \notin w.keys PROVE ~Keys!UnlockWithRecovery(f, k).open
    <2>1. at = {}
      BY <1>6, <1>9
    <2>2. Keys!UnlockAt(f, at, "recovery").open = FALSE
      BY <1>3, <2>1, FileOpens
    <2> QED
      BY <1>2, <2>2
  <1> QED
    BY <1>8, <1>9

\* The holders open what was saved for them.
LEMMA Held == KeysInv => HoldersOpen
  <1> SUFFICES ASSUME KeysInv, NEW s \in saved
               PROVE  /\ {p \in Passphrase : Keys!Unlock(s.file, p).open} = {s.who.passphrase}
                      /\ {k \in keyfiles : Keys!UnlockWithRecovery(s.file, k).open}
                           = keyfiles \cap s.who.keys
    BY DEF HoldersOpen, Keys!HoldersOpen
  <1>1. WrittenFor(s.file, s.who) /\ keyfiles \subseteq KeyIds
    BY DEF KeysInv
  <1>2. s.who.passphrase \in Passphrase
    BY <1>1 DEF WrittenFor, Serves, Holders
  <1>3. \A p \in Passphrase : Keys!Unlock(s.file, p).open <=> p = s.who.passphrase
    BY <1>1, PassphraseOpens
  <1>4. \A k \in keyfiles : Keys!UnlockWithRecovery(s.file, k).open <=> k \in s.who.keys
    BY <1>1, KeyOpens
  <1> QED
    BY <1>2, <1>3, <1>4

\* What opens was saved.
LEMMA Saved == KeysInv => OpenedWasSaved
  <1> SUFFICES ASSUME KeysInv,
                      NEW h \in {Keys!Unlock(disk, p) : p \in Passphrase}
                                \cup {Keys!UnlockWithRecovery(disk, k) : k \in keyfiles},
                      h.open
               PROVE  \E s \in saved : /\ s.file.epoch = h.epoch /\ s.file.recipients = h.recipients
                                       /\ s.file.payload = Keys!Seal(h.dek, h.records)
    BY DEF OpenedWasSaved, Keys!OpenedWasSaved
  <1>1. \E d, m : m \in Methods /\ h = Keys!FinishUnlock(disk, d, m)
    <2>1. "passphrase" \in Methods /\ "recovery" \in Methods
      BY DEF Methods
    <2>2. ASSUME NEW p, h = Keys!Unlock(disk, p)
          PROVE  \E d : h = Keys!FinishUnlock(disk, d, "passphrase")
      BY <2>2, WaysIn
    <2>3. ASSUME NEW k, h = Keys!UnlockWithRecovery(disk, k)
          PROVE  \E d : h = Keys!FinishUnlock(disk, d, "recovery")
      BY <2>3, WaysIn
    <2> QED
      BY <2>1, <2>2, <2>3
  <1> QED
    BY <1>1, Unlocked

\* The recipients' invariant holds of the library.
LEMMA KeysHold == LibrarySpec => []KeysInv
  <1>1. LibraryInit => KeysInv
    BY KeysStart DEF LibraryInit
  <1>2. KeysInv /\ [LibraryNext]_libraryVars => KeysInv'
    BY KeysStep DEF LibraryNext, libraryVars
  <1> QED
    BY <1>1, <1>2, PTL DEF LibrarySpec

\* Of every file a save wrote, the passphrase and the recovery keys that were to open
\* it do, and nothing else does, whatever was re-keyed, added, removed or put back
\* (vault.rs: unlock, unlock_with_recovery, rekey, add_recovery_recipient,
\* remove_recipient).
THEOREM HoldersOpenTheirs == LibrarySpec => []HoldersOpen
  BY KeysHold, Held, PTL

\* No mix of the header of one version with parts of another opens: what a command
\* works from was saved, whole (vault.rs: finish_unlock).
THEOREM OnlySavedOpens == LibrarySpec => []OpenedWasSaved
  BY KeysHold, Saved, PTL

----------------------------------------------------------------------------
\* Sums over sets, as MapThenFoldSet takes them: an element is chosen, and its number
\* added to the sum of the others.

Pick(s) == CHOOSE x \in s : TRUE
SumAt(g, w, s) == IF s = {} THEN 0 ELSE w[Pick(s)] + g[s \ {Pick(s)}]
IsSum(g, w, S) == g = [s \in SUBSET S |-> SumAt(g, w, s)]

\* What is chosen from a set leaves a smaller one.
LEMMA Smaller ==
    ASSUME NEW S, IsFiniteSet(S), NEW s \in SUBSET S, s # {}
    PROVE  /\ Pick(s) \in s /\ s \ {Pick(s)} \in SUBSET S
           /\ Cardinality(s) \in Nat /\ Cardinality(s) >= 1
           /\ Cardinality(s \ {Pick(s)}) = Cardinality(s) - 1
  <1>1. Pick(s) \in s
    BY DEF Pick
  <1>2. IsFiniteSet(s)
    BY FS_Subset
  <1>3. Cardinality(s) \in Nat /\ Cardinality(s) # 0
    BY <1>2, FS_CardinalityType, FS_EmptySet
  <1>4. Cardinality(s \ {Pick(s)}) = Cardinality(s) - 1
    BY <1>1, <1>2, FS_RemoveElement
  <1> QED
    BY <1>1, <1>3, <1>4

\* There is such a sum: a function that is right of sets up to a size can be made
\* right of the next.
LEMMA SumExists ==
    ASSUME NEW S, IsFiniteSet(S), NEW w
    PROVE  \E g : IsSum(g, w, S)
  <1> DEFINE UpTo(g, n) == \A s \in SUBSET S : Cardinality(s) <= n => g[s] = SumAt(g, w, s)
             Bad == {n \in Nat : ~\E g : UpTo(g, n)}
  <1>0. \A s \in SUBSET S : IsFiniteSet(s) /\ Cardinality(s) \in Nat /\ Cardinality(s) <= Cardinality(S)
    BY FS_Subset, FS_CardinalityType
  <1>1. Bad = {}
    <2>1. SUFFICES ASSUME Bad # {} PROVE FALSE
      OBVIOUS
    <2>2. PICK n \in Bad : \A m \in Bad : n <= m
      <3>1. Bad \in SUBSET Nat
        OBVIOUS
      <3> HIDE DEF Bad
      <3> QED
        BY <2>1, <3>1, Least
    <2>3. n \in Nat /\ ~\E g : UpTo(g, n)
      OBVIOUS
    <2>4. CASE n = 0
      <3> DEFINE h == [s \in SUBSET S |-> 0]
      <3>1. ASSUME NEW s \in SUBSET S, Cardinality(s) <= n PROVE h[s] = SumAt(h, w, s)
        <4>1. s = {}
          BY <1>0, <2>4, <3>1, FS_EmptySet
        <4> QED
          BY <4>1 DEF SumAt
      <3>2. UpTo(h, n)
        BY <3>1
      <3> QED
        BY <2>3, <3>2
    <2>5. CASE n # 0
      <3>1. n - 1 \in Nat /\ ~(n <= n - 1)
        BY <2>3, <2>5
      <3>2. n - 1 \notin Bad
        BY <2>2, <3>1
      <3>3. PICK g : UpTo(g, n - 1)
        BY <3>1, <3>2
      <3> DEFINE h == [s \in SUBSET S |-> IF Cardinality(s) <= n - 1 THEN g[s] ELSE SumAt(g, w, s)]
      <3>4. ASSUME NEW s \in SUBSET S, Cardinality(s) <= n PROVE h[s] = SumAt(h, w, s)
        <4>1. h[s] = SumAt(g, w, s)
          BY <3>3
        <4>2. CASE s = {}
          BY <4>1, <4>2 DEF SumAt
        <4>3. CASE s # {}
          <5>1. /\ s \ {Pick(s)} \in SUBSET S
                /\ Cardinality(s \ {Pick(s)}) = Cardinality(s) - 1
            BY <4>3, Smaller
          <5>2. Cardinality(s \ {Pick(s)}) <= n - 1
            BY <1>0, <2>3, <3>4, <5>1
          <5>3. h[s \ {Pick(s)}] = g[s \ {Pick(s)}]
            BY <5>1, <5>2
          <5> QED
            BY <4>1, <4>3, <5>3 DEF SumAt
        <4> QED
          BY <4>2, <4>3
      <3>5. UpTo(h, n)
        BY <3>4
      <3> QED
        BY <2>3, <3>5
    <2> QED
      BY <2>4, <2>5
  <1>2. Cardinality(S) \in Nat
    BY FS_CardinalityType
  <1>3. PICK g : UpTo(g, Cardinality(S))
    BY <1>1, <1>2
  <1> DEFINE h == [s \in SUBSET S |-> g[s]]
  <1>4. ASSUME NEW s \in SUBSET S PROVE g[s] = SumAt(h, w, s)
    <2>1. g[s] = SumAt(g, w, s)
      BY <1>0, <1>3
    <2>2. CASE s = {}
      BY <2>1, <2>2 DEF SumAt
    <2>3. CASE s # {}
      <3>1. s \ {Pick(s)} \in SUBSET S
        OBVIOUS
      <3>2. h[s \ {Pick(s)}] = g[s \ {Pick(s)}]
        BY <3>1
      <3> QED
        BY <2>1, <2>3, <3>2 DEF SumAt
    <2> QED
      BY <2>2, <2>3
  <1>5. IsSum(h, w, S)
    BY <1>4 DEF IsSum
  <1> QED
    BY <1>5

\* A sum of numbers is a number no smaller than any of them.
LEMMA SumCovers ==
    ASSUME NEW S, IsFiniteSet(S), NEW w \in [S -> Nat], NEW g, IsSum(g, w, S)
    PROVE  \A s \in SUBSET S : g[s] \in Nat /\ \A k \in s : g[s] >= w[k]
  <1> DEFINE Right(s) == g[s] \in Nat /\ \A k \in s : g[s] >= w[k]
             Bad == {n \in Nat : \E s \in SUBSET S : Cardinality(s) = n /\ ~Right(s)}
  <1>0. \A s \in SUBSET S : IsFiniteSet(s) /\ Cardinality(s) \in Nat
    BY FS_Subset, FS_CardinalityType
  <1>1. \A s \in SUBSET S : g[s] = SumAt(g, w, s)
    BY DEF IsSum
  <1>2. Bad = {}
    <2>1. SUFFICES ASSUME Bad # {} PROVE FALSE
      OBVIOUS
    <2>2. PICK n \in Bad : \A m \in Bad : n <= m
      <3>1. Bad \in SUBSET Nat
        OBVIOUS
      <3> HIDE DEF Bad
      <3> QED
        BY <2>1, <3>1, Least
    <2>3. PICK s \in SUBSET S : Cardinality(s) = n /\ ~Right(s)
      OBVIOUS
    <2>4. CASE s = {}
      <3>1. g[s] = 0 /\ \A k : k \notin s
        BY <1>1, <2>4 DEF SumAt
      <3> QED
        BY <2>3, <3>1
    <2>5. CASE s # {}
      <3> PICK x : x = Pick(s)
        OBVIOUS
      <3> PICK t : t = s \ {x}
        OBVIOUS
      <3>1. x \in s /\ t \in SUBSET S /\ Cardinality(t) = n - 1 /\ n \in Nat /\ n >= 1
        BY <2>3, <2>5, Smaller
      <3>2. Right(t)
        <4>1. n - 1 \in Nat /\ ~(n <= n - 1)
          BY <3>1
        <4>2. n - 1 \notin Bad
          BY <2>2, <4>1
        <4> QED
          BY <3>1, <4>1, <4>2
      <3>3. g[s] = w[x] + g[t]
        BY <1>1, <2>5 DEF SumAt
      <3>4. w[x] \in Nat /\ \A k \in s : w[k] \in Nat
        BY <3>1
      <3>5. g[s] \in Nat /\ g[s] >= w[x] /\ g[s] >= g[t]
        BY <3>2, <3>3, <3>4
      <3>6. \A k \in s : k = x \/ k \in t
        OBVIOUS
      <3>7. \A k \in s : g[s] >= w[k]
        BY <3>2, <3>4, <3>5, <3>6
      <3> QED
        BY <2>3, <3>5, <3>7
    <2> QED
      BY <2>4, <2>5
  <1>3. ASSUME NEW s \in SUBSET S PROVE Right(s)
    BY <1>0, <1>2
  <1> QED
    BY <1>3

----------------------------------------------------------------------------
\* The hygiene report.

HygRecords == [kind : STRING, title : STRING, name : STRING, value : FieldValue, old : BOOLEAN]

\* A verdict is kept of a checked field; what was judged in a bucket has one; and a
\* verdict is wrong only of what was replaced behind it.
HygInv ==
    /\ records \in [Id -> HygRecords \cup {Hyg!Absent}]
    /\ exposure \subseteq Hyg!Checked
    /\ judged \subseteq exposure
    /\ \A i \in exposure \ behind : records[i].value \in Corpus

\* A record is there or it is not.
LEMMA AbsentIsNone == Hyg!Absent \notin HygRecords
  BY DEF Hyg!Absent, HygRecords

\* What is checked.
LEMMA CheckedAre ==
    ASSUME HygInv
    PROVE  /\ \A i \in Id : i \in Hyg!Here <=> records[i] \in HygRecords
           /\ \A i : i \in Hyg!Checked <=>
                i \in Id /\ records[i] \in HygRecords /\ records[i].name \in Hyg!CheckedFields
           /\ Hyg!Here \subseteq Id
  BY AbsentIsNone DEF HygInv, Hyg!Here, Hyg!Checked

\* One record changes, and no verdict but its own is touched.
LEMMA OneRecord ==
    ASSUME HygInv, NEW i \in Id, NEW r \in HygRecords \cup {Hyg!Absent},
           records' = [records EXCEPT ![i] = r],
           \/ i \notin exposure'
           \/ /\ r \in HygRecords /\ r.name = records[i].name
              /\ r.value = records[i].value \/ i \in behind',
           exposure' \subseteq exposure,
           judged' \subseteq judged, judged' \subseteq exposure',
           \A j \in behind : j \in behind' \/ j \notin exposure'
    PROVE  HygInv'
  <1>1. records' \in [Id -> HygRecords \cup {Hyg!Absent}]
    BY DEF HygInv
  <1>2. records'[i] = r /\ \A j \in Id : j # i => records'[j] = records[j]
    BY DEF HygInv
  <1>3. \A j : j \in Hyg!Checked' <=>
          j \in Id /\ records'[j] \in HygRecords /\ records'[j].name \in Hyg!CheckedFields
    BY <1>1, AbsentIsNone DEF Hyg!Here, Hyg!Checked
  <1>4. ASSUME NEW j \in exposure'
        PROVE  j \in Hyg!Checked' /\ (j \notin behind' => records'[j].value \in Corpus)
    <2>1. j \in exposure /\ j \in Hyg!Checked
      BY DEF HygInv
    <2>2. j \in Id /\ records[j] \in HygRecords /\ records[j].name \in Hyg!CheckedFields
      BY <2>1, CheckedAre
    <2>3. CASE j # i
      <3>1. records'[j] = records[j]
        BY <1>2, <2>2, <2>3
      <3>2. j \in Hyg!Checked'
        BY <1>3, <2>2, <3>1
      <3>3. j \notin behind' => records[j].value \in Corpus
        BY <2>1 DEF HygInv
      <3> QED
        BY <3>1, <3>2, <3>3
    <2>4. CASE j = i
      <3>1. /\ r \in HygRecords /\ r.name = records[i].name
            /\ r.value = records[i].value \/ i \in behind'
        BY <2>4
      <3>2. j \in Hyg!Checked'
        BY <1>2, <1>3, <2>2, <2>4, <3>1
      <3>3. j \notin behind' => r.value \in Corpus
        <4>1. SUFFICES ASSUME j \notin behind' PROVE r.value \in Corpus
          OBVIOUS
        <4>2. r.value = records[i].value /\ i \notin behind'
          BY <2>4, <3>1, <4>1
        <4>3. i \notin behind
          BY <2>4, <4>2
        <4> QED
          BY <2>1, <2>4, <4>2, <4>3 DEF HygInv
      <3> QED
        BY <1>2, <2>4, <3>2, <3>3
    <2> QED
      BY <2>3, <2>4
  <1> QED
    BY <1>1, <1>4 DEF HygInv

\* Every step keeps it.
LEMMA HygStep == HygInv /\ [Hyg!Next]_hygVars => HygInv'
  <1> SUFFICES ASSUME HygInv, [Hyg!Next]_hygVars PROVE HygInv'
    OBVIOUS
  <1>0. /\ exposure \subseteq Hyg!Checked /\ judged \subseteq exposure
        /\ \A i \in Id : records[i] \in HygRecords \cup {Hyg!Absent}
        /\ \A i \in Hyg!Here : i \in Id /\ records[i] \in HygRecords
    BY CheckedAre DEF HygInv
  <1>1. ASSUME NEW i \in Id, NEW d \in Draft, Hyg!Add(i, d) PROVE HygInv'
    <2>1. d \in HygRecords
      BY HygieneAssumption DEF HygRecords
    <2>2. i \notin exposure
      BY <1>0, <1>1 DEF Hyg!Add, Hyg!Checked
    <2>3. /\ records' = [records EXCEPT ![i] = d]
          /\ exposure' = exposure /\ judged' = judged /\ behind' = behind
      BY <1>1 DEF Hyg!Add
    <2> QED
      BY <1>0, <2>1, <2>2, <2>3, OneRecord
  <1>2. ASSUME NEW i \in Id, NEW v \in FieldValue, Hyg!Update(i, v) PROVE HygInv'
    <2>1. i \in Hyg!Here /\ records[i] \in HygRecords
      BY <1>0, <1>2 DEF Hyg!Update, Hyg!SetField
    <2> DEFINE r == [records[i] EXCEPT !.value = v, !.old = FALSE]
    <2>2. r \in HygRecords
      BY <2>1 DEF HygRecords
    <2>3. records' = [records EXCEPT ![i] = r]
      BY <1>2 DEF Hyg!Update, Hyg!SetField, HygInv
    <2>4. exposure' = exposure \ {i} /\ judged' = judged \ {i} /\ behind' = behind \ {i}
      BY <1>2 DEF Hyg!Update, Hyg!SetField
    <2> HIDE DEF r
    <2> QED
      BY <1>0, <2>2, <2>3, <2>4, OneRecord
  <1>3. ASSUME NEW i \in Id, NEW v \in FieldValue, Hyg!KeepsVerdict(i, v) PROVE HygInv'
    <2>1. i \in Hyg!Here /\ records[i] \in HygRecords
      BY <1>0, <1>3 DEF Hyg!KeepsVerdict, Hyg!SetField
    <2> DEFINE r == [records[i] EXCEPT !.value = v, !.old = FALSE]
    <2>2. r \in HygRecords /\ r.name = records[i].name
      BY <2>1 DEF HygRecords
    <2>3. records' = [records EXCEPT ![i] = r]
      BY <1>3 DEF Hyg!KeepsVerdict, Hyg!SetField, HygInv
    <2>4. /\ exposure' = exposure /\ judged' = judged \ {i} /\ behind \subseteq behind'
          /\ i \in exposure => i \in behind'
      BY <1>3 DEF Hyg!KeepsVerdict, Hyg!SetField
    <2> HIDE DEF r
    <2>5. \/ i \notin exposure'
          \/ /\ r \in HygRecords /\ r.name = records[i].name
             /\ r.value = records[i].value \/ i \in behind'
      BY <2>2, <2>4
    <2>6. /\ exposure' \subseteq exposure /\ judged' \subseteq judged /\ judged' \subseteq exposure'
          /\ \A j \in behind : j \in behind' \/ j \notin exposure'
      BY <1>0, <2>4
    <2> QED
      BY <2>2, <2>3, <2>5, <2>6, OneRecord
  <1>4. ASSUME NEW i \in Id, Hyg!Delete(i) PROVE HygInv'
    <2>1. /\ records' = [records EXCEPT ![i] = Hyg!Absent]
          /\ exposure' = exposure \ {i} /\ judged' = judged \ {i} /\ behind' = behind \ {i}
      BY <1>4 DEF Hyg!Delete
    <2> QED
      BY <1>0, <2>1, OneRecord
  <1>5. ASSUME NEW i \in Id, Hyg!Age(i) PROVE HygInv'
    <2>1. i \in Hyg!Here /\ records[i] \in HygRecords
      BY <1>0, <1>5 DEF Hyg!Age
    <2> DEFINE r == [records[i] EXCEPT !.old = TRUE]
    <2>2. r \in HygRecords /\ r.name = records[i].name /\ r.value = records[i].value
      BY <2>1 DEF HygRecords
    <2>3. /\ records' = [records EXCEPT ![i] = r]
          /\ exposure' = exposure /\ judged' = judged /\ behind' = behind
      BY <1>5 DEF Hyg!Age, HygInv
    <2> HIDE DEF r
    <2> QED
      BY <1>0, <2>2, <2>3, OneRecord
  <1>6. ASSUME records' = records, exposure' = {}, judged' = {} PROVE HygInv'
    BY <1>6 DEF HygInv
  <1>7. ASSUME records' = records, exposure' = exposure, judged' = judged, behind' = behind PROVE HygInv'
    BY <1>7 DEF HygInv, Hyg!Checked, Hyg!Here
  <1>8. ASSUME NEW arrived \in SUBSET asked, Hyg!Match(arrived) PROVE HygInv'
    <2> DEFINE seen == {i \in Hyg!Checked : records[i].value.prefix \in arrived}
    <2>1. /\ records' = records
          /\ exposure' = Hyg!MatchRanges(arrived)
          /\ judged' = (judged \ seen) \cup {i \in seen : records[i].value \in Corpus}
          /\ behind' = (behind \ seen) \cap exposure'
      BY <1>8 DEF Hyg!Match
    <2>2. Hyg!Checked' = Hyg!Checked
      BY <2>1 DEF Hyg!Checked, Hyg!Here
    <2>3. /\ exposure' \subseteq Hyg!Checked
          /\ \A i \in Hyg!Checked : i \in seen => (i \in exposure' <=> records[i].value \in Corpus)
          /\ \A i \in Hyg!Checked : i \notin seen => (i \in exposure' <=> i \in exposure)
      BY <2>1 DEF Hyg!MatchRanges
    <2> HIDE DEF seen
    <2>4. seen \subseteq Hyg!Checked
      BY DEF seen
    <2>5. judged' \subseteq exposure'
      BY <1>0, <2>1, <2>3, <2>4
    <2>6. ASSUME NEW i \in exposure' \ behind' PROVE records'[i].value \in Corpus
      <3>1. i \in Hyg!Checked
        BY <2>3
      <3>2. CASE i \in seen
        BY <2>1, <2>3, <3>1, <3>2
      <3>3. CASE i \notin seen
        <4>1. i \in exposure /\ i \notin behind
          BY <2>1, <2>3, <3>1, <3>3
        <4> QED
          BY <2>1, <4>1 DEF HygInv
      <3> QED
        BY <3>2, <3>3
    <2> QED
      BY <2>1, <2>2, <2>3, <2>5, <2>6 DEF HygInv
  <1>9. CASE Hyg!Lock
    BY <1>6, <1>9 DEF Hyg!Lock
  <1>10. CASE Hyg!GiveUp
    BY <1>7, <1>10 DEF Hyg!GiveUp
  <1>11. ASSUME NEW decoys \in SUBSET Prefix, Hyg!Prefixes(decoys) PROVE HygInv'
    BY <1>7, <1>11 DEF Hyg!Prefixes
  <1>12. CASE UNCHANGED hygVars
    BY <1>7, <1>12 DEF hygVars
  <1> QED
    BY <1>1, <1>2, <1>3, <1>4, <1>5, <1>8, <1>9, <1>10, <1>11, <1>12
       DEF Hyg!Next, Hyg!ReplaceBehind, Hyg!UpdateFails

\* What a record is blamed for is one of seven things.
Blames == {"WeakPin", "Short", "Reused", "Stale", "NoTotp", "DuplicateTitle", "Exposed"}

\* ... and so of finitely many.
LEMMA BlamesAreFew == IsFiniteSet(Blames)
  <1>1. /\ IsFiniteSet({}) /\ IsFiniteSet({} \cup {"WeakPin"})
        /\ IsFiniteSet({} \cup {"WeakPin"} \cup {"Short"})
        /\ IsFiniteSet({} \cup {"WeakPin"} \cup {"Short"} \cup {"Reused"})
    BY FS_EmptySet, FS_AddElement
  <1>2. /\ IsFiniteSet({} \cup {"WeakPin"} \cup {"Short"} \cup {"Reused"} \cup {"Stale"})
        /\ IsFiniteSet({} \cup {"WeakPin"} \cup {"Short"} \cup {"Reused"} \cup {"Stale"} \cup {"NoTotp"})
    BY <1>1, FS_AddElement
  <1>3. IsFiniteSet({} \cup {"WeakPin"} \cup {"Short"} \cup {"Reused"} \cup {"Stale"} \cup {"NoTotp"}
                       \cup {"DuplicateTitle"} \cup {"Exposed"})
    BY <1>2, FS_AddElement
  <1>4. Blames = {} \cup {"WeakPin"} \cup {"Short"} \cup {"Reused"} \cup {"Stale"} \cup {"NoTotp"}
                    \cup {"DuplicateTitle"} \cup {"Exposed"}
    BY DEF Blames
  <1> QED
    BY <1>3, <1>4

\* What a record is blamed for weighs at least as much as each thing alone.
LEMMA Weighed ==
    ASSUME NEW S \in SUBSET Blames, NEW k \in S
    PROVE  Hyg!MapThenSumSet(Hyg!Weight, S) >= Hyg!Weight(k)
  <1> DEFINE w == [x \in S |-> Hyg!Weight(x)]
             Sums(g) == g = [s \in SUBSET S |->
                              IF s = {} THEN 0
                              ELSE LET x == CHOOSE x \in s : TRUE IN Hyg!Weight(x) + g[s \ {x}]]
  <1>1. IsFiniteSet(S)
    BY BlamesAreFew, FS_Subset
  <1>2. w \in [S -> Nat]
    BY DEF Hyg!Weight
  <1>3. ASSUME NEW g PROVE Sums(g) <=> IsSum(g, w, S)
    <2>1. ASSUME NEW s \in SUBSET S
          PROVE  SumAt(g, w, s) = IF s = {} THEN 0
                                  ELSE LET x == CHOOSE x \in s : TRUE IN Hyg!Weight(x) + g[s \ {x}]
      <3>1. s # {} => Pick(s) \in S
        BY DEF Pick
      <3>2. s # {} => w[Pick(s)] = Hyg!Weight(Pick(s))
        BY <3>1
      <3> HIDE DEF w
      <3> QED
        BY <3>2 DEF SumAt, Pick
    <2> HIDE DEF w
    <2> QED
      BY <2>1 DEF IsSum
  <1>4. \E g : Sums(g)
    <2> HIDE DEF Sums, w
    <2> QED
      BY <1>1, <1>3, SumExists
  <1>5. Sums(CHOOSE g : Sums(g))
    <2> HIDE DEF Sums
    <2> QED
      BY <1>4
  <1> DEFINE iter == CHOOSE g : Sums(g)
  <1>6. Hyg!MapThenSumSet(Hyg!Weight, S) = iter[S]
    BY DEF Hyg!MapThenSumSet, Hyg!MapThenFoldSet
  <1> HIDE DEF Sums
  <1>7. IsSum(iter, w, S)
    <2> HIDE DEF w
    <2> QED
      BY <1>3, <1>5
  <1> HIDE DEF iter
  <1>8. w[k] = Hyg!Weight(k)
    OBVIOUS
  <1>9. iter[S] >= w[k]
    <2> HIDE DEF w
    <2>1. S \in SUBSET S
      OBVIOUS
    <2> QED
      BY <1>1, <1>2, <1>7, <2>1, SumCovers
  <1> QED
    BY <1>6, <1>8, <1>9

\* The report is true.
LEMMA ReportFromInvariant == HygInv => ReportIsTrue
  <1> SUFFICES ASSUME HygInv PROVE Hyg!ReportIsTrue
    BY DEF ReportIsTrue
  <1>1. \A i : "Exposed" \in Hyg!Issues(i) <=> i \in exposure
    BY DEF Hyg!Issues, Hyg!WeakField
  <1>2. \A i : "Reused" \in Hyg!Issues(i) <=> Hyg!SharedWith(i) # {}
    BY DEF Hyg!Issues, Hyg!WeakField
  <1>3. \A i : Hyg!Issues(i) \in SUBSET Blames
    BY DEF Hyg!Issues, Hyg!WeakField, Blames
  <1>4. \A i \in judged : "Exposed" \in Hyg!Issues(i)
    BY <1>1 DEF HygInv
  <1>5. \A i \in Hyg!Here \ behind : "Exposed" \in Hyg!Issues(i) => records[i].value \in Corpus
    BY <1>1 DEF HygInv
  <1>6. ASSUME NEW i \in Hyg!Here, NEW j \in Hyg!SharedWith(i)
        PROVE  "Reused" \in Hyg!Issues(j) /\ Hyg!Demerits(j) >= Hyg!Weight("Reused")
    <2>1. i \in Hyg!SharedWith(j)
      BY DEF Hyg!SharedWith
    <2>2. "Reused" \in Hyg!Issues(j)
      BY <1>2, <2>1
    <2>3. Hyg!MapThenSumSet(Hyg!Weight, Hyg!Issues(j)) >= Hyg!Weight("Reused")
      BY <1>3, <2>2, Weighed
    <2> QED
      BY <2>2, <2>3 DEF Hyg!Demerits
  <1> QED
    BY <1>4, <1>5, <1>6 DEF Hyg!ReportIsTrue

\* The hygiene report is true of the vault as it is: what a bucket gave away stays
\* exposed until it is changed, what is called exposed is leaked unless it was replaced
\* behind the verdict (by SecretPut, another process or a half-applied update), and
\* reuse is mutual and weighs what it should (hygiene.rs: analyse_with_exposure;
\* breach.rs: match_ranges).
THEOREM ReportHolds == LibrarySpec => []ReportIsTrue
  <1>1. LibraryInit => HygInv
    BY DEF LibraryInit, Hyg!Init, HygInv
  <1>2. HygInv /\ [LibraryNext]_libraryVars => HygInv'
    BY HygStep DEF LibraryNext, libraryVars
  <1> QED
    BY <1>1, <1>2, ReportFromInvariant, PTL DEF LibrarySpec

----------------------------------------------------------------------------
\* The approvals.

\* Lockdown denies everyone because turning it on empties the set of trusted programs
\* and trust is refused while it is on: NoTrust is the strengthening that makes
\* LockdownDeniesAll inductive.
NoTrust == lockdown => trusted = {}

ApprovalsInv == Pol!TypeOK /\ NoTrust

\* A step of the parts is a call of policy.rs or leaves the approvals alone.
LEMMA ApprovalCalls == [LibraryNext]_libraryVars => [Pol!Next]_polVars
  BY DEF LibraryNext, libraryVars

\* Every call of policy.rs keeps the types, and no order of set_lockdown, trust,
\* revoke_client and clear leaves a trusted program under lockdown.
LEMMA ApprovalsStep == ApprovalsInv /\ [Pol!Next]_polVars => ApprovalsInv'
<1> SUFFICES ASSUME ApprovalsInv, [Pol!Next]_polVars PROVE ApprovalsInv'
  OBVIOUS
<1> USE DEF ApprovalsInv, Pol!TypeOK, NoTrust, Pol!Grants
<1>1. CASE UNCHANGED polVars
  BY <1>1 DEF polVars
<1>2. ASSUME NEW c \in Client, NEW i \in Item, NEW k \in Capability, Pol!Grant(c, i, k)
      PROVE ApprovalsInv'
  BY <1>2 DEF Pol!Grant
<1>3. ASSUME NEW c \in Client, NEW i \in Item, Pol!Revoke(c, i)
      PROVE ApprovalsInv'
  BY <1>3 DEF Pol!Revoke
<1>4. ASSUME NEW c \in Client, Pol!RevokeClient(c)
      PROVE ApprovalsInv'
  BY <1>4 DEF Pol!RevokeClient
<1>5. ASSUME NEW c \in Client, Pol!Trust(c)
      PROVE ApprovalsInv'
  BY <1>5 DEF Pol!Trust
<1>6. ASSUME NEW on \in BOOLEAN, Pol!SetLockdown(on)
      PROVE ApprovalsInv'
  BY <1>6 DEF Pol!SetLockdown
<1>7. CASE Pol!ClearApprovals
  BY <1>7 DEF Pol!ClearApprovals
<1>8. QED
  BY <1>1, <1>2, <1>3, <1>4, <1>5, <1>6, <1>7 DEF Pol!Next

\* The strengthened invariant holds throughout.
LEMMA ApprovalsHold == LibrarySpec => []ApprovalsInv
  <1>1. LibraryInit => ApprovalsInv
    BY DEF LibraryInit, Pol!Init, ApprovalsInv, Pol!TypeOK, NoTrust
  <1> QED
    BY <1>1, ApprovalCalls, ApprovalsStep, PTL DEF LibrarySpec

\* Approvals are triples of a client, an item and a capability, always.
THEOREM ApprovalsTyped == LibrarySpec => []Pol!TypeOK
<1>1. ApprovalsInv => Pol!TypeOK
  BY DEF ApprovalsInv
<1>2. QED
  BY <1>1, ApprovalsHold, PTL

\* Lockdown makes no exception, for any number of clients, items and
\* capabilities and any history of trust (policy.rs: consider asks about trust
\* before lockdown, so this rests on set_lockdown and trust).
THEOREM LockdownIsTotal == LibrarySpec => []LockdownDeniesAll
<1>1. ApprovalsInv => LockdownDeniesAll
  BY DEF LockdownDeniesAll, ApprovalsInv, NoTrust, Pol!LockdownDeniesAll, Pol!Consider
<1>2. QED
  BY <1>1, ApprovalsHold, PTL

\* One step of the approvals turns a question into a remembered approval only by
\* that very yes, by trust given outside lockdown, or by lifting a lockdown
\* over an approval given before it (policy.rs: grant, trust, set_lockdown).
THEOREM OnlyAYes == LibrarySpec => YesIsExplicit
<1> DEFINE Step ==
      \A c \in Client, i \in Item, k \in Capability :
         Pol!Consider(c, i, k) # "remembered" /\ Pol!Consider(c, i, k)' = "remembered"
         => \/ granted' \ granted = {[client |-> c, item |-> i, capability |-> k]}
            \/ trusted' \ trusted = {c} /\ ~lockdown
            \/ /\ lockdown /\ ~lockdown' /\ trusted' = {}
               /\ [client |-> c, item |-> i, capability |-> k] \in granted
<1>1. ApprovalsInv /\ [Pol!Next]_polVars => [Step]_polVars
  <2> SUFFICES ASSUME ApprovalsInv, Pol!Next,
                      NEW c \in Client, NEW i \in Item, NEW k \in Capability,
                      Pol!Consider(c, i, k) # "remembered", Pol!Consider(c, i, k)' = "remembered"
               PROVE  \/ granted' \ granted = {[client |-> c, item |-> i, capability |-> k]}
                      \/ trusted' \ trusted = {c} /\ ~lockdown
                      \/ /\ lockdown /\ ~lockdown' /\ trusted' = {}
                         /\ [client |-> c, item |-> i, capability |-> k] \in granted
    BY DEF polVars
  <2> DEFINE g == [client |-> c, item |-> i, capability |-> k]
  <2>1. /\ c \notin trusted
        /\ lockdown \/ g \notin granted
        /\ c \in trusted' \/ (~lockdown' /\ g \in granted')
    BY DEF Pol!Consider
  <2> HIDE DEF g
  <2>2. ASSUME NEW d \in Client, NEW j \in Item, NEW l \in Capability, Pol!Grant(d, j, l)
        PROVE granted' \ granted = {g}
    BY <2>1, <2>2 DEF Pol!Grant
  <2>3. ASSUME NEW d \in Client, NEW j \in Item, Pol!Revoke(d, j)
        PROVE FALSE
    BY <2>1, <2>3 DEF Pol!Revoke
  <2>4. ASSUME NEW d \in Client, Pol!RevokeClient(d)
        PROVE FALSE
    BY <2>1, <2>4 DEF Pol!RevokeClient
  <2>5. ASSUME NEW d \in Client, Pol!Trust(d)
        PROVE trusted' \ trusted = {c} /\ ~lockdown
    BY <2>1, <2>5 DEF Pol!Trust
  <2>6. ASSUME NEW on \in BOOLEAN, Pol!SetLockdown(on)
        PROVE lockdown /\ ~lockdown' /\ trusted' = {} /\ g \in granted
    BY <2>1, <2>6 DEF Pol!SetLockdown, ApprovalsInv, NoTrust, Pol!TypeOK
  <2>7. CASE Pol!ClearApprovals
    BY <2>1, <2>7 DEF Pol!ClearApprovals
  <2>8. QED
    BY <2>2, <2>3, <2>4, <2>5, <2>6, <2>7 DEF Pol!Next, g
<1>2. QED
  BY <1>1, ApprovalsHold, ApprovalCalls, PTL DEF LibrarySpec, YesIsExplicit, Pol!YesIsExplicit, Pol!vars, polVars

----------------------------------------------------------------------------
\* The backup log.

\* A finite set of places has one of each rank.
LEMMA Ranked ==
    ASSUME NEW n \in Nat, NEW S \in SUBSET (1 .. n), NEW k \in 1 .. Cardinality(S)
    PROVE  \E i \in S : Cardinality({j \in S : j <= i}) = k
  <1> DEFINE Up(i) == {j \in S : j <= i}
             Enough == {i \in 0 .. n : Cardinality(Up(i)) >= k}
  <1>1. IsFiniteSet(S) /\ Cardinality(S) \in Nat /\ k \in Nat /\ k > 0 /\ k <= Cardinality(S)
    <2>1. IsFiniteSet(1 .. n)
      BY FS_Interval
    <2>2. IsFiniteSet(S)
      BY <2>1, FS_Subset
    <2>3. Cardinality(S) \in Nat
      BY <2>2, FS_CardinalityType
    <2> QED
      BY <2>2, <2>3
  <1>0. \A j \in S : j \in Nat /\ 1 <= j /\ j <= n
    OBVIOUS
  <1>2. ASSUME NEW i PROVE IsFiniteSet(Up(i)) /\ Cardinality(Up(i)) \in Nat
    <2>1. Up(i) \subseteq S
      OBVIOUS
    <2> QED
      BY <1>1, <2>1, FS_Subset, FS_CardinalityType
  <1>3. n \in Enough
    <2>1. Up(n) = S
      BY <1>0
    <2> QED
      BY <1>1, <2>1
  <1>4. PICK m \in Enough : \A i \in Enough : m <= i
    <2>1. Enough \in SUBSET Nat /\ Enough # {}
      BY <1>3, SMTT(30)
    <2> HIDE DEF Enough
    <2> QED
      BY <2>1, Least
  <1>5. m \in 0 .. n /\ Cardinality(Up(m)) >= k
    BY <1>4
  <1>6. m # 0
    <2> SUFFICES ASSUME m = 0 PROVE FALSE
      OBVIOUS
    <2>0. \A j \in S : ~(j <= 0)
      BY <1>0
    <2>1. Up(0) = {}
      BY <2>0
    <2>2. Cardinality(Up(m)) = 0
      BY <2>1, FS_EmptySet
    <2> QED
      BY <1>1, <1>5, <2>2
  <1>7. m - 1 \in 0 .. n /\ ~(m <= m - 1)
    BY <1>5, <1>6
  <1>8. ~(Cardinality(Up(m - 1)) >= k)
    BY <1>4, <1>7
  <1>9. m \in S
    <2> SUFFICES ASSUME m \notin S PROVE FALSE
      OBVIOUS
    <2>1. \A j \in S : j <= m <=> j <= m - 1
      BY <1>0, <1>5
    <2>2. Up(m) = Up(m - 1)
      BY <2>1
    <2> QED
      BY <1>5, <1>8, <2>2
  <1>10. Up(m) = Up(m - 1) \cup {m} /\ m \notin Up(m - 1)
    <2>1. \A j \in S : j <= m <=> (j <= m - 1 \/ j = m)
      BY <1>0, <1>5
    <2>2. ~(m <= m - 1)
      BY <1>5
    <2> QED
      BY <1>9, <2>1, <2>2
  <1>11. Cardinality(Up(m)) = Cardinality(Up(m - 1)) + 1
    <2> HIDE DEF Up
    <2> QED
      BY <1>2, <1>10, FS_AddElement
  <1>12. Cardinality(Up(m)) = k
    <2>1. Cardinality(Up(m)) \in Nat /\ Cardinality(Up(m - 1)) \in Nat
      BY <1>2
    <2> HIDE DEF Up
    <2> QED
      BY <1>1, <1>5, <1>8, <1>11, <2>1
  <1> QED
    BY <1>9, <1>12

\* What is selected from a log is in it.
Taken(E, s, a) == a \in Seq(E) /\ \A k \in DOMAIN a : \E i \in DOMAIN s : a[k] = s[i]

\* The entries at some places are entries of the log.
LEMMA OnlyThose ==
    ASSUME NEW E, NEW s \in Seq(E), NEW S \in SUBSET (DOMAIN s)
    PROVE  Taken(E, s, Back!Only(s, S))
  <1> DEFINE At(k) == CHOOSE i \in S : Back!Cardinality({j \in S : j <= i}) = k
  <1>1. \A T : Back!Cardinality(T) = Cardinality(T)
    BY DEF Back!Cardinality, Cardinality
  <1>2. Len(s) \in Nat /\ DOMAIN s = 1 .. Len(s)
    OBVIOUS
  <1>3. ASSUME NEW k \in 1 .. Cardinality(S) PROVE At(k) \in S
    <2>1. \E i \in S : Cardinality({j \in S : j <= i}) = k
      BY <1>2, Ranked, ZenonT(60)
    <2>2. \E i \in S : Back!Cardinality({j \in S : j <= i}) = k
      BY <1>1, <2>1
    <2> QED
      BY <2>2
  <1>4. Back!Only(s, S) = [k \in 1 .. Back!Cardinality(S) |-> s[At(k)]]
    BY DEF Back!Only
  <1> HIDE DEF At
  <1>5. Cardinality(S) \in Nat
    <2>1. IsFiniteSet(1 .. Len(s))
      BY <1>2, FS_Interval
    <2>2. IsFiniteSet(S)
      BY <1>2, <2>1, FS_Subset
    <2> QED
      BY <2>2, FS_CardinalityType
  <1>6. \A k \in 1 .. Cardinality(S) : At(k) \in DOMAIN s /\ s[At(k)] \in E
    BY <1>2, <1>3
  <1> PICK a, n : a = Back!Only(s, S) /\ n = Cardinality(S)
    OBVIOUS
  <1>7. n \in Nat /\ a = [k \in 1 .. n |-> s[At(k)]]
    BY <1>1, <1>4, <1>5
  <1>8. \A k \in 1 .. n : At(k) \in DOMAIN s /\ s[At(k)] \in E
    BY <1>6
  <1>9. a \in Seq(E) /\ DOMAIN a = 1 .. n /\ \A k \in 1 .. n : a[k] = s[At(k)]
    BY <1>7, <1>8
  <1> QED
    BY <1>8, <1>9 DEF Taken

Junks == {Back!Junk("same"), Back!Junk("other")}
Copies == [what : {"copy"}, size : {"same"}, vault : Vault, epoch : 1 .. MaxEpoch]
Files == {Back!NoFile} \cup Junks \cup Copies
Entries == [at : 1 .. MaxTime, vault : Vault, epoch : 1 .. MaxEpoch, path : Path]
Busy == [at : {"read", "clear", "written", "checked"}, log : Seq(Entries), bytes : Copies, path : Path]
Commands == {Back!NoCmd, [at |-> "failed"], [at |-> "done"]} \cup Busy

\* A log with one more entry, if that, and perhaps fewer of the others.
Added(s, e, t) == t \in Seq(Entries) /\ \A k \in DOMAIN t : t[k] = e \/ \E i \in DOMAIN s : t[k] = s[i]

\* Log.push puts one entry into the log, and no other.
LEMMA PushAdds ==
    ASSUME NEW s \in Seq(Entries), NEW e \in Entries
    PROVE  Added(s, e, Back!Push(s, e))
  <1> DEFINE rest == {i \in DOMAIN s : ~(s[i].vault = e.vault /\ s[i].path = e.path)}
             newer == {i \in rest : s[i].at >= e.at}
             a == Back!Only(s, newer)
             b == Back!Only(s, rest \ newer)
             t == a \o <<e>> \o b
  <1>1. Taken(Entries, s, a)
    <2>1. newer \in SUBSET (DOMAIN s)
      OBVIOUS
    <2> HIDE DEF newer
    <2> QED
      BY <2>1, OnlyThose
  <1>2. Taken(Entries, s, b)
    <2> PICK S : S = rest \ newer
      OBVIOUS
    <2>1. S \in SUBSET (DOMAIN s)
      OBVIOUS
    <2> HIDE DEF rest, newer
    <2> QED
      BY <2>1, OnlyThose
  <1>3. Back!Push(s, e) = Back!Trim(t)
    BY DEF Back!Push
  <1> HIDE DEF a, b
  <1>4. /\ a \in Seq(Entries) /\ \A k \in DOMAIN a : \E i \in DOMAIN s : a[k] = s[i]
        /\ b \in Seq(Entries) /\ \A k \in DOMAIN b : \E i \in DOMAIN s : b[k] = s[i]
    BY <1>1, <1>2 DEF Taken
  <1>5. t \in Seq(Entries) /\ Len(a) \in Nat /\ Len(b) \in Nat /\ Len(t) = Len(a) + 1 + Len(b)
    BY <1>4
  <1>6. ASSUME NEW k \in DOMAIN t PROVE t[k] = e \/ \E i \in DOMAIN s : t[k] = s[i]
    <2>1. k \in 1 .. Len(a) + 1 + Len(b)
      BY <1>5
    <2>2. CASE k <= Len(a)
      <3>1. k \in DOMAIN a /\ t[k] = a[k]
        BY <1>4, <1>5, <2>1, <2>2
      <3> QED
        BY <1>4, <3>1
    <2>3. CASE k = Len(a) + 1
      BY <1>4, <1>5, <2>1, <2>3
    <2>4. CASE k > Len(a) + 1
      <3> PICK c : c = a \o <<e>>
        OBVIOUS
      <3>1. c \in Seq(Entries) /\ Len(c) = Len(a) + 1
        BY <1>4
      <3>2. k - Len(c) \in 1 .. Len(b) /\ t[k] = b[k - Len(c)]
        BY <1>4, <1>5, <2>1, <2>4, <3>1
      <3>3. k - Len(c) \in DOMAIN b
        BY <1>4, <3>2
      <3> QED
        BY <1>4, <3>2, <3>3
    <2> QED
      BY <1>5, <2>1, <2>2, <2>3, <2>4
  <1> HIDE DEF t
  <1>7. \E S \in SUBSET (DOMAIN t) : Back!Trim(t) = Back!Only(t, S)
    BY DEF Back!Trim
  <1>8. Taken(Entries, t, Back!Trim(t))
    BY <1>5, <1>7, OnlyThose
  <1> PICK u : u = Back!Trim(t)
    OBVIOUS
  <1>9. u \in Seq(Entries) /\ \A k \in DOMAIN u : \E i \in DOMAIN t : u[k] = t[i]
    BY <1>8 DEF Taken
  <1>10. Added(s, e, u)
    BY <1>6, <1>9 DEF Added
  <1> QED
    BY <1>3, <1>10


\* A file is a copy of a vault as it was at an epoch.
Is(file, v, n) == file.what = "copy" /\ file.vault = v /\ file.epoch = n

\* The copy that was once at a path is still there or beside it, unless it was lost or
\* nobody can tell.
Lasting(p, v, n) ==
    \/ p \in lost \cup spoiled
    \/ Is(copy[p], v, n)
    \/ \E t \in 1 .. MaxTime : Is(aside[p][t], v, n)
Kept(s) == \A i \in DOMAIN s : Lasting(s[i].path, s[i].vault, s[i].epoch)

\* What a command carries: the log it loaded, and from the check on its own copy.
Carried(d) ==
    d \in Busy => /\ Kept(d.log)
                  /\ d.at = "checked" => Lasting(d.path, d.bytes.vault, d.bytes.epoch)

BackTypes ==
    /\ vault \in [Vault -> 1 .. MaxEpoch]
    /\ copy \in [Path -> Files] /\ aside \in [Path -> [1 .. MaxTime -> Files]]
    /\ backups \in Seq(Entries) /\ cmd \in [Command -> Commands]
    /\ now \in 1 .. MaxTime
LostIsSeen ==
    /\ lost \subseteq Path
    /\ \A p \in lost : p \in spoiled \/ copy[p] = Back!NoFile \/ copy[p].size # "same"
BackInv ==
    /\ BackTypes /\ LostIsSeen
    /\ Kept(backups) /\ \A c \in Command : Carried(cmd[c])

\* A command that works is busy.
LEMMA BusyIs ==
    ASSUME NEW d \in Commands, d.at \in {"read", "clear", "written", "checked"}
    PROVE  d \in Busy
  BY DEF Commands, Busy, Back!NoCmd

\* No file is no copy.
LEMMA NoFileIs == Back!NoFile \in Files /\ \A v, n : ~Is(Back!NoFile, v, n)
  BY DEF Files, Is, Back!NoFile

\* What was once copied lasts.
Lasts == \A p \in Path : \A v, n : Lasting(p, v, n) => Lasting(p, v, n)'

\* What is moved aside is beside its path, unless it replaced what was moved aside in the
\* same second (main.rs: cmd_backup).
LEMMA MovingLasts ==
    ASSUME BackTypes, NEW c \in Command, Back!MoveAside(c) PROVE Lasts
  <1>1. cmd[c] \in Busy
    BY BusyIs DEF BackTypes, Back!MoveAside
  <1> PICK p \in Path : p = cmd[c].path
    BY <1>1 DEF Busy
  <1>2. CASE copy[p] = Back!NoFile
    BY <1>2 DEF Back!MoveAside, Lasts, Lasting, Is
  <1>3. CASE copy[p] # Back!NoFile
    <2>1. /\ aside' = [aside EXCEPT ![p] = [aside[p] EXCEPT ![now] = copy[p]]]
          /\ copy' = [copy EXCEPT ![p] = Back!NoFile]
          /\ spoiled' = spoiled \cup {q \in {p} : aside[p][now] # Back!NoFile}
          /\ lost' = lost
      BY <1>3 DEF Back!MoveAside
    <2>2. \A q \in Path : q # p => aside'[q] = aside[q] /\ copy'[q] = copy[q]
      BY <2>1 DEF BackTypes
    <2>3. /\ aside'[p][now] = copy[p]
          /\ \A t \in 1 .. MaxTime : t # now => aside'[p][t] = aside[p][t]
      BY <2>1 DEF BackTypes
    <2>4. ASSUME NEW q \in Path, NEW v, NEW n, Lasting(q, v, n)
          PROVE  Lasting(q, v, n)'
      <3>1. CASE q \in lost \cup spoiled
        BY <2>1, <3>1 DEF Lasting
      <3>2. CASE q # p
        BY <2>1, <2>2, <2>4, <3>2 DEF Lasting
      <3>3. CASE q = p /\ Is(copy[p], v, n)
        BY <2>3, <3>3 DEF Lasting, BackTypes
      <3>4. CASE q = p /\ q \notin lost \cup spoiled /\ ~Is(copy[p], v, n)
        <4>1. PICK t \in 1 .. MaxTime : Is(aside[p][t], v, n)
          BY <2>4, <3>4 DEF Lasting
        <4>2. CASE t = now
          <5>1. aside[p][now] # Back!NoFile
            BY <4>1, <4>2, NoFileIs
          <5>2. p \in spoiled'
            BY <2>1, <5>1
          <5> QED
            BY <3>4, <5>2 DEF Lasting
        <4>3. CASE t # now
          BY <2>3, <3>4, <4>1, <4>3 DEF Lasting
        <4> QED
          BY <4>2, <4>3
      <3> QED
        BY <3>1, <3>2, <3>3, <3>4
    <2> QED
      BY <2>4 DEF Lasts
  <1> QED
    BY <1>2, <1>3

\* A copy that is written where something came meanwhile makes the path one that nobody
\* can tell of (main.rs: write_owner_only).
LEMMA WritingLasts ==
    ASSUME BackTypes, NEW c \in Command, Back!Write(c) PROVE Lasts
  <1>1. cmd[c] \in Busy
    BY BusyIs DEF BackTypes, Back!Write
  <1> PICK p \in Path : p = cmd[c].path
    BY <1>1 DEF Busy
  <1>2. /\ copy' = [copy EXCEPT ![p] = cmd[c].bytes]
        /\ spoiled' = spoiled \cup ({p} \cap lost) \cup {q \in {p} : copy[p] # Back!NoFile}
        /\ aside' = aside /\ lost' = lost
    BY DEF Back!Write
  <1>3. \A q \in Path : q # p => copy'[q] = copy[q]
    BY <1>2 DEF BackTypes
  <1>4. ASSUME NEW q \in Path, NEW v, NEW n, Lasting(q, v, n)
        PROVE  Lasting(q, v, n)'
    <2>1. CASE q \in lost \cup spoiled
      BY <1>2, <2>1 DEF Lasting
    <2>2. CASE q # p
      BY <1>2, <1>3, <1>4, <2>2 DEF Lasting
    <2>3. CASE q = p /\ Is(copy[p], v, n)
      <3>1. copy[p] # Back!NoFile
        BY <2>3, NoFileIs
      <3>2. p \in spoiled'
        BY <1>2, <3>1
      <3> QED
        BY <2>3, <3>2 DEF Lasting
    <2>4. CASE q = p /\ q \notin lost \cup spoiled /\ ~Is(copy[p], v, n)
      BY <1>2, <1>4, <2>4 DEF Lasting
    <2> QED
      BY <2>1, <2>2, <2>3, <2>4
  <1> QED
    BY <1>4 DEF Lasts

\* A copy that is deleted or replaced is known to be lost.
LEMMA ReplacingLasts ==
    ASSUME BackTypes, NEW p \in Path, NEW by, Back!Replace(p, by) PROVE Lasts
  <1>1. /\ copy' = [copy EXCEPT ![p] = by] /\ lost' = lost \cup {p}
        /\ spoiled \subseteq spoiled' /\ aside' = aside
    BY DEF Back!Replace
  <1>2. \A q \in Path : q # p => copy'[q] = copy[q]
    BY <1>1 DEF BackTypes
  <1> QED
    BY <1>1, <1>2 DEF Lasts, Lasting

\* Elsewhere nothing moves.
LEMMA StillLasts ==
    ASSUME UNCHANGED <<copy, aside, lost, spoiled>> PROVE Lasts
  BY DEF Lasts, Lasting

\* What is carried through a step in which copies last is still right after it.
LEMMA CarriedOn ==
    ASSUME Lasts
    PROVE  /\ \A s \in Seq(Entries) : Kept(s) => Kept(s)'
           /\ \A d \in Commands : Carried(d) => Carried(d)'
  <1>1. ASSUME NEW s \in Seq(Entries), Kept(s) PROVE Kept(s)'
    <2>1. \A i \in DOMAIN s : s[i] \in Entries
      OBVIOUS
    <2>2. \A i \in DOMAIN s : s[i].path \in Path
      BY <2>1 DEF Entries
    <2> QED
      BY <1>1, <2>2 DEF Kept, Lasts
  <1>2. ASSUME NEW d \in Busy PROVE d.log \in Seq(Entries) /\ d.path \in Path
    BY DEF Busy
  <1> QED
    BY <1>1, <1>2 DEF Carried, Lasts

\* The commands after a step: each as it was, or what one of them became.
OneCommand(c, d) == cmd' = [cmd EXCEPT ![c] = d]

\* A step of one command leaves the others as they were.
LEMMA CommandSteps ==
    ASSUME BackTypes, NEW c \in Command, NEW d \in Commands, OneCommand(c, d)
    PROVE  /\ cmd' \in [Command -> Commands] /\ cmd'[c] = d
           /\ \A e \in Command : e # c => cmd'[e] = cmd[e]
  BY DEF BackTypes, OneCommand

\* A command that goes on carries what it carried.
LEMMA GoesOn ==
    ASSUME NEW d \in Busy, NEW at \in {"read", "clear", "written", "checked"}, Carried(d),
           at = "checked" => Lasting(d.path, d.bytes.vault, d.bytes.epoch)
    PROVE  /\ [d EXCEPT !.at = at] \in Busy
           /\ Carried([d EXCEPT !.at = at])
  <1> PICK e : e = [d EXCEPT !.at = at]
    OBVIOUS
  <1>1. e \in Busy /\ e.at = at /\ e.log = d.log /\ e.path = d.path /\ e.bytes = d.bytes
    BY DEF Busy
  <1> QED
    BY <1>1 DEF Carried

\* What a stopped, failed or finished command leaves.
Finished == {[at |-> "failed"], [at |-> "done"]}
\* A command that is over carries nothing.
LEMMA OverIs == Finished \subseteq Commands /\ \A d \in Finished : Carried(d)
  <1>1. \A d \in Finished : d \notin Busy
    BY DEF Finished, Busy
  <1> QED
    BY <1>1 DEF Finished, Commands, Carried

\* The entry a command makes is an entry, of its copy.
LEMMA EntryIs ==
    ASSUME BackTypes, NEW c \in Command, cmd[c] \in Busy
    PROVE  /\ Back!EntryOf(c) \in Entries
           /\ Back!EntryOf(c).path = cmd[c].path
           /\ Back!EntryOf(c).vault = cmd[c].bytes.vault
           /\ Back!EntryOf(c).epoch = cmd[c].bytes.epoch
  BY DEF BackTypes, Busy, Copies, Entries, Back!EntryOf

\* A step in which one command becomes something and only the files change.
LEMMA OneActs ==
    ASSUME BackInv, Lasts, NEW c \in Command, NEW d \in Commands, OneCommand(c, d), Carried(d)',
           copy' \in [Path -> Files], aside' \in [Path -> [1 .. MaxTime -> Files]], LostIsSeen',
           UNCHANGED <<vault, backups, now>>
    PROVE  BackInv'
  <1>1. /\ cmd' \in [Command -> Commands] /\ cmd'[c] = d
        /\ \A e \in Command : e # c => cmd'[e] = cmd[e]
    BY CommandSteps DEF BackInv
  <1>2. \A e \in Command : Carried(cmd[e])'
    <2> TAKE e \in Command
    <2> PICK f : f = cmd'[e]
      OBVIOUS
    <2>1. Carried(f)'
      <3>1. CASE e = c
        BY <1>1, <3>1
      <3>2. CASE e # c
        <4>1. f = cmd[e] /\ f \in Commands
          BY <1>1, <3>2 DEF BackInv, BackTypes
        <4>2. Carried(f)
          BY <4>1 DEF BackInv
        <4> QED
          BY <4>1, <4>2, CarriedOn
      <3> QED
        BY <3>1, <3>2
    <2> QED
      BY <2>1 DEF Carried
  <1>3. Kept(backups)'
    BY CarriedOn DEF BackInv, BackTypes
  <1> QED
    BY <1>1, <1>2, <1>3 DEF BackInv, BackTypes

\* A command loads the log and reads the vault.
LEMMA Starting ==
    ASSUME BackInv, NEW c \in Command, NEW v \in Vault, NEW p \in Path, Back!Start(c, v, p)
    PROVE  BackInv'
  <1> PICK d : d = [at |-> "read", log |-> backups, bytes |-> Back!CopyOf(v), path |-> p]
    OBVIOUS
  <1>1. /\ d \in Busy /\ d.at = "read" /\ d.log = backups /\ OneCommand(c, d)
        /\ UNCHANGED <<vault, copy, aside, backups, now, lost, spoiled>>
    BY DEF BackInv, BackTypes, Back!Start, Back!CopyOf, Busy, Copies, OneCommand
  <1>2. Carried(d)
    BY <1>1 DEF BackInv, Carried
  <1>3. Lasts
    BY <1>1, StillLasts
  <1>4. Carried(d)'
    BY <1>1, <1>2, <1>3, CarriedOn DEF Commands
  <1>5. copy' \in [Path -> Files] /\ aside' \in [Path -> [1 .. MaxTime -> Files]] /\ LostIsSeen'
    BY <1>1 DEF BackInv, BackTypes, LostIsSeen
  <1> QED
    BY <1>1, <1>3, <1>4, <1>5, OneActs DEF Commands

\* What is in the way is moved aside.
LEMMA Moving ==
    ASSUME BackInv, NEW c \in Command, Back!MoveAside(c)
    PROVE  BackInv'
  <1>1. cmd[c] \in Busy
    BY BusyIs DEF BackInv, BackTypes, Back!MoveAside
  <1> PICK p \in Path : p = cmd[c].path
    BY <1>1 DEF Busy
  <1> PICK d : d = [cmd[c] EXCEPT !.at = "clear"]
    OBVIOUS
  <1>2. Lasts
    BY MovingLasts DEF BackInv
  <1>3. /\ OneCommand(c, d) /\ lost' = lost /\ spoiled \subseteq spoiled'
        /\ UNCHANGED <<vault, backups, now>>
    BY DEF Back!MoveAside, OneCommand
  <1>4. d \in Busy /\ Carried(d)
    BY <1>1, GoesOn DEF BackInv
  <1>5. d \in Commands /\ Carried(d)'
    BY <1>2, <1>4, CarriedOn DEF Commands
  <1>6. copy' = copy \/ copy' = [copy EXCEPT ![p] = Back!NoFile]
    BY DEF Back!MoveAside
  <1>7. aside' = aside \/ aside' = [aside EXCEPT ![p] = [aside[p] EXCEPT ![now] = copy[p]]]
    BY DEF Back!MoveAside
  <1>8. copy' \in [Path -> Files]
    BY <1>6, NoFileIs DEF BackInv, BackTypes
  <1>9. aside' \in [Path -> [1 .. MaxTime -> Files]]
    <2>1. aside[p] \in [1 .. MaxTime -> Files] /\ copy[p] \in Files
      BY DEF BackInv, BackTypes
    <2>2. [aside[p] EXCEPT ![now] = copy[p]] \in [1 .. MaxTime -> Files]
      BY <2>1
    <2> QED
      BY <1>7, <2>2 DEF BackInv, BackTypes
  <1>10. LostIsSeen'
    <2>1. \A q \in Path : copy'[q] = copy[q] \/ copy'[q] = Back!NoFile
      BY <1>6 DEF BackInv, BackTypes
    <2>2. lost \subseteq Path
      BY DEF BackInv, LostIsSeen
    <2> QED
      BY <1>3, <2>1, <2>2 DEF BackInv, LostIsSeen
  <1> QED
    BY <1>2, <1>3, <1>5, <1>8, <1>9, <1>10, OneActs

\* The copy is written.
LEMMA Writing ==
    ASSUME BackInv, NEW c \in Command, Back!Write(c)
    PROVE  BackInv'
  <1>1. cmd[c] \in Busy
    BY BusyIs DEF BackInv, BackTypes, Back!Write
  <1> PICK p \in Path : p = cmd[c].path
    BY <1>1 DEF Busy
  <1> PICK d : d = [cmd[c] EXCEPT !.at = "written"]
    OBVIOUS
  <1>2. Lasts
    BY WritingLasts DEF BackInv
  <1>3. /\ OneCommand(c, d) /\ lost' = lost /\ aside' = aside
        /\ copy' = [copy EXCEPT ![p] = cmd[c].bytes]
        /\ spoiled' = spoiled \cup ({p} \cap lost) \cup {q \in {p} : copy[p] # Back!NoFile}
        /\ UNCHANGED <<vault, backups, now>>
    BY DEF Back!Write, OneCommand
  <1>4. d \in Busy /\ Carried(d)
    BY <1>1, GoesOn DEF BackInv
  <1>5. d \in Commands /\ Carried(d)'
    BY <1>2, <1>4, CarriedOn DEF Commands
  <1>6. copy' \in [Path -> Files] /\ aside' \in [Path -> [1 .. MaxTime -> Files]]
    BY <1>1, <1>3 DEF BackInv, BackTypes, Busy, Files
  <1>7. LostIsSeen'
    <2>1. \A q \in Path : q # p => copy'[q] = copy[q]
      BY <1>3 DEF BackInv, BackTypes
    <2>2. lost \subseteq Path
      BY DEF BackInv, LostIsSeen
    <2>3. \A q \in lost : q = p => q \in spoiled'
      BY <1>3
    <2>4. spoiled \subseteq spoiled'
      BY <1>3
    <2> QED
      BY <1>3, <2>1, <2>2, <2>3, <2>4 DEF BackInv, LostIsSeen
  <1> QED
    BY <1>2, <1>3, <1>5, <1>6, <1>7, OneActs

\* A step of one command that leaves the files alone.
LEMMA OneStays ==
    ASSUME BackInv, NEW c \in Command, NEW d \in Commands, OneCommand(c, d), Carried(d),
           UNCHANGED <<vault, copy, aside, backups, now, lost, spoiled>>
    PROVE  BackInv'
  <1>1. Lasts
    BY StillLasts
  <1>2. Carried(d)'
    BY <1>1, CarriedOn
  <1>3. copy' \in [Path -> Files] /\ aside' \in [Path -> [1 .. MaxTime -> Files]] /\ LostIsSeen'
    BY DEF BackInv, BackTypes, LostIsSeen
  <1> QED
    BY <1>1, <1>2, <1>3, OneActs

\* The copy is read back: if it is what was read from the vault, it lasts from here on.
LEMMA Checking ==
    ASSUME BackInv, NEW c \in Command, Back!Check(c)
    PROVE  BackInv'
  <1>1. cmd[c] \in Busy
    BY BusyIs DEF BackInv, BackTypes, Back!Check
  <1> PICK p \in Path : p = cmd[c].path
    BY <1>1 DEF Busy
  <1>2. UNCHANGED <<vault, copy, aside, backups, now, lost, spoiled>>
    BY DEF Back!Check
  <1>3. CASE copy[p] = cmd[c].bytes
    <2> PICK d : d = [cmd[c] EXCEPT !.at = "checked"]
      OBVIOUS
    <2>1. OneCommand(c, d)
      BY <1>3 DEF Back!Check, OneCommand
    <2>2. Lasting(cmd[c].path, cmd[c].bytes.vault, cmd[c].bytes.epoch)
      BY <1>1, <1>3 DEF Lasting, Is, Busy, Copies
    <2>3. d \in Busy /\ Carried(d)
      BY <1>1, <2>2, GoesOn DEF BackInv
    <2> QED
      BY <1>2, <2>1, <2>3, OneStays DEF Commands
  <1>4. CASE copy[p] # cmd[c].bytes
    <2> PICK d : d = [at |-> "failed"]
      OBVIOUS
    <2>1. OneCommand(c, d)
      BY <1>4 DEF Back!Check, OneCommand
    <2>2. d \in Commands /\ Carried(d)
      BY OverIs DEF Finished
    <2> QED
      BY <1>2, <2>1, <2>2, OneStays
  <1> QED
    BY <1>3, <1>4

\* A command is stopped.
LEMMA Stopping ==
    ASSUME BackInv, NEW c \in Command, Back!Stop(c)
    PROVE  BackInv'
  <1> PICK d : d = [at |-> "failed"]
    OBVIOUS
  <1>1. d \in Commands /\ Carried(d)
    BY OverIs DEF Finished
  <1>2. OneCommand(c, d) /\ UNCHANGED <<vault, copy, aside, backups, now, lost, spoiled>>
    BY DEF Back!Stop, OneCommand
  <1> QED
    BY <1>1, <1>2, OneStays

\* The log a command saves is the one it loaded and its own entry.
LEMMA Recording ==
    ASSUME BackInv, NEW c \in Command, Back!Record(c)
    PROVE  BackInv'
  <1>1. cmd[c] \in Busy /\ cmd[c].at = "checked"
    BY BusyIs DEF BackInv, BackTypes, Back!Record
  <1> PICK d, s, e : d = [at |-> "done"] /\ s = cmd[c].log /\ e = Back!EntryOf(c)
    OBVIOUS
  <1>2. s \in Seq(Entries) /\ e \in Entries
    BY <1>1, EntryIs DEF BackInv, Busy
  <1>3. Kept(s) /\ Lasting(e.path, e.vault, e.epoch)
    BY <1>1, EntryIs DEF BackInv, Carried
  <1>4. backups' \in Seq(Entries) /\ Kept(backups')
    <2> PICK t : t = Back!Push(s, e)
      OBVIOUS
    <2>1. backups' = t
      BY DEF Back!Record
    <2>2. Added(s, e, t)
      BY <1>2, PushAdds
    <2> QED
      BY <1>3, <2>1, <2>2 DEF Added, Kept
  <1>5. OneCommand(c, d) /\ UNCHANGED <<vault, copy, aside, now, lost, spoiled>>
    BY DEF Back!Record, OneCommand
  <1>6. d \in Commands /\ Carried(d)
    BY OverIs DEF Finished
  <1>7. Lasts
    BY <1>5, StillLasts
  <1>8. Kept(backups)'
    <2> PICK t : t = backups'
      OBVIOUS
    <2>1. Kept(t)'
      BY <1>4, <1>7, CarriedOn
    <2> QED
      BY <2>1 DEF Kept
  <1>9. \A f \in Command : Carried(cmd[f])'
    <2> TAKE f \in Command
    <2> PICK g : g = cmd'[f]
      OBVIOUS
    <2>1. g \in Commands /\ Carried(g)
      BY <1>5, <1>6, CommandSteps DEF BackInv, BackTypes
    <2>2. Carried(g)'
      BY <1>7, <2>1, CarriedOn
    <2> QED
      BY <2>2 DEF Carried
  <1>10. cmd' \in [Command -> Commands]
    BY <1>5, <1>6, CommandSteps DEF BackInv
  <1> QED
    BY <1>4, <1>5, <1>8, <1>9, <1>10 DEF BackInv, BackTypes, LostIsSeen

\* A copy is deleted, or replaced.
LEMMA Replacing ==
    ASSUME BackInv, NEW p \in Path, NEW by \in {Back!NoFile} \cup Junks, Back!Replace(p, by)
    PROVE  BackInv'
  <1>1. /\ copy' = [copy EXCEPT ![p] = by] /\ lost' = lost \cup {p}
        /\ spoiled' = spoiled \cup {q \in {p} : by = Back!Junk("same")}
        /\ UNCHANGED <<vault, aside, backups, cmd, now>>
    BY DEF Back!Replace
  <1>2. Lasts
    BY ReplacingLasts DEF BackInv
  <1>3. by \in Files /\ copy' \in [Path -> Files]
    BY <1>1 DEF BackInv, BackTypes, Files
  <1>4. Kept(backups)'
    BY <1>1, <1>2, CarriedOn DEF BackInv, BackTypes
  <1>5. \A c \in Command : Carried(cmd[c])'
    <2> TAKE c \in Command
    <2> PICK d : d = cmd[c]
      OBVIOUS
    <2>1. d \in Commands /\ Carried(d)
      BY DEF BackInv, BackTypes
    <2>2. Carried(d)'
      BY <1>2, <2>1, CarriedOn
    <2> QED
      BY <1>1, <2>2 DEF Carried
  <1>6. LostIsSeen'
    <2>1. \A q \in Path : q # p => copy'[q] = copy[q]
      BY <1>1 DEF BackInv, BackTypes
    <2>2. by = Back!Junk("same") => p \in spoiled'
      BY <1>1
    <2>3. by # Back!Junk("same") => by = Back!NoFile \/ by.size # "same"
      BY DEF Junks, Back!Junk
    <2>4. copy'[p] = by
      BY <1>1 DEF BackInv, BackTypes
    <2>5. lost \subseteq Path /\ spoiled \subseteq spoiled'
      BY <1>1 DEF BackInv, LostIsSeen
    <2> QED
      BY <1>1, <2>1, <2>2, <2>3, <2>4, <2>5 DEF BackInv, LostIsSeen
  <1> QED
    BY <1>1, <1>3, <1>4, <1>5, <1>6 DEF BackInv, BackTypes

\* Saves, the clock and a vault put back leave copies, log and commands alone.
LEMMA WorldStays ==
    ASSUME BackInv, UNCHANGED <<copy, aside, backups, cmd, lost, spoiled>>,
           vault' \in [Vault -> 1 .. MaxEpoch], now' \in 1 .. MaxTime
    PROVE  BackInv'
  BY DEF BackInv, BackTypes, LostIsSeen, Kept, Carried, Lasting

\* A passkey is created, a vault put back, and the clock moves either way.
LEMMA CreatingTicking ==
    ASSUME BackInv, \/ \E v \in Vault : Back!Create(v)
                    \/ \E p \in Path : Back!Restore(p)
                    \/ Back!Tick \/ Back!StepBack
    PROVE  BackInv'
  <1>1. UNCHANGED <<copy, aside, backups, cmd, lost, spoiled>>
    BY DEF Back!Create, Back!Restore, Back!Tick, Back!StepBack
  <1>2. ASSUME NEW v \in Vault, Back!Create(v)
        PROVE  vault' \in [Vault -> 1 .. MaxEpoch] /\ now' = now
    <2>1. vault[v] \in 1 .. MaxEpoch /\ vault[v] < MaxEpoch
      BY <1>2 DEF BackInv, BackTypes, Back!Create
    <2>2. vault[v] + 1 \in 1 .. MaxEpoch
      BY <2>1, BackupAssumption
    <2> QED
      BY <1>2, <2>2 DEF BackInv, BackTypes, Back!Create
  <1>3. ASSUME NEW p \in Path, Back!Restore(p)
        PROVE  vault' \in [Vault -> 1 .. MaxEpoch] /\ now' = now
    <2>1. copy[p] \in Files /\ copy[p].what = "copy"
      BY <1>3 DEF BackInv, BackTypes, Back!Restore
    <2>2. copy[p] \in Copies
      BY <2>1 DEF Files, Junks, Back!Junk, Back!NoFile
    <2> QED
      BY <1>3, <2>2 DEF BackInv, BackTypes, Back!Restore, Copies
  <1>4. CASE Back!Tick
    BY <1>1, <1>4, BackupAssumption, WorldStays DEF BackInv, BackTypes, Back!Tick
  <1>5. CASE Back!StepBack
    BY <1>1, <1>5, BackupAssumption, WorldStays DEF BackInv, BackTypes, Back!StepBack
  <1>6. now \in 1 .. MaxTime
    BY DEF BackInv, BackTypes
  <1> QED
    BY <1>1, <1>2, <1>3, <1>4, <1>5, <1>6, WorldStays

\* Every step of a backup command, of the vaults, of the clock and of the world keeps
\* the invariant.
LEMMA BackStep == BackInv /\ [Back!Next]_backVars => BackInv'
  <1> SUFFICES ASSUME BackInv, [Back!Next]_backVars PROVE BackInv'
    OBVIOUS
  <1>1. CASE UNCHANGED backVars
    <2>1. UNCHANGED <<vault, copy, aside, backups, cmd, now, lost, spoiled>>
      BY <1>1 DEF backVars
    <2> QED
      BY <2>1, WorldStays DEF BackInv, BackTypes
  <1>2. CASE Back!Next
    <2>1. ASSUME NEW p \in Path, NEW by \in {Back!NoFile, Back!Junk("same"), Back!Junk("other")},
                 Back!Replace(p, by)
          PROVE  BackInv'
      BY <2>1, Replacing DEF Junks
    <2> QED
      BY <1>2, <2>1, Starting, Moving, Writing, Checking, Recording, Stopping, CreatingTicking
         DEF Back!Next
  <1> QED
    BY <1>1, <1>2

\* At first nothing is copied and nothing recorded.
LEMMA BackStart == LibraryInit => BackInv
  <1> SUFFICES ASSUME Back!Init PROVE BackInv
    BY DEF LibraryInit
  <1>1. 1 \in 1 .. MaxEpoch /\ 1 \in 1 .. MaxTime
    BY BackupAssumption
  <1>2. backups = <<>> /\ backups \in Seq(Entries) /\ DOMAIN backups = {}
    BY DEF Back!Init
  <1>3. \A c \in Command : cmd[c] \in Commands /\ cmd[c] \notin Busy
    BY DEF Back!Init, Back!NoCmd, Commands, Busy
  <1> QED
    BY <1>1, <1>2, <1>3, NoFileIs
    DEF Back!Init, BackInv, BackTypes, LostIsSeen, Kept, Carried, Commands

\* The invariant of the backup log holds throughout.
LEMMA BackHolds == LibrarySpec => []BackInv
  <1>1. BackInv /\ [LibraryNext]_libraryVars => BackInv'
    BY BackStep DEF LibraryNext, libraryVars
  <1> QED
    BY <1>1, BackStart, PTL DEF LibrarySpec

\* There is a newest epoch among those the log tells of.
LEMMA Newest ==
    ASSUME NEW E \in SUBSET (0 .. MaxEpoch), E # {}
    PROVE  \E e \in E : \A f \in E : f <= e
  <1> DEFINE D == {MaxEpoch - e : e \in E}
  <1>0. MaxEpoch \in Nat
    BY BackupAssumption
  <1>1. D \in SUBSET Nat /\ D # {}
    <2>1. \A e \in E : MaxEpoch - e \in Nat
      BY <1>0
    <2> QED
      BY <2>1
  <1>2. PICK d \in D : \A x \in D : d <= x
    <2> HIDE DEF D
    <2> QED
      BY <1>1, Least
  <1>3. PICK e \in E : d = MaxEpoch - e
    BY <1>2
  <1>4. \A f \in E : MaxEpoch - e <= MaxEpoch - f
    BY <1>2, <1>3
  <1> QED
    BY <1>0, <1>4

\* The newest epoch a live entry tells of is in a copy.
LEMMA BackedUp == BackInv => BackedUpIsTrue
  <1> SUFFICES ASSUME BackInv, NEW v \in Vault, NEW k \in 2 .. vault[v], k <= Back!BackedUpThrough(v)
               PROVE  \/ \E p \in Path : \/ Back!Holds(copy[p], v, k)
                                         \/ \E t \in 1 .. MaxTime : Back!Holds(aside[p][t], v, k)
                      \/ \E i \in Back!LiveFor(v) : backups[i].epoch >= k /\ backups[i].path \in spoiled
    BY DEF BackedUpIsTrue, Back!BackedUpIsTrue
  <1> DEFINE E == {0} \cup {backups[i].epoch : i \in Back!LiveFor(v)}
  <1>1. \A i \in DOMAIN backups : backups[i] \in Entries
    BY DEF BackInv, BackTypes
  <1>2. \A i \in Back!LiveFor(v) : i \in DOMAIN backups /\ backups[i].epoch \in 1 .. MaxEpoch
    BY <1>1 DEF Back!LiveFor, Entries
  <1>3. E \in SUBSET (0 .. MaxEpoch) /\ E # {}
    BY <1>2, BackupAssumption
  <1>4. Back!BackedUpThrough(v) \in E
    <2>1. Back!BackedUpThrough(v) = CHOOSE e \in E : \A f \in E : f <= e
      BY DEF Back!BackedUpThrough
    <2> HIDE DEF E
    <2> QED
      BY <1>3, <2>1, Newest
  <1>5. k \in Nat /\ k >= 2
    BY DEF BackInv, BackTypes
  <1>6. PICK i \in Back!LiveFor(v) : Back!BackedUpThrough(v) = backups[i].epoch
    BY <1>4, <1>5
  <1> PICK p, n : p = backups[i].path /\ n = backups[i].epoch
    OBVIOUS
  <1>7. /\ p \in Path /\ n \in Nat /\ k <= n /\ backups[i].vault = v
        /\ copy[p] # Back!NoFile /\ copy[p].size = "same"
    BY <1>1, <1>2, <1>6 DEF Back!LiveFor, Back!StillPresent, Entries
  <1>8. CASE p \in spoiled
    BY <1>5, <1>7, <1>8
  <1>9. CASE p \notin spoiled
    <2>1. p \notin lost
      BY <1>7, <1>9 DEF BackInv, LostIsSeen
    <2>2. Lasting(p, v, n)
      BY <1>2, <1>7 DEF BackInv, Kept
    <2> QED
      BY <1>7, <1>9, <2>1, <2>2 DEF Lasting, Is, Back!Holds
  <1> QED
    BY <1>8, <1>9

\* An epoch the backup log calls backed up is in a copy that lies where the log says or
\* was moved aside from there, whatever commands, saves and crashes interleave, unless
\* the copy was replaced or overtaken where its size does not tell, or the vault itself
\* was put back (backup.rs: Log::push, backed_up_through; main.rs: cmd_backup).
THEOREM BackupsAreThere == LibrarySpec => []BackedUpIsTrue
  BY BackHolds, BackedUp, PTL

============================================================================
