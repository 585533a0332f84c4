------------------------------ MODULE AuditLog ------------------------------
(***************************************************************************)
(* The hash-chained audit log and its recorded head (audit.rs).            *)
(*                                                                         *)
(* A digest stands for what it was computed over: the entry's fact after   *)
(* the digest before it, so the digest of an entry is the sequence of facts*)
(* up to it and GENESIS is the empty sequence.  Facts are numbered in the  *)
(* order the agent reports them; an edited line carries a number that was  *)
(* never reported.  The agent is the only writer; what happens to the file *)
(* besides (a crash, a restored copy, a partial cut, an edit, with or      *)
(* without new digests: they are unkeyed) is damage.  The sidecar, which   *)
(* the same writer could edit too, is not touched.                         *)
(***************************************************************************)
EXTENDS Integers, Sequences, FiniteSets

CONSTANTS
    NoHead,      \* there is no sidecar yet
    MaxFacts,    \* bound on reported facts
    MaxDamage    \* bound on damage to the file

ASSUME AuditAssumption == MaxFacts \in Nat /\ MaxDamage \in Nat /\ NoHead \notin Seq(Nat)

VARIABLES
    log,       \* audit.jsonl, line by line
    head,      \* audit.jsonl.head
    next,      \* the next fact to report
    damage,    \* how often the file was damaged
    kept,      \* history: facts whose line and head were both written
    gone,      \* history: facts that were never written, or lay past a cut
    forgiven,  \* history: those of kept that were missing when a head was
               \* recorded again
    forged     \* history: false facts, and missing ones, that were in the log or
               \* missing when somebody computed its digests anew

vars == <<log, head, next, damage, kept, gone, forgiven, forged>>

Genesis == <<>>
Line(fact, prev) == [fact |-> fact, prev |-> prev, digest |-> Append(prev, fact)]
\* What a crash in the middle of write_all leaves.
Torn == [fact |-> 0, prev |-> Genesis, digest |-> Genesis]

\* The fact an edited line carries, and what such a line was reported as.
False(fact) == fact + MaxFacts
Reported(fact) == IF fact > MaxFacts THEN fact - MaxFacts ELSE fact

Facts == {log[i].fact : i \in 1 .. Len(log)}

Compute(e) == Append(e.prev, e.fact)

\* entries() succeeds: every line parses.
Readable == \A i \in 1 .. Len(log) : log[i] # Torn

\* head(): the digest of the last entry.
Head_ == IF log = <<>> THEN Genesis ELSE log[Len(log)].digest

----------------------------------------------------------------------------
Init ==
    /\ log = <<>> /\ head = NoHead
    /\ next = 1 /\ damage = 0
    /\ kept = {} /\ gone = {} /\ forgiven = {} /\ forged = {}

Report ==
    /\ next <= MaxFacts
    /\ next' = next + 1
    /\ UNCHANGED <<damage, forged>>

\* append: the line is durable, then the sidecar follows.
AppendEntry ==
    /\ Report /\ Readable
    /\ log' = Append(log, Line(next, Head_))
    /\ head' = Append(Head_, next)
    /\ kept' = kept \cup {next}
    /\ forgiven' = forgiven \cup (kept \ Facts)
    /\ UNCHANGED gone

\* ... or the sidecar cannot be written, or the agent dies before it is.
AppendHeadless ==
    /\ Report /\ Readable
    /\ log' = Append(log, Line(next, Head_))
    /\ UNCHANGED <<head, kept, gone, forgiven>>

\* ... or it dies in the middle of the line.
AppendTorn ==
    /\ Report /\ Readable
    /\ log' = Append(log, Torn)
    /\ gone' = gone \cup {next}
    /\ UNCHANGED <<head, kept, forgiven>>

\* ... or the file cannot be read back, and record_audit reports to stderr.
AppendFails ==
    /\ Report /\ ~Readable
    /\ gone' = gone \cup {next}
    /\ UNCHANGED <<log, head, kept, forgiven>>

\* The file loses its end: everything after the first n lines.
Cut(n) ==
    /\ damage < MaxDamage /\ n < Len(log)
    /\ damage' = damage + 1
    /\ log' = SubSeq(log, 1, n)
    /\ gone' = gone \cup {f \in 1 .. next - 1 : \A i \in 1 .. n : Reported(log[i].fact) < f}
    /\ UNCHANGED <<head, next, kept, forgiven, forged>>

\* A line is edited and its digest left, or one that is not the last is removed.
Edit(i) ==
    /\ damage < MaxDamage /\ i \in 1 .. Len(log) /\ log[i].fact \in 1 .. MaxFacts
    /\ damage' = damage + 1
    /\ log' = [log EXCEPT ![i].fact = False(@)]
    /\ UNCHANGED <<head, next, kept, gone, forgiven, forged>>

RemoveMiddle(i) ==
    /\ damage < MaxDamage /\ i \in 1 .. Len(log) - 1
    /\ damage' = damage + 1
    /\ log' = SubSeq(log, 1, i - 1) \o SubSeq(log, i + 1, Len(log))
    /\ UNCHANGED <<head, next, kept, gone, forgiven, forged>>

\* compute needs no key: whoever edits may chain the lines anew.  What was removed
\* or edited before is then hidden from the chain, though not from the head.
Rehash ==
    LET said == [i \in 1 .. Len(log) |-> log[i].fact] IN
    /\ damage < MaxDamage /\ Readable
    /\ damage' = damage + 1
    /\ log' = [i \in 1 .. Len(log) |-> Line(said[i], SubSeq(said, 1, i - 1))]
    /\ forged' = forged \cup (Facts \ (1 .. next - 1)) \cup ((1 .. next - 1) \ Facts)
    /\ UNCHANGED <<head, next, kept, gone, forgiven>>

Next ==
    \/ Rehash
    \/ AppendEntry \/ AppendHeadless \/ AppendTorn \/ AppendFails
    \/ \E n \in 0 .. MaxFacts : Cut(n) \/ Edit(n) \/ RemoveMiddle(n)

Spec == Init /\ [][Next]_vars

----------------------------------------------------------------------------
\* Mutant: an entry is checked against its own digest only.
ChainedAlone == \A i \in 1 .. Len(log) : log[i].digest = Compute(log[i])

\* Log.verify: every entry follows the one before it and matches its digest.
Chained ==
    \A i \in 1 .. Len(log) :
        /\ log[i].prev = (IF i = 1 THEN Genesis ELSE log[i - 1].digest)
        /\ log[i].digest = Compute(log[i])

\* ... and the recorded head is the head now, or an ancestor of it.
HeadKnown ==
    \/ head \in {NoHead, Head_}
    \/ \E i \in 1 .. Len(log) : log[i].digest = head

Verify ==
    CASE ~Readable -> "unreadable"
      [] Readable /\ ~Chained -> "broken"
      [] Readable /\ Chained /\ ~HeadKnown -> "truncated"
      [] OTHER -> "intact"

----------------------------------------------------------------------------
\* A log nobody touched is never accused: neither a crash between the line and
\* the head nor any number of heads that could not be written reads as
\* truncation (audit.rs: verify, the ancestor rule).
HonestIsIntact == damage = 0 /\ Readable => Verify = "intact"

\* An intact verdict means the log is the truth: every line was reported, in
\* this order, and nothing is missing but what never got written or lay past a
\* cut, whatever was appended after an edit.  The exceptions are the lines whose
\* digests somebody computed anew (audit.rs says that chaining makes quiet edits
\* impossible; the digest has no key, so it makes them a matter of the head).
IntactIsTrue ==
    Verify = "intact" =>
        /\ Facts \subseteq (1 .. next - 1) \cup forged
        /\ \A i, j \in 1 .. Len(log) :
              i < j /\ {log[i].fact, log[j].fact} \cap forged = {} => log[i].fact < log[j].fact
        /\ 1 .. next - 1 \subseteq Facts \cup gone \cup forged

\* An entry whose head was recorded and that was cut off, removed or edited, its
\* digests computed anew or not, is missed until a head is recorded again,
\* whatever else happens to the file in between (audit.rs: recorded_head).  The
\* next append records one without looking.
CutIsSeen == Verify = "intact" => kept \ forgiven \subseteq Facts

\* The three together: the verdict is true, whichever it is.
VerdictIsTrue == HonestIsIntact /\ IntactIsTrue /\ CutIsSeen

============================================================================
