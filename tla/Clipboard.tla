----------------------------- MODULE Clipboard -----------------------------
(***************************************************************************)
(* Copying a secret (blackbag-cli/src/clipboard.rs): the command starts a  *)
(* helper process of its own, hands it the value and waits for its word;   *)
(* the helper offers the value to the compositor and serves it until       *)
(* another client takes the clipboard, while a thread of it sleeps and then*)
(* clears the clipboard if the helper still serves.                        *)
(*                                                                         *)
(* The compositor (external) holds one selection.  It tells the owner of   *)
(* one that was replaced, and the owner learns of it later.                *)
(***************************************************************************)
EXTENDS Integers, FiniteSets

CONSTANTS
    Copy,        \* copies made one after the other, each with its helper
    Forever,     \* the copies made with a delay of 0: never cleared
    MaxOther     \* bound on the other clients' copies

Nobody == "nobody"
Other == "other"

VARIABLES
    caller,      \* copy_secret: "none", "waiting", "placed", "copied", "failed"
    helper,      \* serve: "none", "starting", "reported", "serving" or "gone"
    serving,     \* AtomicBool: cleared when serve() has returned
    armed,       \* AtomicBool: the offer is on its way, start the countdown
    timer,       \* the clear-timer thread: "none", "idle", "asleep", "sure" or "gone"
    selection,   \* the compositor: whose offer the clipboard is
    others,      \* how many values other clients copied
    late,        \* history: copies delivered when their timer had run out
    stuck        \* history: copies whose clearing failed

vars == <<caller, helper, serving, armed, timer, selection, others, late, stuck>>

Init ==
    /\ caller = [c \in Copy |-> "none"]
    /\ helper = [c \in Copy |-> "none"]
    /\ timer = [c \in Copy |-> "none"]
    /\ serving = [c \in Copy |-> FALSE] /\ armed = [c \in Copy |-> FALSE]
    /\ selection = Nobody /\ others = 0
    /\ late = {} /\ stuck = {}

----------------------------------------------------------------------------
(* copy_secret, the command.                                               *)

\* Spawn the helper in a session of its own and write the value to it.  The
\* helper's timer thread is started first, unless it shall never clear.
Spawn(c) ==
    /\ caller[c] = "none"
    /\ caller' = [caller EXCEPT ![c] = "waiting"]
    /\ helper' = [helper EXCEPT ![c] = "starting"]
    /\ serving' = [serving EXCEPT ![c] = TRUE]
    /\ timer' = [timer EXCEPT ![c] = IF c \in Forever THEN "none" ELSE "idle"]
    /\ UNCHANGED <<armed, selection, others, late, stuck>>

\* The helper process ends: its threads and its selection end with it.
Dies(c) ==
    /\ helper' = [helper EXCEPT ![c] = "gone"]
    /\ timer' = [timer EXCEPT ![c] = "gone"]
    /\ selection' = IF selection = c THEN Nobody ELSE selection

Placed(c) ==
    /\ caller[c] = "waiting" /\ helper[c] \in {"reported", "serving"}
    /\ caller' = [caller EXCEPT ![c] = "placed"]
    /\ UNCHANGED <<helper, serving, armed, timer, selection, others, late, stuck>>

\* emit_secret looks at the clipboard itself before it says "copied": any offer
\* with the sensitive hint will do, that of an earlier copy too.
Confirm(c) ==
    /\ caller[c] = "placed"
    /\ \/ selection \in Copy /\ caller' = [caller EXCEPT ![c] = "copied"]
       \/ selection \notin Copy /\ caller' = [caller EXCEPT ![c] = "failed"]
    /\ UNCHANGED <<helper, serving, armed, timer, selection, others, late, stuck>>

\* No word within READY_TIMEOUT, or one nobody expects: kill it.
GivesUp(c) ==
    /\ caller[c] = "waiting"
    /\ caller' = [caller EXCEPT ![c] = "failed"]
    /\ Dies(c)
    /\ UNCHANGED <<serving, armed, others, late, stuck>>

----------------------------------------------------------------------------
(* serve, the helper.                                                      *)

\* Nothing to copy, or no compositor: say so and end.
Fails(c) ==
    /\ helper[c] = "starting"
    /\ serving' = [serving EXCEPT ![c] = FALSE]
    /\ caller' = [caller EXCEPT ![c] = "failed"]
    /\ Dies(c)
    /\ UNCHANGED <<armed, others, late, stuck>>

\* The selection request is queued, not sent: report and arm the timer.
Report(c) ==
    /\ helper[c] = "starting"
    /\ helper' = [helper EXCEPT ![c] = "reported"]
    /\ armed' = [armed EXCEPT ![c] = TRUE]
    /\ UNCHANGED <<caller, serving, timer, selection, others, late, stuck>>

\* The first dispatch of PreparedCopy.serve delivers it.
Deliver(c) ==
    /\ helper[c] = "reported"
    /\ helper' = [helper EXCEPT ![c] = "serving"]
    /\ selection' = c
    /\ late' = IF timer[c] = "gone" THEN late \cup {c} ELSE late
    /\ UNCHANGED <<caller, serving, armed, timer, others, stuck>>

\* It hears that its offer was replaced or cleared: serve() returns, the flag is
\* taken back and the process ends.
Replaced(c) ==
    /\ helper[c] = "serving" /\ selection # c
    /\ serving' = [serving EXCEPT ![c] = FALSE]
    /\ Dies(c)
    /\ UNCHANGED <<caller, armed, others, late, stuck>>

----------------------------------------------------------------------------
(* The clear timer.                                                        *)

Armed(c) ==
    /\ timer[c] = "idle" /\ armed[c]
    /\ timer' = [timer EXCEPT ![c] = "asleep"]
    /\ UNCHANGED <<caller, helper, serving, armed, selection, others, late, stuck>>

\* The delay is over: is it still ours?
TimeUp(c) ==
    /\ timer[c] = "asleep"
    /\ timer' = [timer EXCEPT ![c] = IF serving[c] THEN "sure" ELSE "gone"]
    /\ UNCHANGED <<caller, helper, serving, armed, selection, others, late, stuck>>

\* Mutant: the timer belongs to the command, and goes when the command returns.
ClearByCommand(c) ==
    /\ timer[c] = "sure"
    /\ timer' = [timer EXCEPT ![c] = "gone"]
    /\ UNCHANGED <<caller, helper, serving, armed, selection, others, late, stuck>>

\* copy::clear takes the selection away, whoever's it is.  It may fail, which
\* nobody looks at: the thread ends and the helper goes on serving.
Clear(c) ==
    /\ timer[c] = "sure"
    /\ timer' = [timer EXCEPT ![c] = "gone"]
    /\ \/ selection' = Nobody /\ UNCHANGED stuck
       \/ stuck' = stuck \cup {c} /\ UNCHANGED selection
    /\ UNCHANGED <<caller, helper, serving, armed, others, late>>

----------------------------------------------------------------------------
\* Another program copies something.
OtherCopies ==
    /\ others < MaxOther
    /\ others' = others + 1
    /\ selection' = Other
    /\ UNCHANGED <<caller, helper, serving, armed, timer, late, stuck>>

Helps(c) == Report(c) \/ Deliver(c) \/ Replaced(c)
Times(c) == Armed(c) \/ TimeUp(c) \/ Clear(c)

Next ==
    \/ \E c \in Copy : Spawn(c) \/ Placed(c) \/ Confirm(c) \/ GivesUp(c) \/ Fails(c)
                     \/ Helps(c) \/ Times(c)
    \/ OtherCopies

----------------------------------------------------------------------------
\* A copy that shall be cleared does not stay: whatever happens to the command,
\* the helper or the clipboard, the secret is off the clipboard in the end,
\* unless the whole delay went by between the report and the delivery, or the
\* compositor did not take the clearing: nobody looks at that, or tries it again.
SecretLeaves ==
    \A c \in Copy \ Forever : selection = c ~> selection # c \/ c \in late \cup stuck

============================================================================
