------------------------------ MODULE Browser ------------------------------
(***************************************************************************)
(* A passkey request on its way from Chromium to the consent desk and back:*)
(* the extension's service worker (extension/sw.js), the ceremony page that*)
(* keeps it alive, the native messaging host (blackbag-cli/src/            *)
(* passkey_host.rs), one process for each ceremony, and what they see of   *)
(* the agent's desk.                                                       *)
(*                                                                         *)
(* The worker loses its memory whenever no ceremony page holds a port to   *)
(* it; the host reads one message at a time and does not look at its input *)
(* while it waits for the person.  Time is counted in the host's polls; the*)
(* host gives up after Ceiling of them, sooner than the agent's own limit  *)
(* on a ceremony.  One that was refused, has expired or was collected is   *)
(* none: the agent answers each of them alike.  Any question to the agent  *)
(* may fail or time out, and one that nobody waits for any more is served  *)
(* all the same when its turn comes.                                       *)
(***************************************************************************)
EXTENDS Integers, FiniteSets

CONSTANTS
    Request,     \* the requests Chromium hands over
    Ceiling,     \* WAIT_CEILING, in polls
    Beat         \* HEARTBEAT, in polls

VARIABLES
    chrome,      \* each request, as Chromium sees it
    jobs,        \* the worker's memory: parked requests
    live,        \* the worker's memory: ceremonies begun and not cancelled
    page,        \* each ceremony page: "none", "open", "port" or "closed"
    work,        \* each answer() under way: what it waits for
    host,        \* each ceremony's native host: where its loop is
    polls,       \* how often that host has asked, while it collects
    desk,        \* the agent: each request's ceremony, "late" while the question that
                 \* makes it is still to be served and has nobody waiting
    cancels,     \* cancel messages on the way, each through a host of its own
    missed       \* history: ceremonies nobody could withdraw

workerVars == <<jobs, live, work>>
hostVars == <<host, polls>>
vars == <<chrome, page, workerVars, hostVars, desk, cancels, missed>>

Init ==
    /\ chrome = [r \in Request |-> "idle"]
    /\ jobs = {} /\ live = {}
    /\ page = [r \in Request |-> "none"]
    /\ work = [r \in Request |-> "none"]
    /\ host = [r \in Request |-> "none"] /\ polls = [r \in Request |-> 0]
    /\ desk = [r \in Request |-> "none"]
    /\ cancels = {} /\ missed = {}

\* A ceremony that waits on the desk has lost whoever could take it down.
Miss(r) == missed' = missed \cup {r}

----------------------------------------------------------------------------
(* The worker and the ceremony page.                                       *)

\* park: record the job and put the page in front of the person.
Park(r) ==
    /\ chrome[r] = "idle"
    /\ chrome' = [chrome EXCEPT ![r] = "asked"]
    /\ jobs' = jobs \cup {r}
    /\ page' = [page EXCEPT ![r] = "open"]
    /\ UNCHANGED <<live, work, hostVars, desk, cancels, missed>>

\* onConnect: run the job, or tell the page that there is none any more.
Connect(r) ==
    /\ page[r] = "open"
    /\ \/ /\ r \in jobs
          /\ jobs' = jobs \ {r}
          /\ page' = [page EXCEPT ![r] = "port"]
          /\ work' = [work EXCEPT ![r] = "begin"]
          /\ host' = [host EXCEPT ![r] = "begin"]
          /\ UNCHANGED missed
       \/ /\ r \notin jobs
          /\ page' = [page EXCEPT ![r] = "closed"]
          /\ UNCHANGED <<jobs, work, host, missed>>
    /\ UNCHANGED <<chrome, live, polls, desk, cancels>>

\* begin was answered: the ceremony is live, wait for the human.
Begun(r) ==
    /\ work[r] = "begin" /\ host[r] = "registered"
    /\ live' = live \cup {r}
    /\ work' = [work EXCEPT ![r] = "collect"]
    /\ host' = [host EXCEPT ![r] = "poll"]
    /\ UNCHANGED <<chrome, jobs, page, polls, desk, cancels, missed>>

\* answer: complete the request with what came back, or with NotAllowedError
\* when the ceremony was cancelled meanwhile, and close the port.  Chromium
\* takes no answer for a request it has given up.
Complete(r) ==
    /\ host[r] \in {"result", "error", "stand aside"}
    /\ work[r] \in {"begin", "collect"}
    /\ chrome' = [chrome EXCEPT ![r] =
           IF @ # "asked" THEN @
           ELSE IF host[r] = "result" /\ r \in live THEN "signed" ELSE "refused"]
    /\ live' = live \ {r}
    /\ work' = [work EXCEPT ![r] = "none"]
    /\ page' = [page EXCEPT ![r] = "closed"]
    /\ host' = [host EXCEPT ![r] = "none"]
    /\ UNCHANGED <<jobs, polls, desk, cancels, missed>>

\* Mutant: the cancellation is not passed on.
CanceledQuietly(r) ==
    /\ chrome[r] = "asked"
    /\ chrome' = [chrome EXCEPT ![r] = "cancelled"]
    /\ jobs' = jobs \ {r} /\ live' = live \ {r}
    /\ IF r \in live THEN UNCHANGED missed ELSE Miss(r)
    /\ UNCHANGED <<cancels, page, work, hostVars, desk>>

\* onRequestCanceled: Chromium's timeout, or the page's abort.  Only a ceremony
\* that is live has a nonce to cancel; a job not begun yet is dropped; one that
\* has asked to begin and is not answered yet goes on.
Canceled(r) ==
    /\ chrome[r] = "asked"
    /\ chrome' = [chrome EXCEPT ![r] = "cancelled"]
    /\ jobs' = jobs \ {r} /\ live' = live \ {r}
    /\ IF r \in live
       THEN cancels' = cancels \cup {r} /\ UNCHANGED missed
       ELSE Miss(r) /\ UNCHANGED cancels
    /\ UNCHANGED <<page, work, hostVars, desk>>

\* The person closes the ceremony page.
ClosePage(r) ==
    /\ page[r] \in {"open", "port"}
    /\ page' = [page EXCEPT ![r] = "closed"]
    /\ UNCHANGED <<chrome, workerVars, hostVars, desk, cancels, missed>>

\* Chromium tears the worker down when no port keeps it: its maps are gone, and
\* with its ports the hosts' other ends.
TearDown ==
    /\ \A r \in Request : page[r] # "port"
    /\ jobs' = {} /\ live' = {}
    /\ work' = [r \in Request |-> "none"]
    /\ host' = [r \in Request |->
                  CASE host[r] = "poll" -> "orphan"
                    [] host[r] = "begin" -> "begin orphan"
                    [] OTHER -> IF host[r] \in {"orphan", "begin orphan"} THEN host[r] ELSE "none"]
    /\ missed' = missed \cup {r \in Request : work[r] # "none"}
    /\ UNCHANGED <<chrome, page, polls, desk, cancels>>

----------------------------------------------------------------------------
(* The native host.                                                        *)

\* The host answers with an error, or to nobody.
HostError(r) ==
    host' = [host EXCEPT ![r] = IF @ \in {"orphan", "begin orphan"} THEN "none" ELSE "error"]

\* collect_until_answered returns, and its clock with it.
Collected(r) == polls' = [polls EXCEPT ![r] = 0]

\* Incoming::Begin: PasskeyBegin is answered, or refused, or not published or not
\* answered in time.  In the last two the page has its error, and the ceremony
\* comes to the desk with a nonce that nobody was told.
HostBegin(r) ==
    /\ host[r] \in {"begin", "begin orphan"}
    /\ \/ /\ desk' = [desk EXCEPT ![r] = "waiting"]
          /\ host' = [host EXCEPT ![r] = IF @ = "begin" THEN "registered" ELSE "none"]
          /\ UNCHANGED missed
       \/ HostError(r) /\ UNCHANGED <<desk, missed>>
       \/ HostError(r) /\ desk' = [desk EXCEPT ![r] = "late"] /\ Miss(r)
    /\ UNCHANGED <<chrome, workerVars, page, polls, cancels>>

HostCollectAnswer(r, answer) ==
    host' = [host EXCEPT ![r] =
        IF @ = "orphan" THEN "none"
        ELSE CASE answer = "approved" -> "result"
               [] answer = "deferred" -> "stand aside"
               [] OTHER -> "error"]

\* collect_until_answered, when the agent has an answer: a result, the request
\* to stand aside, or an error, a refused or expired ceremony's too.  It is
\* taken off the desk whether or not anyone is left to hear it.
HostCollect(r) ==
    /\ host[r] \in {"poll", "orphan"} /\ desk[r] # "waiting"
    /\ HostCollectAnswer(r, desk[r])
    /\ desk' = [desk EXCEPT ![r] = "none"]
    /\ Collected(r)
    /\ UNCHANGED <<chrome, workerVars, page, cancels, missed>>

\* A collect that fails or times out is an error to the page.  The ceremony goes on
\* waiting; an answer it had is taken by a question nobody waits for any more, or
\* expires, and nobody sees which.
HostCollectFails(r) ==
    /\ host[r] \in {"poll", "orphan"}
    /\ HostError(r) /\ Collected(r)
    /\ IF desk[r] = "waiting"
       THEN Miss(r) /\ UNCHANGED desk
       ELSE desk' = [desk EXCEPT ![r] = "none"] /\ UNCHANGED missed
    /\ UNCHANGED <<chrome, workerVars, page, cancels>>

\* Mutant: the wait has no ceiling.
HostWaitForever(r) ==
    /\ host[r] \in {"poll", "orphan"} /\ desk[r] = "waiting"
    /\ polls' = [polls EXCEPT ![r] = (@ + 1) % Ceiling]
    /\ UNCHANGED <<chrome, workerVars, page, host, desk, cancels, missed>>

\* No answer yet: give up at the ceiling, and leave the ceremony to the agent;
\* otherwise say so now and then, which is when an orphan finds itself alone.
HostWait(r) ==
    /\ host[r] \in {"poll", "orphan"} /\ desk[r] = "waiting"
    /\ IF polls[r] >= Ceiling
       THEN HostError(r) /\ Collected(r) /\ Miss(r)
       ELSE /\ IF host[r] = "orphan" /\ (polls[r] + 1) % Beat = 0
               THEN host' = [host EXCEPT ![r] = "none"] /\ Collected(r)
               ELSE polls' = [polls EXCEPT ![r] = @ + 1] /\ UNCHANGED host
            /\ UNCHANGED missed
    /\ UNCHANGED <<chrome, workerVars, page, desk, cancels>>

\* Incoming::Cancel, in a host of its own: PasskeyAnswer with approve = false.  A
\* host that cannot start or ask is a failure the worker does not look at.
HostCancel(r) ==
    /\ r \in cancels
    /\ cancels' = cancels \ {r}
    /\ \/ /\ desk' = [desk EXCEPT ![r] = IF @ = "waiting" THEN "none" ELSE @]
          /\ UNCHANGED missed
       \/ Miss(r) /\ UNCHANGED desk
    /\ UNCHANGED <<chrome, workerVars, page, hostVars>>

----------------------------------------------------------------------------
(* The agent's desk.                                                       *)

\* PasskeyBegin, served to a host that gave up: there is a ceremony, or it is refused.
ServedLate(r) ==
    /\ desk[r] = "late"
    /\ desk' \in {[desk EXCEPT ![r] = "waiting"], [desk EXCEPT ![r] = "none"]}
    /\ UNCHANGED <<chrome, workerVars, page, hostVars, cancels, missed>>

\* The person answers (none: refuses), or the ceremony's time is up.
Decide(r, answer) ==
    /\ desk[r] = "waiting"
    /\ desk' = [desk EXCEPT ![r] = answer]
    /\ UNCHANGED <<chrome, workerVars, page, hostVars, cancels, missed>>

Answers == {"approved", "none", "deferred"}

\* What a host does as it runs on; that a collect fails is nothing it is bound to meet.
Hosts(r) == HostBegin(r) \/ HostCollect(r) \/ HostWait(r) \/ HostCancel(r)
Works(r) == Begun(r) \/ Complete(r)

Next ==
    \/ \E r \in Request :
        \/ Park(r) \/ Connect(r) \/ Canceled(r) \/ ClosePage(r)
        \/ Works(r) \/ Hosts(r) \/ HostCollectFails(r) \/ ServedLate(r)
        \/ \E answer \in Answers : Decide(r, answer)
    \/ TearDown

----------------------------------------------------------------------------
\* A ceremony waits on the desk only while the request it belongs to waits in
\* Chromium, or its withdrawal is on the way; the exceptions are a request
\* cancelled before the host had answered begin, a worker torn down once its
\* page was closed, the host's own ceiling, and a begin, a collect or a cancel
\* that failed or timed out: none of the three is tried again.
CeremonyIsWanted ==
    \A r \in Request :
        desk[r] = "waiting" => chrome[r] = "asked" \/ r \in cancels \/ r \in missed

\* A request handed over is answered or cancelled, whether or not the person
\* ever decides, unless they closed the page or the worker was torn down before
\* the page could connect.
RequestsSettle ==
    \A r \in Request :
        chrome[r] = "asked" /\ page[r] = "port" ~> chrome[r] # "asked" \/ page[r] = "closed"

============================================================================
