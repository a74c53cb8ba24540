------------------------------- MODULE Console -------------------------------
(***************************************************************************)
(* The Studio's console in the browser: one button, one screen, and the    *)
(* sources that feed it.  A run started on the engine server is streamed   *)
(* (LiveSource) through a pacer; a browser run or a recording is played    *)
(* back (ReplaySource); a stored run can be shown at once.  Between a      *)
(* click and the server's answer, and between two timers, anything else    *)
(* the reader does may happen.                                             *)
(***************************************************************************)
EXTENDS Naturals, Sequences, SequencesExt, FiniteSets

CONSTANTS
    Scripts,      \* the runs there are to show: the events each one consists of
    MaxSources,   \* bound: runs and recordings put on the screen in a session
    MaxClicks     \* bound: clicks on the button, and runs opened

\* An event is its stage and its kind.
IsEvent(ev) == DOMAIN ev = {"stage", "kind"}

Ends(ev) == ev.stage = "run" /\ ev.kind \in {"end", "error"}

StartsStage(ev) == ev.kind = "start" /\ ev.stage # "run"

\* What leaves a stage of an event at something else than running.
Closes(ev, stage) == ev.stage = stage /\ ev.kind \in {"end", "warn", "error"}

\* A run ends with its last event and no sooner, and has closed by then every
\* stage it started, if the server could store all its events: so emit
\* RunManager.start, Tracer.stage, and localRun in the browser.
ASSUME ScriptsAssumption ==
    \A r \in DOMAIN Scripts :
        /\ Scripts[r] \in Seq(Range(Scripts[r])) /\ Scripts[r] # << >>
        /\ \A n \in DOMAIN Scripts[r] :
            LET ev == Scripts[r][n] IN
            /\ IsEvent(ev)
            /\ Ends(ev) <=> n = Len(Scripts[r])
            /\ StartsStage(ev) =>
                \E m \in DOMAIN Scripts[r] : m > n /\ Closes(Scripts[r][m], ev.stage)

VARIABLES
    online,       \* did the last probe find the engine server?
    starts,       \* requests to start a run that the server has not answered
    opens,        \* stored runs asked for and not yet received
    src,          \* the sources attached so far
    running,      \* the handle the button stops, or NoSource
    button,       \* what the button reads
    screen,       \* the run state every panel reads
    clicks,
    overlapped    \* was anything put on the screen while a start was awaited?

consoleVars == <<online, starts, opens, src, running, button, screen, clicks, overlapped>>

NoSource == 0

-----------------------------------------------------------------------------
(* The run model: one event folded into one state.                         *)

EmptyState == [events |-> << >>, status |-> "idle", stages |-> << >>]

\* What an event of a stage makes of the stage's status.
StageStatus(old, kind) ==
    CASE kind = "start" -> "running"
      [] kind = "end" /\ old = "running" -> "done"
      [] kind \in {"warn", "error"} -> kind
      [] OTHER -> old

RunStatus(old, ev) ==
    IF ev.stage # "run" THEN IF old = "idle" THEN "running" ELSE old
    ELSE CASE ev.kind = "start" -> "running"
           [] ev.kind = "end" -> "done"
           [] ev.kind = "error" -> "error"
           [] OTHER -> old

StageOf(s, stage) == IF stage \in DOMAIN s.stages THEN s.stages[stage] ELSE "pending"

\* The n-th event of source k, folded into s.
Apply(s, k, n, ev) ==
    [events |-> Append(s.events, <<k, n>>),
     status |-> RunStatus(s.status, ev),
     stages |-> IF ev.stage = "run" THEN s.stages
                ELSE [g \in DOMAIN s.stages \cup {ev.stage} |->
                        IF g = ev.stage THEN StageStatus(StageOf(s, g), ev.kind) ELSE s.stages[g]]]

\* The events ns of source k, which runs script r, in their order.
ApplyAll(s, k, r, ns) ==
    LET upTo[i \in 0..Len(ns)] ==
            IF i = 0 THEN s ELSE Apply(upTo[i - 1], k, ns[i], Scripts[r][ns[i]])
    IN upTo[Len(ns)]

-----------------------------------------------------------------------------
(* Sources.  `last` is the last event received, `queue` what the pacer     *)
(* holds back, `timer` its pending timeout (a replay's next step),         *)
(* `finishing` the callback it is to call when it has drained.             *)

Source(kind, r) ==
    [kind |-> kind, run |-> r, last |-> 0, out |-> 0, queue |-> << >>,
     timer |-> FALSE, finishing |-> FALSE, state |-> "open"]

Live(k) == src[k].kind = "live"
Script(k) == Scripts[src[k].run]
\* (The operators named Mutant... are not part of the model: each is what the
\* next definition would be with a bug a property is there to catch.)
\* Closes the stream and leaves the pacer's timer running.
MutantStopped(s) == [s EXCEPT !.state = "stopped"]

Stopped(s) == [s EXCEPT !.state = "stopped", !.queue = << >>, !.timer = FALSE]

\* src with the source the button holds, if any, told to stop.
Halted == [k \in DOMAIN src |-> IF k = running THEN Stopped(src[k]) ELSE src[k]]

\* The run is over as far as the console is concerned.
OnDone ==
    /\ running' = NoSource
    /\ button' = "Run"

-----------------------------------------------------------------------------
(* The button.                                                             *)

\* A recording: its first event is shown in the call that attaches it.
Played(r) ==
    [Source("replay", r) EXCEPT !.last = 1, !.out = 1, !.timer = TRUE]

Overlap == overlapped' = (overlapped \/ starts > 0)

\* Stop: the source is silenced and the console is as after a run.
ClickStop ==
    /\ running # NoSource
    /\ clicks < MaxClicks
    /\ clicks' = clicks + 1
    /\ src' = Halted
    /\ OnDone
    /\ UNCHANGED <<online, starts, opens, screen, overlapped>>

\* Run with a server: the screen is cleared, and the request is awaited.
ClickRunLive ==
    /\ running = NoSource
    /\ online
    /\ clicks < MaxClicks
    /\ clicks' = clicks + 1
    /\ Overlap
    /\ screen' = EmptyState
    /\ button' = "Stop"
    /\ starts' = starts + 1
    /\ UNCHANGED <<online, opens, src, running>>

\* Run without a server: the browser's engines compute the run, which is
\* then played; there is none unless the question is a benchmark record's.
ClickRunLocal ==
    /\ running = NoSource
    /\ ~online
    /\ clicks < MaxClicks
    /\ clicks' = clicks + 1
    /\ Overlap
    /\ \/ /\ screen' = EmptyState
          /\ OnDone
          /\ UNCHANGED src
       \/ \E r \in DOMAIN Scripts :
            LET k == Len(src) + 1 IN
            /\ k <= MaxSources
            /\ src' = Append(src, Played(r))
            /\ screen' = ApplyAll(EmptyState, k, r, <<1>>)
            /\ running' = k
            /\ button' = "Stop"
    /\ UNCHANGED <<online, starts, opens>>

\* The server has made the run: its stream is attached.
StartAnswered(r) ==
    LET k == Len(src) + 1 IN
    /\ starts > 0
    /\ k <= MaxSources
    /\ starts' = starts - 1
    /\ src' = Append(src, Source("live", r))
    /\ running' = k
    /\ UNCHANGED <<online, opens, button, screen, clicks, overlapped>>

\* The server refused it, or gave no answer in fifteen seconds.
StartRefused ==
    /\ starts > 0
    /\ starts' = starts - 1
    /\ OnDone
    /\ UNCHANGED <<online, opens, src, screen, clicks, overlapped>>

-----------------------------------------------------------------------------
(* Stored runs and recordings.                                             *)

OpenRun ==
    /\ clicks < MaxClicks
    /\ clicks' = clicks + 1
    /\ opens' = opens + 1
    /\ UNCHANGED <<online, starts, src, running, button, screen, overlapped>>

OpenFailed ==
    /\ opens > 0
    /\ opens' = opens - 1
    /\ UNCHANGED <<online, starts, src, running, button, screen, clicks, overlapped>>

\* A recording arrives: whatever runs is stopped, and it is played.
PlayArrives(r) ==
    LET k == Len(src) + 1 IN
    /\ opens > 0
    /\ k <= MaxSources
    /\ opens' = opens - 1
    /\ Overlap
    /\ src' = Append(Halted, Played(r))
    /\ screen' = ApplyAll(EmptyState, k, r, <<1>>)
    /\ running' = k
    /\ button' = "Stop"
    /\ UNCHANGED <<online, starts, clicks>>

\* A stored run arrives, finished or not, and is shown as far as it goes.
ShowArrives(r, upTo) ==
    LET k == Len(src) + 1
        shown == [n \in 1..upTo |-> n] IN
    /\ opens > 0
    /\ k <= MaxSources
    /\ opens' = opens - 1
    /\ Overlap
    /\ src' = Append(Halted, [Source("stored", r) EXCEPT !.last = upTo, !.out = upTo, !.state = "over"])
    /\ screen' = ApplyAll(EmptyState, k, r, shown)
    /\ OnDone
    /\ UNCHANGED <<online, starts, clicks>>

-----------------------------------------------------------------------------
(* The pacer: a stage's start may have to wait for the one before it.       *)

\* Where the next release stops: before the second stage start in the queue.
Releasable(k) ==
    LET q == src[k].queue
        later == {i \in DOMAIN q : i > 1 /\ StartsStage(Script(k)[q[i]])} IN
    IF later = {} THEN q
    ELSE SubSeq(q, 1, (CHOOSE i \in later : \A j \in later : i <= j) - 1)

\* An event that has no reason to wait overtakes those that do.
MutantPushed(s, n, held) ==
    IF held /\ s.timer THEN [s EXCEPT !.queue = Append(@, n)]
    ELSE IF held THEN [s EXCEPT !.queue = <<n>>, !.timer = TRUE]
    ELSE [s EXCEPT !.out = @ + 1]

\* A new event goes straight through, or is held back with a timer set;
\* behind a pending timer it queues.
Pushed(s, n, held) ==
    IF s.timer THEN [s EXCEPT !.queue = Append(@, n)]
    ELSE IF held THEN [s EXCEPT !.queue = <<n>>, !.timer = TRUE]
    ELSE [s EXCEPT !.out = @ + 1]

\* Leaves it to the pacer, which may have nothing left to release.
MutantFinishLater(s) == [s EXCEPT !.state = "closed", !.finishing = TRUE]

\* The source says it is done: at once, or when the pacer has drained.
Finish(s) ==
    IF s.queue = << >> /\ ~s.timer THEN [s EXCEPT !.state = "over"]
    ELSE [s EXCEPT !.state = "closed", !.finishing = TRUE]

\* What source k does to the console when it has become s: its end is the
\* console's, whichever source the button holds.
Becomes(k, s) ==
    /\ src' = [src EXCEPT ![k] = s]
    /\ IF s.state = "over" THEN OnDone ELSE UNCHANGED <<running, button>>

\* The last event seen is the stream's position: one seen before is dropped.
Fresh(k, n) == n > src[k].last

\* The stream delivers event n; after a reconnection it may be an old one.
Receive(k, n) ==
    LET ev == Script(k)[n]
        seen == [src[k] EXCEPT !.last = n] IN
    /\ Live(k)
    /\ src[k].state = "open"
    /\ Fresh(k, n)
    /\ \E held \in IF StartsStage(ev) THEN BOOLEAN ELSE {FALSE} :
        LET after == Pushed(seen, n, held) IN
        /\ Becomes(k, IF Ends(ev) THEN Finish(after) ELSE after)
        /\ screen' = IF after.out > src[k].out THEN Apply(screen, k, n, ev) ELSE screen
    /\ UNCHANGED <<online, starts, opens, clicks, overlapped>>

\* The stream is closed for good: the server no longer knows the run.
GivenUp(k) ==
    /\ Live(k)
    /\ src[k].state = "open"
    /\ Becomes(k, Finish(src[k]))
    /\ UNCHANGED <<online, starts, opens, screen, clicks, overlapped>>

\* The pacer's timer: what may be released is shown, and the rest waits.
TimerFires(k) ==
    LET released == Releasable(k)
        left == SubSeq(src[k].queue, Len(released) + 1, Len(src[k].queue))
        after == [src[k] EXCEPT !.queue = left, !.timer = left # << >>, !.out = @ + Len(released)] IN
    /\ Live(k)
    /\ src[k].timer
    /\ Becomes(k, IF left = << >> /\ after.finishing
                  THEN [after EXCEPT !.state = "over", !.finishing = FALSE] ELSE after)
    /\ screen' = ApplyAll(screen, k, src[k].run, released)
    /\ UNCHANGED <<online, starts, opens, clicks, overlapped>>

\* A playback's timer: the next event, or the end.
ReplayStep(k) ==
    LET n == src[k].last + 1 IN
    /\ src[k].kind = "replay"
    /\ src[k].timer
    /\ IF n > Len(Script(k))
       THEN /\ Becomes(k, [src[k] EXCEPT !.timer = FALSE, !.state = "over"])
            /\ UNCHANGED screen
       ELSE /\ Becomes(k, [src[k] EXCEPT !.last = n, !.out = n])
            /\ screen' = Apply(screen, k, n, Script(k)[n])
    /\ UNCHANGED <<online, starts, opens, clicks, overlapped>>

-----------------------------------------------------------------------------
\* Every eight seconds the console asks whether the engine server is there.
Probe ==
    /\ online' = ~online
    /\ UNCHANGED <<starts, opens, src, running, button, screen, clicks, overlapped>>

ConsoleInit ==
    /\ online \in BOOLEAN
    /\ starts = 0
    /\ opens = 0
    /\ src = << >>
    /\ running = NoSource
    /\ button = "Run"
    /\ screen = EmptyState
    /\ clicks = 0
    /\ overlapped = FALSE

\* What the reader does.
Reader ==
    \/ ClickStop
    \/ ClickRunLive
    \/ ClickRunLocal
    \/ OpenRun

\* What the server answers.
Answers ==
    \/ \E r \in DOMAIN Scripts :
        \/ StartAnswered(r)
        \/ PlayArrives(r)
        \/ \E upTo \in DOMAIN Scripts[r] : ShowArrives(r, upTo)
    \/ StartRefused
    \/ OpenFailed

\* What the sources do.
Feed(k) ==
    \/ \E n \in 1..Len(Script(k)) : n <= src[k].last + 1 /\ Receive(k, n)
    \/ GivenUp(k)
    \/ TimerFires(k)
    \/ ReplayStep(k)

ConsoleNext ==
    \/ Reader
    \/ Answers
    \/ \E k \in DOMAIN src : Feed(k)
    \/ Probe

\* A request is answered, refused or times out; a stream delivers, or is
\* given up (RunStream says when its end is sure to come); timers fire.
ConsoleSpec ==
    /\ ConsoleInit
    /\ [][ConsoleNext]_consoleVars
    /\ WF_consoleVars(StartRefused \/ \E r \in DOMAIN Scripts : StartAnswered(r))
    /\ \A k \in 1..MaxSources : WF_consoleVars(k \in DOMAIN src /\ Feed(k))

------------------------------------------------------------------------------
(* What the console promises its reader.                                    *)

\* A source that was stopped, by the button or by another run taking the
\* screen, shows nothing more: neither its stream nor the pacer's timer
\* (api.ts: stop of LiveSource, ReplaySource and Pacer).
StoppedIsSilent ==
    [][\A k \in DOMAIN src : src[k].state = "stopped" => src'[k] = src[k]]_src

\* When the screen says the run is over, the whole run is on it: no event is
\* still held back and no stage is left running, as long as nothing else was
\* put on the screen while a start was awaited (console.ts:225-298, api.ts).
OverMeansWhole ==
    ~overlapped /\ screen.status \in {"done", "error"} =>
        /\ Len(screen.events) = Len(Script(screen.events[1][1]))
        /\ \A g \in DOMAIN screen.stages : screen.stages[g] # "running"

\* The button comes back: no run, refused request, lost server or stream
\* leaves the console reading Stop for good (console.ts:270-330).
ButtonComesBack == (button = "Stop") ~> (button = "Run")

==============================================================================
