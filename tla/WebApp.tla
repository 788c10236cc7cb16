-------------------------------- MODULE WebApp --------------------------------
(***************************************************************************)
(* The review app in the browser (web/src/app.ts): the page named by the   *)
(* hash is fetched and painted by asynchronous renders that overlap, a     *)
(* timer starts one every five seconds, and the models page launches and   *)
(* follows benchmarks.  The server is what its answers show: the batches   *)
(* it knows, which a restart forgets (api/app.py), and failed requests.    *)
(***************************************************************************)
EXTENDS Integers, FiniteSets, FiniteSetsExt

CONSTANTS
  Routes,          \* records with a view and an argument
  Models,          \* model slugs
  MaxSelected,     \* the size modelSelection may reach
  MaxRenders,      \* bound: renders under way at once
  MaxBatches,      \* bound: batches the server starts
  MaxFailures,     \* bound: requests that fail for want of a connection
  MaxNavigations   \* bound: times the user changes the hash

ASSUME WebAssumption ==
  /\ \A r \in Routes : DOMAIN r = {"view", "arg"}
  /\ \E r \in Routes : r.view = "overview"
  /\ MaxSelected \in Nat \ {0}
  /\ MaxRenders \in Nat \ {0}

VARIABLES
  hash,            \* location.hash, parsed
  changed,         \* a hashchange event not yet handled
  currentRoute,    \* the route of the latest render
  renders,         \* renders under way, by slot
  screen,          \* what #view shows, and the route of the render that painted it
  focused,         \* the focus is in an input or a select
  selection,       \* modelSelection
  post,            \* the benchmark request under way; benchInFlight is post # NoPost
  stored,          \* sessionStorage["bench-batch"], 0 when absent
  batches,         \* the batches the server knows
  started,         \* bound: batches started so far
  failures,
  navigations

browser == <<hash, changed, currentRoute, renders, screen, focused, selection, post, stored>>
server == <<batches, started>>
vars == <<browser, server, failures, navigations>>

Slots == 1..MaxRenders
\* The page of a route that matches nothing else.
Overview == CHOOSE r \in Routes : r.view = "overview"

NoRender == [stage |-> "idle"]
NoPost == [stage |-> "none", batch |-> 0]

Blank == [kind |-> "blank", route |-> Overview, by |-> Overview, batch |-> 0, picker |-> FALSE]

\* What a render knows before its first await; renderModels reads the batch id.
Begun(route, batch) ==
  [stage |-> "data", route |-> route, batch |-> IF route.view = "models" THEN batch ELSE 0,
   configured |-> FALSE]

Init ==
  /\ hash = Overview
  /\ changed = FALSE
  /\ currentRoute = Overview
  /\ renders = [s \in Slots |-> IF s = 1 THEN Begun(Overview, 0) ELSE NoRender]
  /\ screen = Blank
  /\ focused = FALSE
  /\ selection = {}
  /\ post = NoPost
  /\ stored = 0
  /\ batches = {}
  /\ started = 0
  /\ failures = 0
  /\ navigations = 0

Fail ==
  /\ failures < MaxFailures
  /\ failures' = failures + 1

-------------------------------------------------------------------------------
(***************************************************************************)
(* Renders.                                                                *)
(***************************************************************************)
\* void render(), with the hash and the stored batch of that moment.
Render(h, batch) ==
  LET free == {s \in Slots : renders[s] = NoRender}
  IN  /\ free # {}
      /\ renders' = [renders EXCEPT ![Min(free)] = Begun(h, batch)]
      /\ currentRoute' = h

\* Mutant: the runs page keeps the filters it was fetched with.
PageAsFetched(route, batch, configured) ==
  [kind |-> "page", route |-> route, by |-> route, batch |-> batch, picker |-> configured]

\* The runs page takes its filters from the hash of the moment it is painted.
Page(route, batch, configured) ==
  [kind |-> "page", route |-> IF route.view = "runs" THEN hash ELSE route, by |-> route,
   batch |-> batch, picker |-> configured]

\* The check each page makes after its last await.
Fits(route) == IF route.view = "runs" THEN hash.view = "runs" ELSE hash = route

\* A render ends: its page is painted, or dropped if the route has changed.
Paint(s, batch, configured) ==
  /\ renders' = [renders EXCEPT ![s] = NoRender]
  /\ screen' = IF Fits(renders[s].route) THEN Page(renders[s].route, batch, configured)
               ELSE screen

\* The requests of the page are answered, the catalog of models included when
\* the server has a key; the models page then asks for the batch it read.
DataArrives(s) ==
  /\ renders[s].stage = "data"
  /\ \E configured \in {FALSE, renders[s].route.view = "models"} :
       IF renders[s].batch = 0
       THEN Paint(s, 0, configured)
       ELSE /\ renders' = [renders EXCEPT ![s].stage = "batch", ![s].configured = configured]
            /\ UNCHANGED screen
  /\ UNCHANGED <<hash, changed, currentRoute, focused, selection, post, stored, server,
                 failures, navigations>>

\* render()'s catch: the error takes the place of whatever is shown.
DataFails(s) ==
  /\ renders[s].stage = "data"
  /\ Fail
  /\ renders' = [renders EXCEPT ![s] = NoRender]
  /\ screen' = [Blank EXCEPT !.kind = "error", !.route = hash, !.by = renders[s].route]
  /\ UNCHANGED <<hash, changed, currentRoute, focused, selection, post, stored, server,
                 navigations>>

BatchArrives(s) ==
  /\ renders[s].stage = "batch"
  /\ renders[s].batch \in batches
  /\ Paint(s, renders[s].batch, renders[s].configured)
  /\ UNCHANGED <<hash, changed, currentRoute, focused, selection, post, stored, server,
                 failures, navigations>>

\* The server does not know the batch, or cannot be reached: whatever batch is
\* stored by now is forgotten.
BatchMissing(s) ==
  /\ renders[s].stage = "batch"
  /\ \/ renders[s].batch \notin batches /\ UNCHANGED failures
     \/ Fail
  /\ stored' = 0
  /\ Paint(s, 0, renders[s].configured)
  /\ UNCHANGED <<hash, changed, currentRoute, focused, selection, post, server, navigations>>

RenderStep(s) == DataArrives(s) \/ DataFails(s) \/ BatchArrives(s) \/ BatchMissing(s)

\* Mutant: the models page is not refreshed.
PollPages ==
  /\ currentRoute.view \in {"overview", "runs"}
  /\ ~focused
  /\ Render(hash, stored)
  /\ UNCHANGED <<hash, changed, screen, focused, selection, post, stored, server, failures,
                 navigations>>

\* The five-second timer.
Poll ==
  /\ currentRoute.view \in {"overview", "runs", "models"}
  /\ ~focused
  /\ Render(hash, stored)
  /\ UNCHANGED <<hash, changed, screen, focused, selection, post, stored, server, failures,
                 navigations>>

-------------------------------------------------------------------------------
(***************************************************************************)
(* The user.                                                               *)
(***************************************************************************)
Navigate(r) ==
  /\ r # hash
  /\ navigations < MaxNavigations
  /\ navigations' = navigations + 1
  /\ hash' = r
  /\ changed' = TRUE
  /\ UNCHANGED <<currentRoute, renders, screen, focused, selection, post, stored, server,
                 failures>>

HashChange ==
  /\ changed
  /\ changed' = FALSE
  /\ Render(hash, stored)
  /\ UNCHANGED <<hash, screen, focused, selection, post, stored, server, failures, navigations>>

\* A filter of the runs page replaces the hash, without an event, and renders.
ApplyFilters(r) ==
  /\ screen.kind = "page" /\ screen.route.view = "runs"
  /\ r # hash /\ r.view = "runs"
  /\ navigations < MaxNavigations
  /\ navigations' = navigations + 1
  /\ hash' = r
  /\ Render(r, stored)
  /\ UNCHANGED <<changed, screen, focused, selection, post, stored, server, failures>>

Focus ==
  /\ focused' = ~focused
  /\ UNCHANGED <<hash, changed, currentRoute, renders, screen, selection, post, stored, server,
                 failures, navigations>>

\* Mutant: a chip can be selected however many are.
ToggleAnyway(m) ==
  /\ screen.picker
  /\ selection' = IF m \in selection THEN selection \ {m} ELSE selection \cup {m}
  /\ Render(hash, stored)
  /\ UNCHANGED <<hash, changed, screen, focused, post, stored, server, failures, navigations>>

\* A click on a chip of the picker; a full selection takes no more.
Toggle(m) ==
  /\ screen.picker
  /\ selection' = IF m \in selection THEN selection \ {m}
                  ELSE IF Cardinality(selection) < MaxSelected THEN selection \cup {m}
                  ELSE selection
  /\ Render(hash, stored)
  /\ UNCHANGED <<hash, changed, screen, focused, post, stored, server, failures, navigations>>

-------------------------------------------------------------------------------
(***************************************************************************)
(* Benchmarks.                                                             *)
(***************************************************************************)
Launch ==
  /\ screen.picker
  /\ post = NoPost
  /\ selection # {}
  /\ post' = [NoPost EXCEPT !.stage = "sent"]
  /\ UNCHANGED <<hash, changed, currentRoute, renders, screen, focused, selection, stored,
                 server, failures, navigations>>

\* The server refuses, for want of a key, a scenario or a connection, or
\* registers a batch.
Submit ==
  /\ post.stage = "sent"
  /\ \/ /\ post' = [NoPost EXCEPT !.stage = "refused"]
        /\ UNCHANGED server
     \/ /\ started < MaxBatches
        /\ started' = started + 1
        /\ batches' = batches \cup {started'}
        /\ post' = [stage |-> "accepted", batch |-> started']
  /\ UNCHANGED <<hash, changed, currentRoute, renders, screen, focused, selection, stored,
                 failures, navigations>>

\* The answer arrives, or is lost; the page is rendered either way.
LaunchEnds ==
  /\ post.stage \in {"refused", "accepted"}
  /\ \/ /\ stored' = IF post.stage = "accepted" THEN post.batch ELSE stored
        /\ UNCHANGED failures
     \/ Fail /\ UNCHANGED stored
  /\ post' = NoPost
  /\ Render(hash, stored')
  /\ UNCHANGED <<hash, changed, screen, focused, selection, server, navigations>>

\* The benchmarks of the server live in its memory.
Restart ==
  /\ batches # {}
  /\ Fail
  /\ batches' = {}
  /\ UNCHANGED <<browser, started, navigations>>

Next ==
  \/ \E s \in Slots : RenderStep(s)
  \/ Poll
  \/ HashChange
  \/ \E r \in Routes : Navigate(r) \/ ApplyFilters(r)
  \/ Focus
  \/ \E m \in Models : Toggle(m)
  \/ Launch
  \/ Submit
  \/ LaunchEnds
  \/ Restart

Spec == Init /\ [][Next]_vars

\* Requests are answered or fail, and events and timers are served.
FairSpec ==
  /\ Spec
  /\ \A s \in Slots : WF_vars(RenderStep(s))
  /\ WF_vars(Poll)
  /\ WF_vars(HashChange)
  /\ WF_vars(Submit)
  /\ WF_vars(LaunchEnds)

===============================================================================
