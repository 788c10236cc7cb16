----------------------------- MODULE WebProperties -----------------------------
(***************************************************************************)
(* What the review app promises, stated over WebApp.                       *)
(***************************************************************************)
EXTENDS WebApp

(***************************************************************************)
(* The type invariant.                                                     *)
(***************************************************************************)
WebTypeOK ==
  LET shown == [kind : {"blank", "page", "error"}, route : Routes, by : Routes,
                batch : 0..started, picker : BOOLEAN]
      render == [stage : {"data", "batch"}, route : Routes, batch : 0..started,
                 configured : BOOLEAN]
  IN  /\ hash \in Routes /\ currentRoute \in Routes
      /\ changed \in BOOLEAN /\ focused \in BOOLEAN
      /\ renders \in [Slots -> render \cup {NoRender}]
      /\ screen \in shown
      /\ selection \subseteq Models /\ Cardinality(selection) <= MaxSelected
      /\ post.stage \in {"none", "sent", "refused", "accepted"}
      /\ stored \in 0..started /\ batches \subseteq 1..started

(***************************************************************************)
(* Whatever renders overlap, a page is painted for the hash of that very   *)
(* moment, the filters of the runs page included (the checks of parseHash  *)
(* after the last await of every page).                                    *)
(***************************************************************************)
PagesAreOfTheHash ==
  [][screen' # screen /\ screen'.kind = "page" => screen'.route = hash]_vars

(***************************************************************************)
(* A page the timer refreshes catches up: when the user stays on such      *)
(* pages, lets go of the inputs and launches nothing more, the page of the *)
(* hash is shown for good, with the batch that is stored; no answer that   *)
(* came late, failure or restart undoes that (setInterval, renderModels).  *)
(***************************************************************************)
Staying ==
  /\ hash.view \in {"overview", "runs", "models"}
  /\ ~focused
  /\ post = NoPost

CaughtUp ==
  /\ screen.kind = "page"
  /\ screen.route = hash
  /\ screen.route.view = "models" => screen.batch = stored

PolledPagesCatchUp == <>[]Staying => <>[]CaughtUp

(***************************************************************************)
(* web/src/app.ts:496: "A fetch started on one route must never paint      *)
(* after the route changed".                                               *)
(***************************************************************************)
NeverPaintsElsewhere == [][screen' # screen => Fits(screen'.by)]_vars

===============================================================================
