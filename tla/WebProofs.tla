------------------------------- MODULE WebProofs -------------------------------
(***************************************************************************)
(* Theorems about the review app, for any routes, models and bounds.       *)
(***************************************************************************)
EXTENDS WebProperties, FiniteSetTheorems, TLAPS

(***************************************************************************)
(* The invariant: the types, and that the batch of every render, page and  *)
(* request is one the server has started; a slot that is not idle holds    *)
(* what a render knows.                                                    *)
(***************************************************************************)
Batch == 0..started

Rendering ==
  [stage : {"data", "batch"}, route : Routes, batch : Batch, configured : BOOLEAN]

Shown ==
  [kind : {"blank", "page", "error"}, route : Routes, by : Routes,
   batch : Batch, picker : BOOLEAN]

Request == [stage : {"none", "sent", "refused", "accepted"}, batch : Batch]

Pages == hash \in Routes /\ currentRoute \in Routes /\ changed \in BOOLEAN /\ focused \in BOOLEAN

Selected == selection \subseteq Models /\ IsFiniteSet(selection) /\ Cardinality(selection) <= MaxSelected

Known == started \in Nat /\ stored \in Batch /\ batches \subseteq 1..started

WebInv ==
  /\ Pages /\ Selected /\ Known
  /\ renders \in [Slots -> Rendering \cup {NoRender}]
  /\ screen \in Shown
  /\ post \in Request

-------------------------------------------------------------------------------
(***************************************************************************)
(* What the operators return.                                              *)
(***************************************************************************)
\* The page of an empty hash is one of the routes.
LEMMA OverviewIsARoute == Overview \in Routes
  BY WebAssumption DEF Overview

\* A new render knows a route and a batch that was started.
LEMMA BegunKnows ==
  ASSUME NEW r \in Routes, NEW b \in Batch, started \in Nat
  PROVE  Begun(r, b) \in Rendering
  BY DEF Begun, Rendering, Batch

\* A render under way is not an idle slot.
LEMMA UnderWay ==
  ASSUME WebInv, NEW s \in Slots, renders[s].stage \in {"data", "batch"}
  PROVE  renders[s] \in Rendering
  BY DEF WebInv, NoRender

\* A render is added to the slots, or none is.
LEMMA RenderAdds ==
  ASSUME WebInv, NEW h \in Routes, NEW b \in Batch, Render(h, b)
  PROVE  /\ renders' \in [Slots -> Rendering \cup {NoRender}]
         /\ currentRoute' \in Routes
  BY BegunKnows DEF Render, WebInv, Known

\* What a page shows is typed, and it is the hash's if the render still fits.
LEMMA PageShows ==
  ASSUME WebInv, NEW r \in Routes, NEW b \in Batch, NEW c \in BOOLEAN
  PROVE  /\ Page(r, b, c) \in Shown
         /\ Fits(r) => Page(r, b, c).route = hash
  BY DEF WebInv, Pages, Page, Shown, Fits

\* A render that ends leaves a free slot, and a page of the hash or the old one.
LEMMA PaintShows ==
  ASSUME WebInv, NEW s \in Slots, renders[s] \in Rendering,
         NEW b \in Batch, NEW c \in BOOLEAN, Paint(s, b, c)
  PROVE  /\ renders' \in [Slots -> Rendering \cup {NoRender}]
         /\ screen' \in Shown
         /\ screen' = screen \/ screen'.route = hash
<1>1. renders' \in [Slots -> Rendering \cup {NoRender}]
  BY DEF Paint, WebInv
<1>2. renders[s].route \in Routes
  BY DEF Rendering
<1>3. QED  BY <1>1, <1>2, PageShows DEF Paint, WebInv

-------------------------------------------------------------------------------
(***************************************************************************)
(* The invariant is kept, and a page that appears is the hash's.           *)
(***************************************************************************)
PaintsTheHash == screen' = screen \/ screen'.kind # "page" \/ screen'.route = hash

\* The invariant holds at first.
LEMMA InitWeb == Init => WebInv
<1>1. SUFFICES ASSUME Init
               PROVE  WebInv
  OBVIOUS
<1>2. Overview \in Routes
  BY OverviewIsARoute
<1>3. started \in Nat /\ 0 \in Batch
  BY <1>1 DEF Init, Batch
<1>4. renders \in [Slots -> Rendering \cup {NoRender}]
  BY <1>1, <1>2, <1>3, BegunKnows DEF Init
<1>5. screen \in Shown
  BY <1>1, <1>2, <1>3 DEF Init, Blank, Shown
<1>6. post \in Request
  BY <1>1, <1>3 DEF Init, NoPost, Request
<1>7. Selected
  BY <1>1, FS_EmptySet, WebAssumption DEF Init, Selected
<1>8. Pages /\ Known
  BY <1>1, <1>2, <1>3 DEF Init, Pages, Known
<1>9. QED  BY <1>4, <1>5, <1>6, <1>7, <1>8 DEF WebInv

\* Every step of a render.
LEMMA RenderStepKeeps ==
  ASSUME WebInv, NEW s \in Slots, RenderStep(s)
  PROVE  WebInv' /\ PaintsTheHash
<1>1. renders[s] \in Rendering
  BY UnderWay DEF RenderStep, DataArrives, DataFails, BatchArrives, BatchMissing
<1>2. /\ UNCHANGED <<hash, changed, currentRoute, focused, selection, post, batches, started>>
      /\ stored' \in {stored, 0}
  BY DEF RenderStep, DataArrives, DataFails, BatchArrives, BatchMissing, server
<1>3. Pages' /\ Selected' /\ Known' /\ (post \in Request)' /\ Batch' = Batch
  BY <1>2 DEF WebInv, Pages, Selected, Known, Batch, Request
<1>4. Rendering' = Rendering /\ Shown' = Shown
  BY <1>3 DEF Rendering, Shown
<1>5. /\ renders' \in [Slots -> Rendering \cup {NoRender}]
      /\ screen' \in Shown
      /\ PaintsTheHash
  <2>1. ASSUME NEW b \in Batch, NEW c \in BOOLEAN, Paint(s, b, c)
        PROVE  /\ renders' \in [Slots -> Rendering \cup {NoRender}]
               /\ screen' \in Shown
               /\ PaintsTheHash
    BY <1>1, <2>1, PaintShows DEF PaintsTheHash
  <2>2. 0 \in Batch /\ renders[s].batch \in Batch /\ renders[s].configured \in BOOLEAN
    BY <1>1 DEF Rendering, WebInv, Known, Batch
  <2>3. CASE DataArrives(s)
    <3>1. PICK configured \in BOOLEAN :
            \/ Paint(s, 0, configured)
            \/ /\ renders' = [renders EXCEPT ![s].stage = "batch", ![s].configured = configured]
               /\ UNCHANGED screen
      BY <2>3 DEF DataArrives
    <3>2. CASE Paint(s, 0, configured)
      BY <2>1, <2>2, <3>2
    <3>3. CASE /\ renders' = [renders EXCEPT ![s].stage = "batch", ![s].configured = configured]
               /\ UNCHANGED screen
      <4> DEFINE next == [renders[s] EXCEPT !.stage = "batch", !.configured = configured]
      <4>1. next \in Rendering
        BY <1>1 DEF Rendering
      <4>2. renders' = [renders EXCEPT ![s] = next]
        BY <3>3 DEF WebInv
      <4> HIDE DEF next
      <4>3. QED  BY <3>3, <4>1, <4>2 DEF WebInv, PaintsTheHash
    <3>4. QED  BY <3>1, <3>2, <3>3
  <2>4. CASE DataFails(s)
    <3>1. renders[s].route \in Routes /\ hash \in Routes /\ Overview \in Routes
      BY <1>1, OverviewIsARoute DEF Rendering, WebInv, Pages
    <3>2. screen' = [kind |-> "error", route |-> hash, by |-> renders[s].route,
                     batch |-> 0, picker |-> FALSE]
      BY <2>4 DEF DataFails, Blank
    <3>3. renders' = [renders EXCEPT ![s] = NoRender]
      BY <2>4 DEF DataFails
    <3>4. QED  BY <2>2, <3>1, <3>2, <3>3 DEF WebInv, Shown, PaintsTheHash
  <2>5. CASE BatchArrives(s)
    BY <2>1, <2>2, <2>5 DEF BatchArrives
  <2>6. CASE BatchMissing(s)
    BY <2>1, <2>2, <2>6 DEF BatchMissing
  <2>7. QED  BY <2>3, <2>4, <2>5, <2>6 DEF RenderStep
<1>6. QED  BY <1>3, <1>4, <1>5 DEF WebInv

\* A step that starts a render, if any, and changes no batch.
LEMMA UserStepKeeps ==
  ASSUME WebInv, UNCHANGED <<screen, batches, started>>,
         hash' \in Routes, changed' \in BOOLEAN, focused' \in BOOLEAN,
         Selected', post' \in Request, stored' \in Batch,
         \/ UNCHANGED <<renders, currentRoute>>
         \/ \E h \in Routes, b \in Batch : Render(h, b)
  PROVE  WebInv' /\ PaintsTheHash
<1>1. Batch' = Batch /\ Rendering' = Rendering /\ Shown' = Shown /\ Request' = Request
  BY DEF Batch, Rendering, Shown, Request
<1>2. /\ renders' \in [Slots -> Rendering \cup {NoRender}]
      /\ currentRoute' \in Routes
  BY RenderAdds DEF WebInv, Pages
<1>3. QED  BY <1>1, <1>2 DEF WebInv, Pages, Known, PaintsTheHash

\* Every step.
LEMMA NextWeb ==
  ASSUME WebInv, Next
  PROVE  WebInv' /\ PaintsTheHash
<1>1. CASE \E s \in Slots : RenderStep(s)
  BY <1>1, RenderStepKeeps
<1>2. hash \in Routes /\ changed \in BOOLEAN /\ focused \in BOOLEAN /\ stored \in Batch
  BY DEF WebInv, Pages, Known
<1>3. UNCHANGED selection => Selected'
  BY DEF WebInv, Selected
<1>4. CASE Poll
  BY <1>2, <1>3, <1>4, UserStepKeeps DEF Poll, server, WebInv
<1>5. CASE HashChange
  BY <1>2, <1>3, <1>5, UserStepKeeps DEF HashChange, server, WebInv
<1>6. ASSUME NEW r \in Routes, Navigate(r) \/ ApplyFilters(r)
      PROVE  WebInv' /\ PaintsTheHash
  BY <1>2, <1>3, <1>6, UserStepKeeps DEF Navigate, ApplyFilters, server, WebInv
<1>7. CASE Focus
  BY <1>2, <1>3, <1>7, UserStepKeeps DEF Focus, server, WebInv
<1>8. ASSUME NEW m \in Models, Toggle(m)
      PROVE  WebInv' /\ PaintsTheHash
  <2>1. Selected'
    <3>1. selection \subseteq Models /\ IsFiniteSet(selection) /\ Cardinality(selection) <= MaxSelected
      BY DEF WebInv, Selected
    <3>2. CASE selection' = selection
      BY <1>3, <3>2
    <3>3. CASE m \in selection /\ selection' = selection \ {m}
      <4>1. IsFiniteSet(selection \ {m}) /\ Cardinality(selection \ {m}) = Cardinality(selection) - 1
        BY <3>1, <3>3, FS_RemoveElement
      <4>2. Cardinality(selection) \in Nat /\ MaxSelected \in Nat
        BY <3>1, FS_CardinalityType, WebAssumption
      <4>3. QED  BY <3>1, <3>3, <4>1, <4>2 DEF Selected
    <3>4. CASE /\ m \notin selection /\ Cardinality(selection) < MaxSelected
               /\ selection' = selection \cup {m}
      <4>1. /\ IsFiniteSet(selection \cup {m})
            /\ Cardinality(selection \cup {m}) = Cardinality(selection) + 1
        BY <3>1, <3>4, FS_AddElement
      <4>2. Cardinality(selection) \in Nat /\ MaxSelected \in Nat
        BY <3>1, FS_CardinalityType, WebAssumption
      <4>3. QED  BY <1>8, <3>1, <3>4, <4>1, <4>2 DEF Selected
    <3>5. QED  BY <1>8, <3>2, <3>3, <3>4 DEF Toggle
  <2>2. QED  BY <1>2, <1>8, <2>1, UserStepKeeps DEF Toggle, server, WebInv
<1>9. CASE Launch
  <2>1. post' \in Request
    BY <1>2, <1>9 DEF Launch, NoPost, Request, WebInv, Known, Batch
  <2>2. QED  BY <1>2, <1>3, <1>9, <2>1, UserStepKeeps DEF Launch, server, WebInv
<1>10. CASE Submit
  <2>1. CASE UNCHANGED server
    <3>1. post' \in Request
      BY <1>10, <2>1 DEF Submit, NoPost, Request, WebInv, Known, Batch, server
    <3>2. QED  BY <1>2, <1>3, <1>10, <2>1, <3>1, UserStepKeeps DEF Submit, server, WebInv
  <2>2. CASE /\ started' = started + 1
             /\ batches' = batches \cup {started'}
             /\ post' = [stage |-> "accepted", batch |-> started']
    <3>1. started \in Nat /\ stored \in 0..started /\ batches \subseteq 1..started
      BY DEF WebInv, Known, Batch
    <3>2. Batch \subseteq Batch' /\ started' \in Nat /\ started' \in Batch'
      BY <2>2, <3>1 DEF Batch
    <3>3. Known'
      <4>1. batches' \subseteq 1..started'
        BY <2>2, <3>1
      <4>2. stored' \in Batch'
        BY <1>2, <1>10, <3>2 DEF Submit
      <4>3. QED  BY <3>2, <4>1, <4>2 DEF Known
    <3>4. post' \in Request'
      BY <2>2, <3>2 DEF Request
    <3>5. Rendering \subseteq Rendering' /\ Shown \subseteq Shown'
      BY <3>2 DEF Rendering, Shown
    <3>6. UNCHANGED <<hash, changed, currentRoute, renders, screen, focused, selection>>
      BY <1>10 DEF Submit
    <3>7. Pages' /\ Selected' /\ PaintsTheHash
      BY <1>3, <3>6 DEF WebInv, Pages, PaintsTheHash
    <3>8. (renders \in [Slots -> Rendering \cup {NoRender}])' /\ (screen \in Shown)'
      BY <3>5, <3>6 DEF WebInv
    <3>9. QED  BY <3>3, <3>4, <3>7, <3>8 DEF WebInv
  <2>3. QED  BY <1>10, <2>1, <2>2 DEF Submit
<1>11. CASE LaunchEnds
  <2>1. stored' \in Batch
    BY <1>2, <1>11 DEF LaunchEnds, WebInv, Request
  <2>2. post' \in Request
    BY <1>2, <1>11 DEF LaunchEnds, NoPost, Request, WebInv, Known, Batch
  <2>3. QED  BY <1>2, <1>3, <1>11, <2>1, <2>2, UserStepKeeps DEF LaunchEnds, server, WebInv
<1>12. CASE Restart
  BY <1>12 DEF Restart, browser, WebInv, Pages, Selected, Known, Batch, Rendering, Shown,
     Request, PaintsTheHash
<1>13. QED
  BY <1>1, <1>4, <1>5, <1>6, <1>7, <1>8, <1>9, <1>10, <1>11, <1>12 DEF Next

\* The invariant is kept by every step and by stuttering.
LEMMA WebStep == WebInv /\ [Next]_vars => WebInv' /\ PaintsTheHash
<1>1. SUFFICES ASSUME WebInv, [Next]_vars
               PROVE  WebInv' /\ PaintsTheHash
  OBVIOUS
<1>2. CASE Next
  BY <1>1, <1>2, NextWeb
<1>3. CASE UNCHANGED vars
  BY <1>1, <1>3 DEF vars, browser, server, WebInv, Pages, Selected, Known, Batch, Rendering,
     Shown, Request, PaintsTheHash
<1>4. QED  BY <1>1, <1>2, <1>3

-------------------------------------------------------------------------------
\* Types: every batch a page, a render or the session knows is one the server
\* started, and the selection never exceeds its size, however many renders
\* overlap.
THEOREM WebTypes == Spec => []WebTypeOK
<1>1. WebInv => WebTypeOK
  BY DEF WebInv, WebTypeOK, Pages, Selected, Known, Batch, Rendering, Shown, Request
<1>2. QED  BY <1>1, InitWeb, WebStep, PTL DEF Spec

\* Whatever renders overlap, a page is painted for the hash of that moment.
THEOREM PagesFollowTheHash == Spec => PagesAreOfTheHash
<1>1. PaintsTheHash => [screen' # screen /\ screen'.kind = "page" => screen'.route = hash]_vars
  BY DEF PaintsTheHash
<1>2. QED  BY <1>1, InitWeb, WebStep, PTL DEF Spec, PagesAreOfTheHash

===============================================================================
