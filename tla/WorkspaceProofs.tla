---------------------------- MODULE WorkspaceProofs ----------------------------
(***************************************************************************)
(* Theorems about Workspace, for any number of runs, any packages, states, *)
(* patches and number of operations, and any hash function: artifacts that *)
(* a log names are there, and a log can be trusted when it verifies.       *)
(***************************************************************************)
EXTENDS WorkspaceProperties, SequenceTheorems, TLAPS

-------------------------------------------------------------------------------
(***************************************************************************)
(* The inductive invariant.                                                *)
(***************************************************************************)
Whole == {c \in Contents : target[c] = "whole"}

\* A file of the store is whole or not there, whatever step its writers are at,
\* and a put that has come to its end has left the content behind.
StoreInv ==
  /\ target \in [Contents -> {"missing", "whole"}]
  /\ put \in [Writers -> [step : PutSteps, content : Contents \cup {{}}]]
  /\ \A w \in Writers : put[w].step # "none" => put[w].content \in Contents
  /\ \A w \in Writers : put[w].step = "put" => put[w].content \in Whole

IsEvent(e) == e = [seq |-> e.seq, prev |-> e.prev, body |-> e.body, hash |-> e.hash]

IsLine(l) ==
  /\ l = [event |-> l.event, parses |-> l.parses, ended |-> l.ended]
  /\ IsEvent(l.event)
  /\ l.parses \in BOOLEAN

IsSeq(s) == s \in Seq(Range(s))

\* The hash of a line is still that of the event once appended under its number,
\* and what it names is held: damage changes bodies and drops lines only.
LineInv(l, bodies, held) ==
  /\ IsLine(l)
  /\ l.event.seq \in 0..(Len(bodies) - 1)
  /\ l.event.hash = Hash(l.event.seq, l.event.prev, bodies[l.event.seq + 1])
  /\ l.event.body.artifacts \subseteq held

LinesInv(s, bodies, held) == \A i \in 1..Len(s) : LineInv(s[i], bodies, held)

\* All that was appended, in a chain.
Chained(s, bodies) ==
  /\ Len(s) = Len(bodies)
  /\ \A i \in 1..Len(s) :
       /\ s[i].event.seq = i - 1
       /\ s[i].event.prev = IF i = 1 THEN Genesis ELSE s[i - 1].event.hash
       /\ s[i].event.body = bodies[i]

Ended(s) == s # <<>> => Last(s).ended

\* A process that runs knows where its log ends.
LogInv(r) ==
  /\ IsSeq(file[r])
  /\ IsSeq(written[r])
  /\ LinesInv(file[r], written[r], Whole)
  /\ r \notin damaged /\ Readable(file[r]) => Chained(file[r], written[r])
  /\ phase[r] \in Live \cup {"none"} =>
       /\ r \notin damaged
       /\ Readable(file[r])
       /\ Ended(file[r])
       /\ memory[r] = OpenStore(file[r])

WorkspaceInv ==
  /\ StoreInv
  /\ phase \in [Runs -> ProcessPhases]
  /\ kept \in [Runs -> SUBSET Whole]
  /\ file = [r \in Runs |-> file[r]]
  /\ written = [r \in Runs |-> written[r]]
  /\ memory = [r \in Runs |-> memory[r]]
  /\ \A r \in Runs : LogInv(r)

-------------------------------------------------------------------------------
(***************************************************************************)
(* Lemmas about sequences and about the log.                               *)
(***************************************************************************)

\* A sequence is one over its own elements.
LEMMA SeqIsSeq ==
  ASSUME NEW S, NEW s \in Seq(S)
  PROVE  /\ IsSeq(s)
         /\ Len(s) \in Nat
         /\ DOMAIN s = 1..Len(s)
BY SeqOfRange, LenProperties DEF IsSeq

\* Append, on a sequence whose elements have no set of their own.
LEMMA AppendIsSeq ==
  ASSUME NEW s, IsSeq(s), NEW e
  PROVE  /\ IsSeq(Append(s, e))
         /\ Len(Append(s, e)) = Len(s) + 1
         /\ \A i \in 1..Len(s) : Append(s, e)[i] = s[i]
         /\ Append(s, e)[Len(s) + 1] = e
<1> DEFINE S == Range(s) \cup {e}
<1>1. s \in Seq(S) /\ e \in S
  BY SeqMonotonic DEF IsSeq
<1> HIDE DEF S
<1>2. /\ Append(s, e) \in Seq(S)
      /\ Len(Append(s, e)) = Len(s) + 1
      /\ \A i \in 1..Len(s) : Append(s, e)[i] = s[i]
      /\ Append(s, e)[Len(s) + 1] = e
  BY <1>1, AppendProperties
<1>3. IsSeq(Append(s, e))
  BY <1>2, SeqIsSeq
<1>4. QED
  BY <1>2, <1>3

\* WriteLine on a last line that was cut off: it is glued, and no event.
LEMMA GluedLine ==
  ASSUME NEW s, IsSeq(s), s # <<>>, NEW l
  PROVE  /\ IsSeq(Front(s) \o <<l>>)
         /\ Len(Front(s) \o <<l>>) = Len(s)
         /\ \A i \in 1..(Len(s) - 1) : (Front(s) \o <<l>>)[i] = s[i]
         /\ (Front(s) \o <<l>>)[Len(s)] = l
<1> DEFINE S == Range(s) \cup {l}
<1>1. s \in Seq(S)
  BY SeqMonotonic DEF IsSeq
<1> HIDE DEF S
<1>2. Len(s) \in Nat \ {0} /\ \A i \in 1..Len(s) : s[i] \in S
  BY <1>1, EmptySeq, ElementOfSeq
<1>3. /\ Front(s) \in Seq(S)
      /\ Len(Front(s)) = Len(s) - 1
      /\ \A i \in 1..(Len(s) - 1) : Front(s)[i] = s[i]
  <2>1. \A i \in 1..(Len(s) - 1) : s[i] \in S
    BY <1>2
  <2>2. Len(s) - 1 \in Int
    BY <1>2
  <2>3. /\ SubSeq(s, 1, Len(s) - 1) \in Seq(S)
        /\ Len(SubSeq(s, 1, Len(s) - 1)) = IF 1 <= Len(s) - 1 THEN Len(s) - 1 - 1 + 1 ELSE 0
        /\ \A i \in 1..(Len(s) - 1 - 1 + 1) : SubSeq(s, 1, Len(s) - 1)[i] = s[1 + i - 1]
    BY <2>1, <2>2, SubSeqProperties
  <2>4. Len(SubSeq(s, 1, Len(s) - 1)) = Len(s) - 1
    <3> DEFINE n == Len(SubSeq(s, 1, Len(s) - 1))
               m == Len(s)
    <3>1. n = (IF 1 <= m - 1 THEN m - 1 - 1 + 1 ELSE 0) /\ m \in Nat \ {0}
      BY <1>2, <2>3
    <3> HIDE DEF n, m
    <3>2. n = m - 1
      BY <3>1
    <3>3. QED
      BY <3>2 DEF n, m
  <2>5. \A i \in 1..(Len(s) - 1) : SubSeq(s, 1, Len(s) - 1)[i] = s[i]
    <3>1. TAKE i \in 1..(Len(s) - 1)
    <3>2. i \in 1..(Len(s) - 1 - 1 + 1) /\ 1 + i - 1 = i
      BY <1>2
    <3>3. QED
      BY <2>3, <3>2
  <2>6. QED
    BY <2>3, <2>4, <2>5 DEF Front
<1>4. <<l>> \in Seq(S) /\ Len(<<l>>) = 1 /\ <<l>>[1] = l
  <2>1. l \in S
    BY DEF S
  <2>2. QED
    BY <2>1
<1>5. /\ Front(s) \o <<l>> \in Seq(S)
      /\ Len(Front(s) \o <<l>>) = Len(Front(s)) + Len(<<l>>)
      /\ \A i \in 1..(Len(Front(s)) + Len(<<l>>)) : (Front(s) \o <<l>>)[i] =
           IF i <= Len(Front(s)) THEN Front(s)[i] ELSE <<l>>[i - Len(Front(s))]
  BY <1>3, <1>4, ConcatProperties
<1>6. IsSeq(Front(s) \o <<l>>)
  BY <1>5, SeqIsSeq
<1>7. Len(Front(s) \o <<l>>) = Len(s)
  BY <1>2, <1>3, <1>4, <1>5
<1>8. \A i \in 1..(Len(s) - 1) : (Front(s) \o <<l>>)[i] = s[i]
  BY <1>2, <1>3, <1>4, <1>5
<1>9. (Front(s) \o <<l>>)[Len(s)] = l
  BY <1>2, <1>3, <1>4, <1>5
<1>10. QED
  BY <1>6, <1>7, <1>8, <1>9

\* Leaving an element out: every element that remains was there.
LEMMA RemovedElement ==
  ASSUME NEW s, IsSeq(s), NEW i \in 1..Len(s)
  PROVE  /\ IsSeq(RemoveAt(s, i))
         /\ \A j \in 1..Len(RemoveAt(s, i)) :
              \E k \in 1..Len(s) : RemoveAt(s, i)[j] = s[k]
<1> DEFINE S == Range(s)
           before == SubSeq(s, 1, i - 1)
           after == SubSeq(s, i + 1, Len(s))
<1>1. s \in Seq(S) /\ Len(s) \in Nat /\ \A k \in 1..Len(s) : s[k] \in S
  BY LenProperties, ElementOfSeq DEF IsSeq
<1>0. \A x \in S : \E k \in 1..Len(s) : x = s[k]
  BY <1>1, RangeEquality
<1> HIDE DEF S
<1>2. before \in Seq(S)
  <2>1. (\A k \in 1..(i - 1) : s[k] \in S) /\ 1 \in Int /\ i - 1 \in Int
    BY <1>1
  <2>2. QED
    BY <2>1, SubSeqProperties
<1>3. after \in Seq(S)
  <2>1. (\A k \in (i + 1)..Len(s) : s[k] \in S) /\ i + 1 \in Int /\ Len(s) \in Int
    BY <1>1
  <2>2. QED
    BY <2>1, SubSeqProperties
<1>4. RemoveAt(s, i) \in Seq(S)
  BY <1>2, <1>3, ConcatProperties DEF RemoveAt
<1>5. \A j \in 1..Len(RemoveAt(s, i)) : RemoveAt(s, i)[j] \in S
  BY <1>4, ElementOfSeq
<1>7. QED
  BY <1>0, <1>4, <1>5, SeqIsSeq

\* What is said of a line stays true when more is appended, or held.
LEMMA LineStays ==
  ASSUME NEW l, NEW bodies, IsSeq(bodies), NEW body, NEW held, NEW more, held \subseteq more,
         LineInv(l, bodies, held)
  PROVE  /\ LineInv(l, Append(bodies, body), more)
         /\ LineInv(l, bodies, more)
<1>1. /\ Len(Append(bodies, body)) = Len(bodies) + 1
      /\ \A i \in 1..Len(bodies) : Append(bodies, body)[i] = bodies[i]
  BY AppendIsSeq
<1>2. Len(bodies) \in Nat
  BY LenProperties DEF IsSeq
<1>3. l.event.seq \in 0..(Len(bodies) - 1)
  BY DEF LineInv
<1>4. l.event.seq + 1 \in 1..Len(bodies) /\ l.event.seq \in 0..(Len(bodies) + 1 - 1)
  BY <1>2, <1>3
<1>5. Append(bodies, body)[l.event.seq + 1] = bodies[l.event.seq + 1]
  BY <1>1, <1>4
<1>6. l.event.seq \in 0..(Len(Append(bodies, body)) - 1)
  BY <1>1, <1>4
<1>7. QED
  BY <1>5, <1>6 DEF LineInv

\* An event made for the next number is a true line of the log.
LEMMA NewLine ==
  ASSUME NEW bodies, IsSeq(bodies), NEW prev, NEW body, NEW held,
         body.artifacts \subseteq held, NEW parses \in BOOLEAN, NEW ended
  PROVE  LineInv(Line(MakeEvent(Len(bodies), prev, body), parses, ended),
                 Append(bodies, body), held)
<1>1. /\ Len(Append(bodies, body)) = Len(bodies) + 1
      /\ Append(bodies, body)[Len(bodies) + 1] = body
  BY AppendIsSeq
<1>2. Len(bodies) \in Nat
  BY LenProperties DEF IsSeq
<1> DEFINE n == Len(bodies)
           event == MakeEvent(n, prev, body)
           l == Line(event, parses, ended)
<1>3. /\ l.event = event
      /\ l.parses = parses
      /\ l.ended = ended
      /\ event.seq = n
      /\ event.prev = prev
      /\ event.body = body
      /\ event.hash = Hash(n, prev, body)
  BY DEF Line, MakeEvent
<1>4. IsLine(l)
  <2>1. IsEvent(event)
    BY DEF MakeEvent, IsEvent
  <2>2. l = [event |-> l.event, parses |-> l.parses, ended |-> l.ended]
    BY DEF Line
  <2>3. QED
    BY <1>3, <2>1, <2>2 DEF IsLine
<1> HIDE DEF n, event, l
<1>5. l.event.seq \in 0..(Len(Append(bodies, body)) - 1)
  BY <1>1, <1>2, <1>3 DEF n
<1>6. l.event.hash = Hash(l.event.seq, l.event.prev, Append(bodies, body)[l.event.seq + 1])
  BY <1>1, <1>3 DEF n
<1>7. l.event.body.artifacts \subseteq held
  BY <1>3
<1>8. LineInv(l, Append(bodies, body), held)
  BY <1>4, <1>5, <1>6, <1>7 DEF LineInv
<1>9. QED
  BY <1>8 DEF l, event, n

\* An opened log goes on with the number after the last one.
LEMMA OpenedSeq ==
  ASSUME NEW s, IsSeq(s), NEW bodies, Chained(s, bodies)
  PROVE  OpenStore(s).seq = Len(bodies)
<1>1. Len(s) \in Nat /\ (s # <<>> => Len(s) \in Nat \ {0})
  BY LenProperties, EmptySeq DEF IsSeq
<1>2. CASE s = <<>>
  BY <1>2, EmptySeq DEF Chained, OpenStore
<1>3. CASE s # <<>>
  <2>1. Last(s).event.seq = Len(s) - 1
    BY <1>1, <1>3 DEF Last, Chained
  <2>2. Last(s).event.seq + 1 = Len(s)
    BY <1>1, <2>1
  <2>3. QED
    BY <1>3, <2>2 DEF Chained, OpenStore
<1>4. QED
  BY <1>2, <1>3

\* What a store opened on s appends for a body.
NextEvent(s, body) == MakeEvent(OpenStore(s).seq, OpenStore(s).prev, body)

\* What append leaves of a log that can be read and holds all that was appended:
\* true lines, and a chain unless the new line made it unreadable.
LEMMA LogOfAppend ==
  ASSUME NEW s, IsSeq(s), NEW bodies, IsSeq(bodies), NEW held,
         LinesInv(s, bodies, held), Readable(s), Chained(s, bodies),
         NEW body, body.artifacts \subseteq held,
         NEW parses \in BOOLEAN, NEW ended \in BOOLEAN
  PROVE  LET event == NextEvent(s, body)
             t == WriteLine(s, event, parses, ended)
         IN  /\ IsSeq(t)
             /\ LinesInv(t, Append(bodies, body), held)
             /\ Readable(t) => Chained(t, Append(bodies, body))
             /\ Ended(s) /\ parses /\ ended =>
                  Readable(t) /\ Ended(t) /\ OpenStore(t) = Advance(event)
<1> DEFINE more == Append(bodies, body)
           store == OpenStore(s)
           event == NextEvent(s, body)
           t == WriteLine(s, event, parses, ended)
<1>0. /\ store = OpenStore(s)
      /\ event = MakeEvent(store.seq, store.prev, body)
      /\ t = WriteLine(s, event, parses, ended)
  BY DEF NextEvent
<1> HIDE DEF store, event, t
<1>1. /\ Len(s) \in Nat
      /\ DOMAIN s = 1..Len(s)
      /\ s = <<>> => Len(s) = 0
      /\ s # <<>> => Len(s) # 0
      /\ Len(bodies) = Len(s)
  BY LenProperties, EmptySeq DEF IsSeq, Chained
<1>2. store.seq = Len(bodies)
  BY <1>0, OpenedSeq
<1>3. \A i \in 1..Len(s) : LineInv(s[i], more, held)
  BY LineStays DEF LinesInv
<1>4. \A p \in BOOLEAN : LineInv(Line(event, p, ended), more, held)
  BY <1>0, <1>2, NewLine
<1>5. /\ IsSeq(more)
      /\ Len(more) = Len(s) + 1
      /\ \A i \in 1..Len(s) : more[i] = bodies[i]
      /\ more[Len(s) + 1] = body
  BY <1>1, AppendIsSeq
<1>6. /\ event.seq = Len(s)
      /\ event.prev = store.prev
      /\ event.body = body
  BY <1>0, <1>1, <1>2 DEF MakeEvent
<1> HIDE DEF more
<1>7. CASE s # <<>> /\ ~Last(s).ended
  <2> DEFINE l == Line(event, FALSE, ended)
  <2>1. t = Front(s) \o <<l>>
    BY <1>0, <1>7 DEF WriteLine
  <2>2. /\ IsSeq(t)
        /\ Len(t) = Len(s)
        /\ \A i \in 1..(Len(s) - 1) : t[i] = s[i]
        /\ t[Len(s)] = l
    <3> HIDE DEF l
    <3>1. QED
      BY <1>7, <2>1, GluedLine
  <2>3. LineInv(l, more, held)
    BY <1>4
  <2>4. l.parses = FALSE
    BY DEF Line
  <2> HIDE DEF l
  <2>5. LinesInv(t, more, held)
    <3>1. SUFFICES ASSUME NEW i \in 1..Len(s)
                   PROVE  LineInv(t[i], more, held)
      BY <2>2 DEF LinesInv
    <3>2. CASE i = Len(s)
      BY <2>2, <2>3, <3>2
    <3>3. CASE i # Len(s)
      <4>1. i \in 1..(Len(s) - 1)
        <5> DEFINE n == Len(s)
        <5>1. n \in Nat /\ i \in 1..n /\ i # n
          BY <1>1, <3>3
        <5> HIDE DEF n
        <5>2. i \in 1..(n - 1)
          BY <5>1
        <5>3. QED
          BY <5>2 DEF n
      <4>2. QED
        BY <1>3, <2>2, <4>1
    <3>4. QED
      BY <3>2, <3>3
  <2>6. ~Readable(t)
    <3>1. Len(s) \in DOMAIN t
      BY <1>1, <1>7, <2>2, LenProperties DEF IsSeq
    <3>2. QED
      BY <2>2, <2>4, <3>1 DEF Readable
  <2>7. ~Ended(s)
    BY <1>7 DEF Ended
  <2>8. QED
    BY <2>2, <2>5, <2>6, <2>7 DEF more, event, t
<1>8. CASE ~(s # <<>> /\ ~Last(s).ended)
  <2> DEFINE l == Line(event, parses, ended)
  <2>1. t = Append(s, l)
    BY <1>0, <1>8 DEF WriteLine
  <2>2. /\ IsSeq(t)
        /\ Len(t) = Len(s) + 1
        /\ \A i \in 1..Len(s) : t[i] = s[i]
        /\ t[Len(s) + 1] = l
    BY <2>1, AppendIsSeq
  <2>3. LineInv(l, more, held)
    BY <1>4
  <2>4. l.event = event /\ l.parses = parses /\ l.ended = ended
    BY DEF Line
  <2> HIDE DEF l
  <2>5. \A i \in 1..(Len(s) + 1) : i \in 1..Len(s) \/ i = Len(s) + 1
    BY <1>1
  <2>6. LinesInv(t, more, held)
    BY <1>3, <2>2, <2>3, <2>5 DEF LinesInv
  <2>7. Chained(t, more)
    <3>1. SUFFICES ASSUME NEW i \in 1..(Len(s) + 1)
                   PROVE  /\ t[i].event.seq = i - 1
                          /\ t[i].event.prev = IF i = 1 THEN Genesis ELSE t[i - 1].event.hash
                          /\ t[i].event.body = more[i]
      BY <1>5, <2>2 DEF Chained
    <3>2. CASE i \in 1..Len(s)
      <4>1. i # 1 => i - 1 \in 1..Len(s)
        BY <1>1, <3>2
      <4>2. QED
        BY <1>5, <2>2, <3>2, <4>1 DEF Chained
    <3>3. CASE i = Len(s) + 1
      <4>1. t[i].event.seq = i - 1
        BY <1>1, <1>6, <2>2, <2>4, <3>3
      <4>2. t[i].event.body = more[i]
        BY <1>5, <1>6, <2>2, <2>4, <3>3
      <4>3. CASE s = <<>>
        <5>1. i = 1 /\ store.prev = Genesis
          BY <1>0, <1>1, <3>3, <4>3 DEF OpenStore
        <5>2. QED
          BY <1>6, <2>2, <2>4, <3>3, <4>1, <4>2, <5>1
      <4>4. CASE s # <<>>
        <5>1. store.prev = s[Len(s)].event.hash
          BY <1>0, <4>4 DEF OpenStore, Last
        <5>2. i # 1 /\ i - 1 = Len(s) /\ Len(s) \in 1..Len(s)
          BY <1>1, <3>3, <4>4
        <5>3. t[i - 1] = s[Len(s)]
          BY <2>2, <5>2
        <5>4. t[i].event.prev = s[Len(s)].event.hash
          BY <1>6, <2>2, <2>4, <3>3, <5>1
        <5>5. QED
          BY <4>1, <4>2, <5>2, <5>3, <5>4
      <4>5. QED
        BY <4>3, <4>4
    <3>4. QED
      BY <2>5, <3>2, <3>3
  <2>8. ASSUME parses, ended
        PROVE  Readable(t) /\ Ended(t) /\ OpenStore(t) = Advance(event)
    <3>1. DOMAIN t = 1..(Len(s) + 1)
      BY <2>2, LenProperties DEF IsSeq
    <3>2. Readable(t)
      BY <1>1, <2>2, <2>4, <2>5, <2>8, <3>1 DEF Readable
    <3>3. t # <<>>
      BY <1>1, <2>2, EmptySeq
    <3>4. Last(t) = l
      BY <2>2 DEF Last
    <3>5. QED
      BY <2>4, <2>8, <3>2, <3>3, <3>4 DEF Ended, OpenStore, Advance
  <2>9. QED
    BY <2>2, <2>6, <2>7, <2>8 DEF more, event, t
<1>9. QED
  BY <1>7, <1>8

\* Damage to a line leaves its number, links and hash.
LEMMA AlteredLine ==
  ASSUME NEW l, NEW bodies, NEW held, LineInv(l, bodies, held),
         NEW body, body.artifacts = {}
  PROVE  LineInv([l EXCEPT !.event.body = body], bodies, held)
<1> DEFINE m == [l EXCEPT !.event.body = body]
           e == l.event
<1>1. /\ l = [event |-> e, parses |-> l.parses, ended |-> l.ended]
      /\ e = [seq |-> e.seq, prev |-> e.prev, body |-> e.body, hash |-> e.hash]
      /\ l.parses \in BOOLEAN
  BY DEF LineInv, IsLine, IsEvent
<1>2. m = [event |-> [e EXCEPT !.body = body], parses |-> l.parses, ended |-> l.ended]
  BY <1>1
<1>3. [e EXCEPT !.body = body] = [seq |-> e.seq, prev |-> e.prev, body |-> body, hash |-> e.hash]
  BY <1>1
<1>4. /\ m.event = [seq |-> e.seq, prev |-> e.prev, body |-> body, hash |-> e.hash]
      /\ m.parses = l.parses
      /\ m.ended = l.ended
      /\ m = [event |-> m.event, parses |-> m.parses, ended |-> m.ended]
  BY <1>2, <1>3
<1> HIDE DEF m
<1>5. IsLine(m)
  BY <1>1, <1>4 DEF IsLine, IsEvent
<1>6. m.event.seq = e.seq /\ m.event.hash = e.hash /\ m.event.prev = e.prev /\ m.event.body = body
  BY <1>4
<1>7. LineInv(m, bodies, held)
  BY <1>5, <1>6 DEF LineInv
<1>8. QED
  BY <1>7 DEF m

-------------------------------------------------------------------------------
(***************************************************************************)
(* Lemmas about the actions.                                               *)
(***************************************************************************)

\* Each step of put, and the end of a call, keeps the store's files whole; at most
\* one content is new.
LEMMA StoreStep ==
  ASSUME StoreInv, NEW w \in Writers,
         \/ \E c \in Contents : BeginPut(w, c)
         \/ PutStep(w)
         \/ EndPut(w) /\ UNCHANGED target
         \/ UNCHANGED artifacts
  PROVE  /\ StoreInv'
         /\ Whole \subseteq Whole'
         /\ Whole' = Whole \/ \E c \in Contents \ Whole : Whole' = Whole \cup {c}
<1> USE DEF StoreInv, PutSteps
<1>1. CASE \E c \in Contents : BeginPut(w, c)
  BY <1>1 DEF BeginPut, Whole
<1>2. CASE CheckTarget(w)
  <2>1. put[w].content \in Contents
    BY <1>2 DEF CheckTarget
  <2>2. QED
    BY <1>2, <2>1 DEF CheckTarget, Step, Whole
<1>3. CASE WriteTemp(w)
  BY <1>3 DEF WriteTemp, Step, Whole
<1>4. CASE Replace(w)
  <2> DEFINE c == put[w].content
  <2>1. c \in Contents
    BY <1>4 DEF Replace
  <2>2. target' = [target EXCEPT ![c] = "whole"]
    BY <1>4 DEF Replace
  <2>3. Whole' = Whole \cup {c}
    BY <2>1, <2>2 DEF Whole
  <2>4. StoreInv'
    BY <1>4, <2>1, <2>2 DEF Replace, Step, Whole
  <2>5. QED
    BY <2>1, <2>3, <2>4
<1>5. CASE EndPut(w) /\ UNCHANGED target
  BY <1>5 DEF EndPut, NoPut, Whole
<1>6. CASE UNCHANGED artifacts
  BY <1>6 DEF artifacts, Whole
<1>7. QED
  BY <1>1, <1>2, <1>3, <1>4, <1>5, <1>6 DEF PutStep

\* A log nobody writes to stays as good as it was while the store grows.
LEMMA LogStays ==
  ASSUME NEW r \in Runs, LogInv(r), Whole \subseteq Whole',
         file'[r] = file[r], written'[r] = written[r], memory'[r] = memory[r],
         r \in damaged <=> r \in damaged',
         phase'[r] \in Live \cup {"none"} => phase[r] \in Live \cup {"none"}
  PROVE  LogInv(r)'
<1>1. LinesInv(file[r], written[r], Whole')
  BY LineStays DEF LogInv, LinesInv
<1>2. QED
  BY <1>1 DEF LogInv

\* What a run may write next names whole artifacts only.
LEMMA DueNamesWhole ==
  ASSUME WorkspaceInv, NEW r \in Runs, NEW event \in Due(r)
  PROVE  /\ event.body.artifacts \subseteq Whole
         /\ event.then \in ProcessPhases
         /\ phase[r] \in Live
<1> USE DEF Due, Event, Naming, Started, Body, ProcessPhases, Live
<1>1. HasPut(r) => put[r].content \in Whole
  BY WorkspaceAssumption DEF HasPut, WorkspaceInv, StoreInv
<1>2. kept[r] \subseteq Whole
  BY DEF WorkspaceInv
<1>3. CASE phase[r] \in {"queued", "created"}
  BY <1>3
<1>4. CASE phase[r] = "snapshot"
  BY <1>1, <1>4
<1>5. CASE phase[r] = "patching"
  BY <1>1, <1>2, <1>5
<1>6. CASE phase[r] \notin {"queued", "created", "snapshot", "patching"}
  BY <1>6
<1>7. QED
  BY <1>3, <1>4, <1>5, <1>6

\* Whatever a run does to put, it goes through the store's steps.
LEMMA RunStoreStep ==
  ASSUME WorkspaceInv, NEW r \in Runs,
         RunSteps(r) \/ Lose(r) \/ LoseInLine(r)
  PROVE  \/ \E c \in Contents : BeginPut(r, c)
         \/ PutStep(r)
         \/ EndPut(r) /\ UNCHANGED target
         \/ UNCHANGED artifacts
<1>1. States \subseteq Contents /\ Patches \subseteq Contents
  BY WorkspaceAssumption
<1>2. CASE RunWrites(r)
  BY <1>2 DEF RunWrites, EndPut
<1>3. CASE RunPuts(r)
  BY <1>1, <1>3 DEF RunPuts
<1>4. CASE RunStores(r)
  BY <1>4 DEF RunStores
<1>5. CASE RunSkipsSnapshot(r)
  BY <1>5 DEF RunSkipsSnapshot
<1>6. CASE RunFreezes(r) \/ Lose(r) \/ LoseInLine(r)
  BY <1>6 DEF RunFreezes, Lose, LoseInLine
<1>7. QED
  BY <1>2, <1>3, <1>4, <1>5, <1>6 DEF RunSteps

\* One more line at the end of a log that can be read, in full or in part.
LEMMA LogGrows ==
  ASSUME WorkspaceInv, NEW r \in Runs, Whole \subseteq Whole',
         r \notin damaged, damaged' = damaged, Readable(file[r]),
         NEW body, body.artifacts \subseteq Whole,
         NEW parses \in BOOLEAN, NEW ended \in BOOLEAN,
         file' = [file EXCEPT ![r] = WriteLine(@, NextEvent(file[r], body), parses, ended)],
         written' = [written EXCEPT ![r] = Append(@, body)],
         \/ memory' = [memory EXCEPT ![r] = Advance(NextEvent(file[r], body))]
         \/ memory' = memory /\ phase'[r] = "lost",
         phase'[r] = "lost" \/ (Ended(file[r]) /\ parses /\ ended)
  PROVE  /\ LogInv(r)'
         /\ file' = [q \in Runs |-> file'[q]]
         /\ written' = [q \in Runs |-> written'[q]]
         /\ memory' = [q \in Runs |-> memory'[q]]
         /\ \A q \in Runs \ {r} :
              file'[q] = file[q] /\ written'[q] = written[q] /\ memory'[q] = memory[q]
<1> DEFINE event == NextEvent(file[r], body)
           t == WriteLine(file[r], event, parses, ended)
           more == Append(written[r], body)
<1>1. /\ file' = [file EXCEPT ![r] = t]
      /\ written' = [written EXCEPT ![r] = more]
      /\ \/ memory' = [memory EXCEPT ![r] = Advance(event)]
         \/ memory' = memory /\ phase'[r] = "lost"
  OBVIOUS
<1>2. /\ IsSeq(file[r])
      /\ IsSeq(written[r])
      /\ LinesInv(file[r], written[r], Whole)
      /\ Chained(file[r], written[r])
  BY DEF WorkspaceInv, LogInv
<1>3. /\ file = [q \in Runs |-> file[q]]
      /\ written = [q \in Runs |-> written[q]]
      /\ memory = [q \in Runs |-> memory[q]]
  BY DEF WorkspaceInv
<1>4. /\ IsSeq(t)
      /\ LinesInv(t, more, Whole)
      /\ Readable(t) => Chained(t, more)
      /\ Ended(file[r]) /\ parses /\ ended =>
           Readable(t) /\ Ended(t) /\ OpenStore(t) = Advance(event)
  <2> DEFINE W == Whole
             s == file[r]
             b == written[r]
  <2>1. /\ IsSeq(s) /\ IsSeq(b) /\ LinesInv(s, b, W) /\ Readable(s) /\ Chained(s, b)
        /\ body.artifacts \subseteq W
    BY <1>2
  <2>2. t = WriteLine(s, NextEvent(s, body), parses, ended) /\ event = NextEvent(s, body)
    OBVIOUS
  <2> HIDE DEF W, s, b, t, event
  <2>3. \A p, e \in BOOLEAN :
          LET u == WriteLine(s, NextEvent(s, body), p, e)
          IN  /\ IsSeq(u)
              /\ LinesInv(u, Append(b, body), W)
              /\ Readable(u) => Chained(u, Append(b, body))
              /\ Ended(s) /\ p /\ e =>
                   Readable(u) /\ Ended(u) /\ OpenStore(u) = Advance(NextEvent(s, body))
    BY <2>1, LogOfAppend
  <2>4. QED
    BY <2>2, <2>3 DEF W, s, b
<1> HIDE DEF event, t, more
<1>5. /\ file'[r] = t
      /\ written'[r] = more
      /\ memory'[r] = Advance(event) \/ phase'[r] = "lost"
  BY <1>1, <1>3
<1>6. IsSeq(more)
  BY <1>2, AppendIsSeq DEF more
<1>7. LinesInv(t, more, Whole')
  BY <1>4, <1>6, LineStays DEF LinesInv
<1>8. LogInv(r)'
  BY <1>4, <1>5, <1>6, <1>7 DEF LogInv, Live
<1>9. /\ file' = [q \in Runs |-> file'[q]]
      /\ written' = [q \in Runs |-> written'[q]]
  BY <1>1, <1>3
<1>10. memory' = [q \in Runs |-> memory'[q]]
  BY <1>1, <1>3
<1>11. \A q \in Runs \ {r} : file'[q] = file[q] /\ written'[q] = written[q]
  BY <1>1, <1>3
<1>12. \A q \in Runs \ {r} : memory'[q] = memory[q]
  BY <1>1, <1>3
<1>13. QED
  BY <1>8, <1>9, <1>10, <1>11, <1>12

\* A step of one run is a step of the workspace: the other logs are left alone.
LEMMA OneRunMoves ==
  ASSUME WorkspaceInv, StoreInv', Whole \subseteq Whole',
         NEW r \in Runs, LogInv(r)',
         file' = [q \in Runs |-> file'[q]],
         written' = [q \in Runs |-> written'[q]],
         memory' = [q \in Runs |-> memory'[q]],
         \A q \in Runs \ {r} :
           /\ file'[q] = file[q] /\ written'[q] = written[q] /\ memory'[q] = memory[q]
           /\ phase'[q] = phase[q]
           /\ q \in damaged <=> q \in damaged',
         phase' \in [Runs -> ProcessPhases],
         kept' \in [Runs -> SUBSET Whole']
  PROVE  WorkspaceInv'
<1>1. ASSUME NEW q \in Runs \ {r}
      PROVE  LogInv(q)'
  <2>1. LogInv(q)
    BY <1>1 DEF WorkspaceInv
  <2>2. QED
    BY <1>1, <2>1, LogStays
<1>2. QED
  BY <1>1 DEF WorkspaceInv

\* And one that writes no log leaves every log alone.
LEMMA NoLogMoves ==
  ASSUME WorkspaceInv, StoreInv', Whole \subseteq Whole',
         UNCHANGED <<logs, damaged>>,
         \A r \in Runs : phase'[r] \in Live \cup {"none"} => phase[r] \in Live \cup {"none"},
         phase' \in [Runs -> ProcessPhases],
         kept' \in [Runs -> SUBSET Whole']
  PROVE  WorkspaceInv'
<1>1. ASSUME NEW q \in Runs
      PROVE  LogInv(q)'
  <2>1. LogInv(q)
    BY <1>1 DEF WorkspaceInv
  <2>2. QED
    BY <1>1, <2>1, LogStays DEF logs
<1>2. QED
  BY <1>1 DEF WorkspaceInv, logs

\* The invariant holds of an empty workspace.
LEMMA InvInit == Init => WorkspaceInv
<1>1. SUFFICES ASSUME Init PROVE WorkspaceInv
  OBVIOUS
<1>2. StoreInv
  BY <1>1 DEF Init, ArtifactInit, StoreInv, NoPut, PutSteps
<1>3. /\ phase \in [Runs -> ProcessPhases]
      /\ kept \in [Runs -> SUBSET Whole]
      /\ file = [r \in Runs |-> file[r]]
      /\ written = [r \in Runs |-> written[r]]
      /\ memory = [r \in Runs |-> memory[r]]
  BY <1>1 DEF Init, ProcessPhases
<1>4. ASSUME NEW r \in Runs PROVE LogInv(r)
  <2>1. /\ file[r] = <<>> /\ written[r] = <<>> /\ memory[r] = OpenStore(<<>>)
        /\ r \notin damaged
    BY <1>1 DEF Init
  <2>2. IsSeq(<<>>) /\ Len(<<>>) = 0 /\ DOMAIN <<>> = {}
    <3>1. <<>> \in Seq(Range(<<>>)) /\ Len(<<>>) = 0
      BY EmptySeq
    <3>2. DOMAIN <<>> = {}
      OBVIOUS
    <3>3. QED
      BY <3>1, <3>2 DEF IsSeq
  <2>3. LinesInv(<<>>, <<>>, Whole) /\ Chained(<<>>, <<>>)
    BY <2>2 DEF LinesInv, Chained
  <2>4. Readable(<<>>) /\ Ended(<<>>)
    BY <2>2 DEF Readable, Ended
  <2>5. QED
    BY <2>1, <2>2, <2>3, <2>4 DEF LogInv
<1>5. QED
  BY <1>2, <1>3, <1>4 DEF WorkspaceInv

\* A run's own steps, and the loss of its process.
LEMMA RunKeepsInv ==
  ASSUME WorkspaceInv, NEW r \in Runs,
         RunSteps(r) \/ Lose(r) \/ LoseInLine(r)
  PROVE  /\ WorkspaceInv'
         /\ Whole' = Whole \/ \E c \in Contents \ Whole : Whole' = Whole \cup {c}
<1>1. /\ StoreInv'
      /\ Whole \subseteq Whole'
      /\ Whole' = Whole \/ \E c \in Contents \ Whole : Whole' = Whole \cup {c}
  <2>1. r \in Writers /\ StoreInv
    BY WorkspaceAssumption DEF WorkspaceInv
  <2>2. \/ \E c \in Contents : BeginPut(r, c)
        \/ PutStep(r)
        \/ EndPut(r) /\ UNCHANGED target
        \/ UNCHANGED artifacts
    BY RunStoreStep
  <2>3. QED
    BY <2>1, <2>2, StoreStep
<1>2. /\ phase \in [Runs -> ProcessPhases]
      /\ kept \in [Runs -> SUBSET Whole]
      /\ kept \in [Runs -> SUBSET Whole']
  BY <1>1 DEF WorkspaceInv
<1>3. phase[r] \in Live =>
        r \notin damaged /\ Readable(file[r]) /\ Ended(file[r]) /\ memory[r] = OpenStore(file[r])
  BY DEF WorkspaceInv, LogInv
<1>4. CASE RunWrites(r)
  <2>1. PICK event \in Due(r) : Emit(r, event.body) /\ Reach(r, event.then)
    BY <1>4 DEF RunWrites
  <2>2. /\ event.body.artifacts \subseteq Whole
        /\ event.then \in ProcessPhases
        /\ phase[r] \in Live
    BY DueNamesWhole
  <2>3. /\ damaged' = damaged
        /\ kept' = kept
        /\ phase' = [phase EXCEPT ![r] = event.then]
    BY <1>4, <2>1 DEF RunWrites, Reach
  <2> DEFINE next == NextEvent(file[r], event.body)
  <2>4. /\ file' = [file EXCEPT ![r] = WriteLine(@, next, TRUE, TRUE)]
        /\ written' = [written EXCEPT ![r] = Append(@, event.body)]
        /\ memory' = [memory EXCEPT ![r] = Advance(next)]
    BY <1>3, <2>1, <2>2 DEF Emit, EmitWith, NextEvent
  <2>5. /\ LogInv(r)'
        /\ file' = [q \in Runs |-> file'[q]]
        /\ written' = [q \in Runs |-> written'[q]]
        /\ memory' = [q \in Runs |-> memory'[q]]
        /\ \A q \in Runs \ {r} :
             file'[q] = file[q] /\ written'[q] = written[q] /\ memory'[q] = memory[q]
    BY <1>1, <1>3, <2>2, <2>3, <2>4, LogGrows
  <2>6. phase' \in [Runs -> ProcessPhases] /\ \A q \in Runs \ {r} : phase'[q] = phase[q]
    BY <1>2, <2>2, <2>3
  <2>7. WorkspaceInv'
    BY <1>1, <1>2, <2>3, <2>5, <2>6, OneRunMoves
  <2>8. QED
    BY <1>1, <2>7
<1>5. CASE RunPuts(r) \/ RunStores(r)
  <2>1. UNCHANGED <<logs, damaged, phase, kept>>
    BY <1>5 DEF RunPuts, RunStores, progress
  <2>2. WorkspaceInv'
    BY <1>1, <1>2, <2>1, NoLogMoves
  <2>3. QED
    BY <1>1, <2>2
<1>6. CASE RunSkipsSnapshot(r)
  <2>1. /\ UNCHANGED <<logs, damaged, kept>>
        /\ phase[r] = "snapshot"
        /\ phase' = [phase EXCEPT ![r] = "freezing"]
    BY <1>6 DEF RunSkipsSnapshot, Reach
  <2>2. phase' \in [Runs -> ProcessPhases]
    BY <1>2, <2>1 DEF ProcessPhases, Live
  <2>3. \A q \in Runs : phase'[q] \in Live \cup {"none"} => phase[q] \in Live \cup {"none"}
    BY <1>2, <2>1 DEF Live
  <2>4. WorkspaceInv'
    BY <1>1, <1>2, <2>1, <2>2, <2>3, NoLogMoves
  <2>5. QED
    BY <1>1, <2>4
<1>7. CASE RunFreezes(r)
  <2>1. /\ UNCHANGED <<logs, damaged>>
        /\ phase[r] = "freezing" /\ HasPut(r)
        /\ phase' = [phase EXCEPT ![r] = "patching"]
        /\ kept' = [kept EXCEPT ![r] = {put[r].content}]
    BY <1>7 DEF RunFreezes, Reach
  <2>2. put[r].content \in Whole
    BY <2>1, WorkspaceAssumption DEF HasPut, WorkspaceInv, StoreInv
  <2>3. kept' \in [Runs -> SUBSET Whole']
    BY <1>1, <1>2, <2>1, <2>2
  <2>4. phase' \in [Runs -> ProcessPhases]
    BY <1>2, <2>1 DEF ProcessPhases, Live
  <2>5. \A q \in Runs : phase'[q] \in Live \cup {"none"} => phase[q] \in Live \cup {"none"}
    BY <1>2, <2>1 DEF Live
  <2>6. WorkspaceInv'
    BY <1>1, <2>1, <2>3, <2>4, <2>5, NoLogMoves
  <2>7. QED
    BY <1>1, <2>6
<1>8. CASE Lose(r)
  <2>1. /\ UNCHANGED <<logs, damaged, kept>>
        /\ phase' = [phase EXCEPT ![r] = "lost"]
    BY <1>8 DEF Lose, Reach
  <2>2. phase' \in [Runs -> ProcessPhases]
    BY <1>2, <2>1 DEF ProcessPhases, Live
  <2>3. \A q \in Runs : phase'[q] \in Live \cup {"none"} => phase[q] \in Live \cup {"none"}
    BY <1>2, <2>1 DEF Live
  <2>4. WorkspaceInv'
    BY <1>1, <1>2, <2>1, <2>2, <2>3, NoLogMoves
  <2>5. QED
    BY <1>1, <2>4
<1>9. CASE LoseInLine(r)
  <2>1. PICK event \in Due(r), parses \in BOOLEAN :
          LET sealed == MakeEvent(memory[r].seq, memory[r].prev, event.body)
          IN  /\ file' = [file EXCEPT ![r] = WriteLine(@, sealed, parses, FALSE)]
              /\ written' = [written EXCEPT ![r] = Append(@, event.body)]
    BY <1>9 DEF LoseInLine
  <2>2. event.body.artifacts \subseteq Whole /\ phase[r] \in Live
    BY DueNamesWhole
  <2>3. /\ damaged' = damaged
        /\ kept' = kept
        /\ memory' = memory
        /\ phase' = [phase EXCEPT ![r] = "lost"]
    BY <1>9 DEF LoseInLine, Reach
  <2> DEFINE next == NextEvent(file[r], event.body)
  <2>4. /\ file' = [file EXCEPT ![r] = WriteLine(@, next, parses, FALSE)]
        /\ written' = [written EXCEPT ![r] = Append(@, event.body)]
    BY <1>3, <2>1, <2>2 DEF NextEvent
  <2>5. /\ phase' \in [Runs -> ProcessPhases]
        /\ phase'[r] = "lost"
        /\ \A q \in Runs \ {r} : phase'[q] = phase[q]
    BY <1>2, <2>3 DEF ProcessPhases
  <2>6. /\ LogInv(r)'
        /\ file' = [q \in Runs |-> file'[q]]
        /\ written' = [q \in Runs |-> written'[q]]
        /\ memory' = [q \in Runs |-> memory'[q]]
        /\ \A q \in Runs \ {r} :
             file'[q] = file[q] /\ written'[q] = written[q] /\ memory'[q] = memory[q]
    BY <1>1, <1>3, <2>2, <2>3, <2>4, <2>5, LogGrows
  <2>7. WorkspaceInv'
    BY <1>1, <1>2, <2>3, <2>5, <2>6, OneRunMoves
  <2>8. QED
    BY <1>1, <2>7
<1>10. QED
  BY <1>4, <1>5, <1>6, <1>7, <1>8, <1>9 DEF RunSteps

\* A store opened on a log that was left.
LEMMA ReopenKeepsInv ==
  ASSUME WorkspaceInv, NEW r \in Runs, Reopen(r)
  PROVE  WorkspaceInv'
<1>1. /\ phase[r] = "lost" /\ r \notin damaged /\ Readable(file[r])
      /\ damaged' = damaged /\ phase' = phase /\ kept' = kept
      /\ UNCHANGED artifacts
      /\ EmitWith(r, OpenStore(file[r]), Body("annotation.added"))
  BY DEF Reopen, progress
<1>2. StoreInv' /\ Whole' = Whole
  BY <1>1 DEF WorkspaceInv, StoreInv, Whole, artifacts
<1>3. phase' \in [Runs -> ProcessPhases] /\ kept' \in [Runs -> SUBSET Whole']
  BY <1>1, <1>2 DEF WorkspaceInv
<1> DEFINE body == Body("annotation.added")
           next == NextEvent(file[r], body)
<1>4. body.artifacts \subseteq Whole
  BY DEF Body
<1>5. /\ file' = [file EXCEPT ![r] = WriteLine(@, next, TRUE, TRUE)]
      /\ written' = [written EXCEPT ![r] = Append(@, body)]
      /\ memory' = [memory EXCEPT ![r] = Advance(next)]
  BY <1>1 DEF EmitWith, NextEvent
<1> HIDE DEF body
<1>6. /\ LogInv(r)'
      /\ file' = [q \in Runs |-> file'[q]]
      /\ written' = [q \in Runs |-> written'[q]]
      /\ memory' = [q \in Runs |-> memory'[q]]
      /\ \A q \in Runs \ {r} :
           file'[q] = file[q] /\ written'[q] = written[q] /\ memory'[q] = memory[q]
  BY <1>1, <1>2, <1>4, <1>5, LogGrows
<1>7. QED
  BY <1>1, <1>2, <1>3, <1>6, OneRunMoves

\* A line changed or lost.
LEMMA DamageKeepsInv ==
  ASSUME WorkspaceInv, NEW r \in Runs, Damage(r)
  PROVE  WorkspaceInv'
<1>1. /\ phase[r] \in {"done", "lost"}
      /\ damaged' = damaged \cup {r}
      /\ UNCHANGED <<artifacts, memory, written, phase, kept>>
  BY DEF Damage, progress
<1>2. StoreInv' /\ Whole' = Whole
  BY <1>1 DEF WorkspaceInv, StoreInv, Whole, artifacts
<1>3. phase' \in [Runs -> ProcessPhases] /\ kept' \in [Runs -> SUBSET Whole']
  BY <1>1, <1>2 DEF WorkspaceInv
<1>4. /\ IsSeq(file[r])
      /\ IsSeq(written[r])
      /\ LinesInv(file[r], written[r], Whole)
      /\ file = [q \in Runs |-> file[q]]
  BY DEF WorkspaceInv, LogInv
<1>5. Len(file[r]) \in Nat /\ DOMAIN file[r] = 1..Len(file[r])
  BY <1>4, LenProperties DEF IsSeq
<1>6. PICK i \in 1..Len(file[r]) :
        \/ file' = [file EXCEPT ![r] = RemoveAt(@, i)]
        \/ \E p \in Packages : file' = [file EXCEPT ![r][i].event.body = Started(p.files)]
  BY <1>5 DEF Damage
<1>7. /\ IsSeq(file'[r])
      /\ LinesInv(file'[r], written[r], Whole)
      /\ file' = [q \in Runs |-> file'[q]]
      /\ \A q \in Runs \ {r} : file'[q] = file[q]
  <2> DEFINE s == file[r]
  <2>1. CASE file' = [file EXCEPT ![r] = RemoveAt(@, i)]
    <3>1. /\ file'[r] = RemoveAt(s, i)
          /\ file' = [q \in Runs |-> file'[q]]
          /\ \A q \in Runs \ {r} : file'[q] = file[q]
      BY <1>4, <2>1
    <3>2. /\ IsSeq(RemoveAt(s, i))
          /\ \A j \in 1..Len(RemoveAt(s, i)) : \E k \in 1..Len(s) : RemoveAt(s, i)[j] = s[k]
      <4> HIDE DEF s
      <4>1. IsSeq(s) /\ i \in 1..Len(s)
        BY <1>4 DEF s
      <4>2. QED
        BY <4>1, RemovedElement
    <3> HIDE DEF s
    <3>3. LinesInv(RemoveAt(s, i), written[r], Whole)
      BY <1>4, <3>2 DEF LinesInv, s
    <3>4. QED
      BY <3>1, <3>2, <3>3
  <2>2. ASSUME NEW p \in Packages,
               file' = [file EXCEPT ![r][i].event.body = Started(p.files)]
        PROVE  /\ IsSeq(file'[r])
               /\ LinesInv(file'[r], written[r], Whole)
               /\ file' = [q \in Runs |-> file'[q]]
               /\ \A q \in Runs \ {r} : file'[q] = file[q]
    <3> DEFINE l == [s[i] EXCEPT !.event.body = Started(p.files)]
    <3>1. /\ file'[r] = [s EXCEPT ![i] = l]
          /\ file' = [q \in Runs |-> file'[q]]
          /\ \A q \in Runs \ {r} : file'[q] = file[q]
      BY <1>4, <2>2
    <3>2. LineInv(l, written[r], Whole)
      <4>1. LineInv(s[i], written[r], Whole)
        BY <1>4, <1>6 DEF LinesInv
      <4>2. Started(p.files).artifacts = {}
        BY DEF Started, Body
      <4>3. QED
        BY <4>1, <4>2, AlteredLine
    <3> HIDE DEF l
    <3>3. /\ [s EXCEPT ![i] = l] \in Seq(Range(s) \cup {l})
          /\ Len([s EXCEPT ![i] = l]) = Len(s)
          /\ \A j \in 1..Len(s) : [s EXCEPT ![i] = l][j] = IF j = i THEN l ELSE s[j]
      <4>1. s \in Seq(Range(s) \cup {l})
        BY <1>4, SeqMonotonic DEF IsSeq
      <4>2. QED
        BY <1>6, <4>1, ExceptSeq
    <3> HIDE DEF s
    <3>4. IsSeq([s EXCEPT ![i] = l])
      BY <3>3, SeqIsSeq
    <3>5. LinesInv([s EXCEPT ![i] = l], written[r], Whole)
      BY <1>4, <3>2, <3>3 DEF LinesInv, s
    <3>6. QED
      BY <3>1, <3>4, <3>5
  <2>3. QED
    BY <1>6, <2>1, <2>2
<1>8. LogInv(r)'
  <2>1. phase'[r] \notin Live \cup {"none"} /\ r \in damaged' /\ written' = written
    BY <1>1 DEF Live
  <2>2. QED
    BY <1>2, <1>4, <1>7, <2>1 DEF LogInv
<1>9. /\ written' = [q \in Runs |-> written'[q]]
      /\ memory' = [q \in Runs |-> memory'[q]]
  BY <1>1 DEF WorkspaceInv
<1>10. QED
  BY <1>1, <1>2, <1>3, <1>7, <1>8, <1>9, OneRunMoves

\* Every step keeps the invariant, and makes one content whole at most.
LEMMA InvStep ==
  ASSUME WorkspaceInv, [Next]_vars
  PROVE  /\ WorkspaceInv'
         /\ Whole' = Whole \/ \E c \in Contents \ Whole : Whole' = Whole \cup {c}
<1>1. ASSUME UNCHANGED <<artifacts, logs, damaged, kept>>,
             phase' \in [Runs -> ProcessPhases],
             \A r \in Runs : phase'[r] \in Live \cup {"none"} => phase[r] \in Live \cup {"none"}
      PROVE  WorkspaceInv' /\ Whole' = Whole
  <2>1. StoreInv' /\ Whole' = Whole
    BY <1>1 DEF WorkspaceInv, StoreInv, Whole, artifacts
  <2>2. kept' \in [Runs -> SUBSET Whole']
    BY <1>1, <2>1 DEF WorkspaceInv
  <2>3. QED
    BY <1>1, <2>1, <2>2, NoLogMoves
<1>2. phase \in [Runs -> ProcessPhases]
  BY DEF WorkspaceInv
<1>3. ASSUME NEW r \in Runs, RunSteps(r) \/ Lose(r) \/ LoseInLine(r)
      PROVE  /\ WorkspaceInv'
             /\ Whole' = Whole \/ \E c \in Contents \ Whole : Whole' = Whole \cup {c}
  BY <1>3, RunKeepsInv
<1>4. ASSUME NEW r \in Runs, Submit(r)
      PROVE  WorkspaceInv' /\ Whole' = Whole
  <2>1. /\ UNCHANGED <<artifacts, logs, damaged, kept>>
        /\ phase[r] = "none"
        /\ phase' = [phase EXCEPT ![r] = "queued"]
    BY <1>4 DEF Submit, Reach
  <2>2. /\ phase' \in [Runs -> ProcessPhases]
        /\ \A q \in Runs : phase'[q] \in Live \cup {"none"} => phase[q] \in Live \cup {"none"}
    BY <1>2, <2>1 DEF ProcessPhases, Live
  <2>3. QED
    BY <1>1, <2>1, <2>2
<1>5. ASSUME NEW r \in Runs, Reopen(r)
      PROVE  WorkspaceInv' /\ Whole' = Whole
  <2>1. Whole' = Whole
    BY <1>5 DEF Reopen, artifacts, Whole
  <2>2. QED
    BY <1>5, <2>1, ReopenKeepsInv
<1>6. ASSUME NEW r \in Runs, Damage(r)
      PROVE  WorkspaceInv' /\ Whole' = Whole
  <2>1. Whole' = Whole
    BY <1>6 DEF Damage, artifacts, Whole
  <2>2. QED
    BY <1>6, <2>1, DamageKeepsInv
<1>7. CASE Edit \/ Register \/ RegisterAgent
  <2>1. UNCHANGED <<artifacts, logs, damaged, kept, phase>>
    BY <1>7 DEF Edit, Register, RegisterAgent, progress
  <2>2. QED
    BY <1>1, <1>2, <2>1
<1>8. CASE UNCHANGED vars
  <2>1. UNCHANGED <<artifacts, logs, damaged, kept, phase>>
    BY <1>8 DEF vars, progress
  <2>2. QED
    BY <1>1, <1>2, <2>1
<1>9. QED
  BY <1>3, <1>4, <1>5, <1>6, <1>7, <1>8 DEF Next

\* The invariant holds in every reachable state.
THEOREM WorkspaceInvariant == Spec => []WorkspaceInv
<1>1. Init => WorkspaceInv
  BY InvInit
<1>2. WorkspaceInv /\ [Next]_vars => WorkspaceInv'
  BY InvStep
<1>3. QED
  BY <1>1, <1>2, PTL DEF Spec

-------------------------------------------------------------------------------
(***************************************************************************)
(* Theorems.                                                               *)
(***************************************************************************)

\* Whatever a line of a log names is in the artifact store, whole: over lost
\* processes, racing writers of one content and damaged logs (runner.py:386-402,
\* ArtifactStore.put).
THEOREM ArtifactsAreThere == Spec => []ReferencedArtifactsAreWhole
<1>1. WorkspaceInv => ReferencedArtifactsAreWhole
  <2>1. SUFFICES ASSUME WorkspaceInv, NEW r \in Runs, NEW i \in DOMAIN file[r],
                        NEW c \in file[r][i].event.body.artifacts
                 PROVE  GetSucceeds(c)
    BY DEF ReferencedArtifactsAreWhole
  <2>2. IsSeq(file[r]) /\ LinesInv(file[r], written[r], Whole)
    BY <2>1 DEF WorkspaceInv, LogInv
  <2>3. i \in 1..Len(file[r])
    BY <2>2, LenProperties DEF IsSeq
  <2>4. c \in Whole
    BY <2>2, <2>3 DEF LinesInv, LineInv
  <2>5. QED
    BY <2>4 DEF Whole, GetSucceeds
<1>2. QED
  BY <1>1, WorkspaceInvariant, PTL

\* The artifact store as the runs use it is ArtifactPromise's: contents become
\* whole one at a time and stay.
THEOREM StoreKeepsPromise == Spec => ImplementsArtifactPromise
<1> DEFINE held == Whole
           Kept == \E c \in Contents : Promise!Keep(c)
<1>1. Init => Promise!Init
  BY DEF Init, ArtifactInit, Promise!Init
<1>2. WorkspaceInv /\ [Next]_vars => [\E c \in Contents : Promise!Keep(c)]_Whole
  <2>1. SUFFICES ASSUME WorkspaceInv, [Next]_vars
                 PROVE  Whole' = Whole \/ \E c \in Contents : Promise!Keep(c)
    OBVIOUS
  <2>2. Whole' = Whole \/ \E c \in Contents \ Whole : Whole' = Whole \cup {c}
    BY <2>1, InvStep
  <2>3. QED
    BY <2>2 DEF Promise!Keep, Whole
<1>3. QED
  BY <1>1, <1>2, WorkspaceInvariant, PTL DEF Spec, ImplementsArtifactPromise, Promise!Spec, Whole

\* A log nobody damaged verifies when it can be read, and is all that was appended,
\* across lost writers and reopened stores.
THEOREM LogsSurviveLoss == Spec => []UndamagedLogsVerify
<1>1. WorkspaceInv => UndamagedLogsVerify
  <2>1. SUFFICES ASSUME WorkspaceInv, NEW r \in Runs, r \notin damaged, Readable(file[r])
                 PROVE  Verified(file[r]) /\ Bodies(ReadAll(file[r])) = written[r]
    BY DEF UndamagedLogsVerify
  <2> DEFINE s == file[r]
             w == written[r]
  <2>2. IsSeq(s) /\ IsSeq(w) /\ LinesInv(s, w, Whole) /\ Chained(s, w)
    BY <2>1 DEF WorkspaceInv, LogInv
  <2>3. /\ DOMAIN s = 1..Len(s)
        /\ w = [i \in 1..Len(w) |-> w[i]]
        /\ Len(s) = Len(w)
    BY <2>2, LenProperties DEF IsSeq, Chained
  <2>4. Readable(s)
    BY <2>1
  <2> HIDE DEF s, w
  <2>5. DOMAIN ReadAll(s) = 1..Len(s) /\ \A i \in 1..Len(s) : ReadAll(s)[i] = s[i].event
    BY <2>3 DEF ReadAll
  <2>6. VerifyChain(ReadAll(s))
    <3>1. SUFFICES ASSUME NEW i \in 1..Len(s)
                   PROVE  /\ s[i].event.seq = i - 1
                          /\ s[i].event.prev =
                               IF i = 1 THEN Genesis ELSE ReadAll(s)[i - 1].hash
                          /\ s[i].event.hash = Hash(s[i].event.seq, s[i].event.prev, s[i].event.body)
      BY <2>5 DEF VerifyChain
    <3>2. /\ s[i].event.seq = i - 1
          /\ s[i].event.prev = IF i = 1 THEN Genesis ELSE s[i - 1].event.hash
          /\ s[i].event.body = w[i]
      BY <2>2 DEF Chained
    <3>3. i # 1 => i - 1 \in 1..Len(s)
      BY <2>2, LenProperties DEF IsSeq
    <3>4. s[i].event.hash = Hash(s[i].event.seq, s[i].event.prev, w[s[i].event.seq + 1])
      BY <2>2 DEF LinesInv, LineInv
    <3>5. s[i].event.seq + 1 = i
      BY <3>2
    <3>6. QED
      BY <2>5, <3>2, <3>3, <3>4, <3>5
  <2>7. Bodies(ReadAll(s)) = w
    BY <2>2, <2>3, <2>5 DEF Bodies, Chained
  <2>8. QED
    BY <2>4, <2>6, <2>7 DEF Verified, s, w
<1>2. QED
  BY <1>1, WorkspaceInvariant, PTL

\* Two payloads under one number and one predecessor do not share a hash.
CollisionFree == \A n, p, b, c : Hash(n, p, b) = Hash(n, p, c) => b = c

\* Numbers and hashes that fit leave no room for another payload.
LEMMA VerifiedIsTrue ==
  ASSUME CollisionFree, WorkspaceInv
  PROVE  VerifiedLogsAreTrue
<1>1. SUFFICES ASSUME NEW r \in Runs, Verified(file[r])
               PROVE  IsPrefix(Bodies(ReadAll(file[r])), written[r])
  BY DEF VerifiedLogsAreTrue
<1> DEFINE s == file[r]
           w == written[r]
           b == Bodies(ReadAll(s))
<1>2. IsSeq(s) /\ IsSeq(w) /\ LinesInv(s, w, Whole) /\ VerifyChain(ReadAll(s))
  BY <1>1 DEF WorkspaceInv, LogInv, Verified
<1>3. DOMAIN s = 1..Len(s) /\ Len(s) \in Nat /\ Len(w) \in Nat
  BY <1>2, LenProperties DEF IsSeq
<1>4. b = [i \in 1..Len(s) |-> s[i].event.body]
  BY <1>3 DEF Bodies, ReadAll
<1> HIDE DEF s, w, b
<1>5. DOMAIN ReadAll(s) = 1..Len(s) /\ \A i \in 1..Len(s) : ReadAll(s)[i] = s[i].event
  BY <1>3 DEF ReadAll
<1>6. ASSUME NEW i \in 1..Len(s)
      PROVE  i \in 1..Len(w) /\ b[i] = w[i]
  <2>1. /\ s[i].event.seq = i - 1
        /\ s[i].event.hash = Hash(s[i].event.seq, s[i].event.prev, s[i].event.body)
    BY <1>2, <1>5 DEF VerifyChain
  <2>2. /\ s[i].event.seq \in 0..(Len(w) - 1)
        /\ s[i].event.hash = Hash(s[i].event.seq, s[i].event.prev, w[s[i].event.seq + 1])
    BY <1>2 DEF LinesInv, LineInv
  <2>3. i \in 1..Len(w) /\ s[i].event.seq + 1 = i
    BY <1>3, <2>1, <2>2
  <2>4. s[i].event.body = w[i]
    BY <2>1, <2>2, <2>3, CollisionFree DEF CollisionFree
  <2>5. QED
    BY <1>4, <2>3, <2>4
<1>7. Len(s) <= Len(w)
  <2>1. CASE Len(s) = 0
    BY <1>3, <2>1
  <2>2. CASE Len(s) # 0
    <3>1. Len(s) \in 1..Len(s)
      BY <1>3, <2>2
    <3>2. Len(s) \in 1..Len(w)
      BY <1>6, <3>1
    <3>3. QED
      BY <1>3, <3>2
  <2>3. QED
    BY <2>1, <2>2
<1>8. Len(b) = Len(s)
  BY <1>3, <1>4
<1>9. SubSeq(b, 1, Len(s)) = SubSeq(w, 1, Len(s))
  BY <1>3, <1>6
<1>10. QED
  BY <1>7, <1>8, <1>9 DEF IsPrefix, s, w, b

\* Without collisions, a log that verifies is a beginning of what was appended,
\* whatever lines were changed or dropped outside of the store (verify_chain).
THEOREM TamperingShows ==
  ASSUME CollisionFree
  PROVE  Spec => []VerifiedLogsAreTrue
<1>1. WorkspaceInv => VerifiedLogsAreTrue
  BY VerifiedIsTrue
<1>2. QED
  BY <1>1, WorkspaceInvariant, PTL

-------------------------------------------------------------------------------
(***************************************************************************)
(* What was appended is what was executed.                                 *)
(***************************************************************************)

\* The initial state in the log is that of the files which were executed, and
\* nothing is executed before it is appended.
StartedInv ==
  /\ executed = [r \in Runs |-> executed[r]]
  /\ \A r \in Runs : \A i \in 1..Len(written[r]) :
       written[r][i].type = "run.started" =>
         /\ phase[r] \notin {"none", "queued", "created"}
         /\ written[r][i].files = executed[r].files

\* Appending what is due, in full or in part, keeps it.
LEMMA DueKeepsStarted ==
  ASSUME WorkspaceInv, StartedInv, NEW r \in Runs, NEW event \in Due(r),
         written' = [written EXCEPT ![r] = Append(@, event.body)],
         executed' = IF phase[r] = "created" THEN [executed EXCEPT ![r] = disk] ELSE executed,
         \/ phase' = [phase EXCEPT ![r] = event.then]
         \/ phase' = [phase EXCEPT ![r] = "lost"]
  PROVE  StartedInv'
<1>1. /\ written = [q \in Runs |-> written[q]]
      /\ phase \in [Runs -> ProcessPhases]
      /\ executed = [q \in Runs |-> executed[q]]
      /\ IsSeq(written[r])
  BY DEF WorkspaceInv, LogInv, StartedInv
<1>2. executed' = [q \in Runs |-> executed'[q]]
  BY <1>1
<1>3. ASSUME NEW q \in Runs \ {r}
      PROVE  written'[q] = written[q] /\ executed'[q] = executed[q] /\ phase'[q] = phase[q]
  BY <1>1
<1>4. /\ event.body.type = "run.started" <=> phase[r] = "created"
      /\ phase[r] = "created" => event.body.files = disk.files /\ event.then = "snapshot"
      /\ phase[r] # "created" =>
           phase[r] = "queued" \/ event.then \notin {"none", "queued", "created"}
  <2> USE DEF Due, Event, Naming, Started, Body
  <2>1. CASE phase[r] \in {"queued", "created"}
    BY <2>1
  <2>2. CASE phase[r] = "snapshot"
    BY <2>2
  <2>3. CASE phase[r] = "patching"
    BY <2>3
  <2>4. CASE phase[r] \notin {"queued", "created", "snapshot", "patching"}
    BY <2>4
  <2>5. QED
    BY <2>1, <2>2, <2>3, <2>4
<1>5. ASSUME NEW i \in 1..Len(written'[r]), written'[r][i].type = "run.started"
      PROVE  /\ phase'[r] \notin {"none", "queued", "created"}
             /\ written'[r][i].files = executed'[r].files
  <2>1. /\ written'[r] = Append(written[r], event.body)
        /\ executed'[r] = IF phase[r] = "created" THEN disk ELSE executed[r]
        /\ phase'[r] \in {event.then, "lost"}
    BY <1>1
  <2>2. /\ Len(written'[r]) = Len(written[r]) + 1
        /\ \A j \in 1..Len(written[r]) : written'[r][j] = written[r][j]
        /\ written'[r][Len(written[r]) + 1] = event.body
        /\ Len(written[r]) \in Nat
    BY <1>1, <2>1, AppendIsSeq, LenProperties DEF IsSeq
  <2>3. i \in 1..Len(written[r]) \/ i = Len(written[r]) + 1
    BY <2>2
  <2>4. CASE i \in 1..Len(written[r])
    <3>1. /\ phase[r] \notin {"none", "queued", "created"}
          /\ written[r][i].files = executed[r].files
      BY <1>5, <2>2, <2>4 DEF StartedInv
    <3>2. QED
      BY <1>4, <2>1, <2>2, <2>4, <3>1
  <2>5. CASE i = Len(written[r]) + 1
    <3>1. phase[r] = "created"
      BY <1>4, <1>5, <2>2, <2>5
    <3>2. QED
      BY <1>4, <2>1, <2>2, <2>5, <3>1
  <2>6. QED
    BY <2>3, <2>4, <2>5
<1>6. QED
  BY <1>2, <1>3, <1>5 DEF StartedInv

\* Every step keeps what a log says of the files that ran.
LEMMA StartedStep ==
  ASSUME WorkspaceInv, StartedInv, [Next]_vars
  PROVE  StartedInv'
<1>1. ASSUME UNCHANGED <<written, executed>>,
             \A r \in Runs : phase'[r] \in {"none", "queued", "created"} =>
               phase[r] \in {"none", "queued", "created"}
      PROVE  StartedInv'
  BY <1>1 DEF StartedInv
<1>2. phase \in [Runs -> ProcessPhases]
  BY DEF WorkspaceInv
<1>3. ASSUME NEW r \in Runs, RunWrites(r)
      PROVE  StartedInv'
  <2>1. PICK event \in Due(r) : Emit(r, event.body) /\ Reach(r, event.then)
    BY <1>3 DEF RunWrites
  <2>2. /\ written' = [written EXCEPT ![r] = Append(@, event.body)]
        /\ executed' = IF phase[r] = "created" THEN [executed EXCEPT ![r] = disk] ELSE executed
        /\ phase' = [phase EXCEPT ![r] = event.then]
    BY <1>3, <2>1 DEF RunWrites, Emit, EmitWith, Reach
  <2>3. QED
    BY <2>2, DueKeepsStarted
<1>4. ASSUME NEW r \in Runs, LoseInLine(r)
      PROVE  StartedInv'
  <2>1. PICK event \in Due(r) : written' = [written EXCEPT ![r] = Append(@, event.body)]
    BY <1>4 DEF LoseInLine
  <2>2. /\ executed' = IF phase[r] = "created" THEN [executed EXCEPT ![r] = disk] ELSE executed
        /\ phase' = [phase EXCEPT ![r] = "lost"]
    BY <1>4 DEF LoseInLine, Reach
  <2>3. QED
    BY <2>1, <2>2, DueKeepsStarted
<1>5. ASSUME NEW r \in Runs,
             \/ RunPuts(r) \/ RunStores(r) \/ RunSkipsSnapshot(r)
             \/ RunFreezes(r) \/ Lose(r) \/ Submit(r)
      PROVE  StartedInv'
  <2>1. /\ UNCHANGED <<written, executed>>
        /\ \/ UNCHANGED phase
           \/ phase' = [phase EXCEPT ![r] = "freezing"]
           \/ phase' = [phase EXCEPT ![r] = "patching"]
           \/ phase' = [phase EXCEPT ![r] = "lost"]
           \/ phase[r] = "none" /\ phase' = [phase EXCEPT ![r] = "queued"]
    BY <1>5 DEF RunPuts, RunStores, RunSkipsSnapshot, RunFreezes, Lose, Submit, Reach, logs, progress
  <2>2. \A q \in Runs : phase'[q] \in {"none", "queued", "created"} =>
                          phase[q] \in {"none", "queued", "created"}
    BY <1>2, <2>1
  <2>3. QED
    BY <1>1, <2>1, <2>2
<1>6. ASSUME NEW r \in Runs, Reopen(r)
      PROVE  StartedInv'
  <2>1. /\ UNCHANGED <<executed, phase>>
        /\ written' = [written EXCEPT ![r] = Append(@, Body("annotation.added"))]
    BY <1>6 DEF Reopen, EmitWith, progress
  <2>2. /\ written = [q \in Runs |-> written[q]]
        /\ IsSeq(written[r])
    BY DEF WorkspaceInv, LogInv
  <2> DEFINE b == Body("annotation.added")
  <2>3. /\ Len(Append(written[r], b)) = Len(written[r]) + 1
        /\ \A j \in 1..Len(written[r]) : Append(written[r], b)[j] = written[r][j]
        /\ Append(written[r], b)[Len(written[r]) + 1] = b
        /\ Len(written[r]) \in Nat
    <3> HIDE DEF b
    <3>1. QED
      BY <2>2, AppendIsSeq, LenProperties DEF IsSeq
  <2>4. b.type # "run.started"
    BY DEF Body
  <2> HIDE DEF b
  <2>5. /\ written'[r] = Append(written[r], b)
        /\ \A q \in Runs \ {r} : written'[q] = written[q]
    BY <2>1, <2>2 DEF b
  <2>6. ASSUME NEW i \in 1..Len(written'[r]), written'[r][i].type = "run.started"
        PROVE  i \in 1..Len(written[r]) /\ written'[r][i] = written[r][i]
    BY <2>3, <2>4, <2>5, <2>6
  <2>7. QED
    BY <2>1, <2>5, <2>6 DEF StartedInv
<1>7. ASSUME NEW r \in Runs, Damage(r)
      PROVE  StartedInv'
  BY <1>1, <1>7 DEF Damage, progress
<1>8. CASE Edit \/ Register \/ RegisterAgent \/ UNCHANGED vars
  <2>1. UNCHANGED <<written, executed, phase>>
    BY <1>8 DEF Edit, Register, RegisterAgent, vars, logs, progress
  <2>2. QED
    BY <1>1, <2>1
<1>9. QED
  BY <1>3, <1>4, <1>5, <1>6, <1>7, <1>8 DEF Next, RunSteps

\* Without collisions, a replay that matches on the digest of the manifest replays
\* what was executed, whoever edited the package or the log in between (runner.py:141,
\* replay_run).
THEOREM ReplayIsHonest ==
  ASSUME CollisionFree
  PROVE  Spec => []ReplayTellsTheTruth
<1>1. Init => StartedInv
  <2>1. SUFFICES ASSUME Init PROVE StartedInv
    OBVIOUS
  <2>2. /\ executed = [r \in Runs |-> executed[r]]
        /\ \A r \in Runs : Len(written[r]) = 0
    BY <2>1, EmptySeq DEF Init
  <2>3. QED
    BY <2>2 DEF StartedInv
<1>2. WorkspaceInv /\ StartedInv /\ [Next]_vars => StartedInv'
  BY StartedStep
<1>3. WorkspaceInv /\ StartedInv => ReplayTellsTheTruth
  <2>1. SUFFICES ASSUME WorkspaceInv, StartedInv, NEW r \in Runs,
                        Verified(file[r]), Resolve = package[r], Matches(r), IsStarted(r)
                 PROVE  executed[r].files = package[r].files
    BY DEF ReplayTellsTheTruth, Replayable, DigestMatches
  <2> DEFINE s == file[r]
             w == written[r]
             b == Bodies(ReadAll(s))
  <2>2. PICK i \in DOMAIN s : s[i].event.body.type = "run.started"
    BY <2>1 DEF IsStarted
  <2>3. s[i].event.body.files = package[r].files
    BY <2>1, <2>2 DEF Matches
  <2>4. IsPrefix(b, w)
    BY <2>1, VerifiedIsTrue DEF VerifiedLogsAreTrue
  <2>5. IsSeq(s) /\ IsSeq(w)
    BY <2>1 DEF WorkspaceInv, LogInv
  <2>6. DOMAIN s = 1..Len(s) /\ Len(s) \in Nat /\ Len(w) \in Nat
    BY <2>5, LenProperties DEF IsSeq
  <2>7. b = [j \in 1..Len(s) |-> s[j].event.body]
    BY <2>6 DEF Bodies, ReadAll
  <2> HIDE DEF s, w, b
  <2>8. Len(b) = Len(s) /\ i \in 1..Len(s) /\ b[i] = s[i].event.body
    BY <2>2, <2>6, <2>7
  <2>9. i \in 1..Len(w) /\ w[i] = b[i]
    <3>1. Len(b) <= Len(w) /\ SubSeq(b, 1, Len(b)) = SubSeq(w, 1, Len(b))
      BY <2>4 DEF IsPrefix
    <3>2. SubSeq(b, 1, Len(s))[i] = b[i] /\ SubSeq(w, 1, Len(s))[i] = w[i]
      BY <2>6, <2>8
    <3>3. QED
      BY <2>6, <2>8, <3>1, <3>2
  <2>10. w[i].files = executed[r].files
    BY <2>1, <2>2, <2>8, <2>9 DEF StartedInv, w
  <2>11. QED
    BY <2>3, <2>8, <2>9, <2>10
<1>4. QED
  BY <1>1, <1>2, <1>3, WorkspaceInvariant, PTL DEF Spec

-------------------------------------------------------------------------------
(***************************************************************************)
(* The registries.                                                         *)
(***************************************************************************)
RegistryInv ==
  /\ disk \in Packages
  /\ \A row \in scenarios : row.digest \in Packages /\ row.version = row.digest.version
  /\ \A row, other \in scenarios : row.version = other.version => row = other
  /\ IsSeq(agents)
  /\ Range(agents) \subseteq Configs \ Secrets
  /\ package \in [Runs -> Packages \cup {Nothing}]
  /\ executed \in [Runs -> Packages \cup {Nothing}]

\* A revision that is saved again changes nothing; another becomes the newest.
LEMMA SaveAgentMoves ==
  ASSUME IsSeq(agents), NEW config
  PROVE  /\ IsSeq(SaveAgent(config))
         /\ Range(SaveAgent(config)) \subseteq Range(agents) \cup {config}
         /\ \/ SaveAgent(config) = agents
            \/ /\ config \notin ToSet(agents)
               /\ SaveAgent(config) # <<>> /\ Last(SaveAgent(config)) = config
<1>1. Len(agents) \in Nat /\ DOMAIN agents = 1..Len(agents)
  BY LenProperties DEF IsSeq
<1>2. CASE Contains(agents, config)
  BY <1>2 DEF SaveAgent
<1>3. CASE ~Contains(agents, config)
  <2> DEFINE more == Append(agents, config)
  <2>1. SaveAgent(config) = more
    BY <1>3 DEF SaveAgent
  <2>2. config \notin ToSet(agents)
    BY <1>1, <1>3 DEF Contains, ToSet
  <2>3. /\ IsSeq(more)
        /\ Len(more) = Len(agents) + 1
        /\ \A i \in 1..Len(agents) : more[i] = agents[i]
        /\ more[Len(agents) + 1] = config
    BY AppendIsSeq
  <2> HIDE DEF more
  <2>4. more # <<>> /\ Last(more) = config
    BY <1>1, <2>3, EmptySeq DEF Last
  <2>5. ASSUME NEW x \in Range(more)
        PROVE  x \in Range(agents) \cup {config}
    <3>1. PICK i \in 1..Len(more) : x = more[i]
      BY <2>3, RangeEquality DEF IsSeq
    <3>2. i \in 1..Len(agents) \/ i = Len(agents) + 1
      BY <1>1, <2>3
    <3>3. \A j \in 1..Len(agents) : agents[j] \in Range(agents)
      BY ElementOfSeq DEF IsSeq
    <3>4. QED
      BY <2>3, <3>1, <3>2, <3>3
  <2>6. QED
    BY <2>1, <2>2, <2>3, <2>4, <2>5
<1>4. QED
  BY <1>2, <1>3

LEMMA RegistryStep ==
  ASSUME RegistryInv, [Next]_vars
  PROVE  RegistryInv'
<1>1. ASSUME UNCHANGED registry,
             package' \in [Runs -> Packages \cup {Nothing}],
             executed' \in [Runs -> Packages \cup {Nothing}]
      PROVE  RegistryInv'
  BY <1>1 DEF RegistryInv, registry
<1>2. /\ package \in [Runs -> Packages \cup {Nothing}]
      /\ executed \in [Runs -> Packages \cup {Nothing}]
      /\ disk \in Packages
  BY DEF RegistryInv
<1>3. ASSUME NEW r \in Runs, RunSteps(r) \/ Lose(r) \/ LoseInLine(r)
      PROVE  RegistryInv'
  <2>1. /\ UNCHANGED <<registry, package>>
        /\ \/ UNCHANGED executed
           \/ executed' = [executed EXCEPT ![r] = disk]
    BY <1>3 DEF RunSteps, RunWrites, RunPuts, RunStores, RunSkipsSnapshot, RunFreezes,
                Lose, LoseInLine, progress
  <2>2. executed' \in [Runs -> Packages \cup {Nothing}]
    BY <1>2, <2>1
  <2>3. QED
    BY <1>1, <1>2, <2>1, <2>2
<1>4. ASSUME NEW r \in Runs, Submit(r)
      PROVE  RegistryInv'
  <2>1. /\ UNCHANGED <<registry, executed>>
        /\ package' = [package EXCEPT ![r] = disk] \/ package' = [package EXCEPT ![r] = Resolve]
    BY <1>4 DEF Submit
  <2>2. Resolve \in Packages \cup {Nothing}
    BY <1>2 DEF Resolve
  <2>3. package' \in [Runs -> Packages \cup {Nothing}]
    BY <1>2, <2>1, <2>2
  <2>4. QED
    BY <1>1, <1>2, <2>1, <2>3
<1>5. ASSUME NEW r \in Runs, Reopen(r) \/ Damage(r)
      PROVE  RegistryInv'
  BY <1>1, <1>2, <1>5 DEF Reopen, Damage, progress
<1>6. CASE Edit
  BY <1>6 DEF Edit, EditPackage, progress, RegistryInv
<1>7. CASE Register
  <2>1. /\ scenarios' = {row \in scenarios : row.version # disk.version}
                          \cup {[version |-> disk.version, digest |-> disk]}
        /\ UNCHANGED <<disk, agents, package, executed>>
    BY <1>7 DEF Register, AddScenario, progress
  <2>2. \A row \in scenarios' : row.digest \in Packages /\ row.version = row.digest.version
    BY <1>2, <2>1 DEF RegistryInv
  <2>3. \A row, other \in scenarios' : row.version = other.version => row = other
    BY <2>1 DEF RegistryInv
  <2>4. QED
    BY <2>1, <2>2, <2>3 DEF RegistryInv
<1>8. CASE RegisterAgent
  <2>1. PICK config \in Configs \ Secrets : agents' = SaveAgent(config)
    BY <1>8 DEF RegisterAgent, AddAgent
  <2>2. UNCHANGED <<disk, scenarios, package, executed>>
    BY <1>8 DEF RegisterAgent, AddAgent, progress
  <2>3. IsSeq(agents) /\ Range(agents) \subseteq Configs \ Secrets
    BY DEF RegistryInv
  <2>4. IsSeq(agents') /\ Range(agents') \subseteq Configs \ Secrets
    BY <2>1, <2>3, SaveAgentMoves
  <2>5. QED
    BY <2>2, <2>4 DEF RegistryInv
<1>9. CASE UNCHANGED vars
  BY <1>1, <1>2, <1>9 DEF vars, progress
<1>10. QED
  BY <1>3, <1>4, <1>5, <1>6, <1>7, <1>8, <1>9 DEF Next

LEMMA RegistryInitially == Init => RegistryInv
<1>1. SUFFICES ASSUME Init PROVE RegistryInv
  OBVIOUS
<1>2. PICK config \in Configs \ Secrets : agents = <<config>>
  BY <1>1 DEF Init, RegistryInit
<1>3. agents \in Seq(Configs \ Secrets)
  BY <1>2
<1>4. IsSeq(agents) /\ Range(agents) \subseteq Configs \ Secrets
  BY <1>3, SeqIsSeq, RangeOfSeq
<1>5. QED
  BY <1>1, <1>4 DEF Init, RegistryInit, RegistryInv

\* Types of the workspace; rows are unique by version and no stored revision holds
\* a secret.
THEOREM WorkspaceTypes == Spec => []WorkspaceTypeOK
<1>1. RegistryInv /\ [Next]_vars => RegistryInv'
  BY RegistryStep
<1>2. WorkspaceInv /\ RegistryInv => WorkspaceTypeOK
  <2>1. SUFFICES ASSUME WorkspaceInv, RegistryInv PROVE WorkspaceTypeOK
    OBVIOUS
  <2>2. ToSet(agents) \subseteq Configs \ Secrets
    BY <2>1 DEF RegistryInv, ToSet, Range
  <2>3. /\ target \in [Contents -> {"missing", "partial", "whole"}]
        /\ \A w \in Writers :
             put[w].step \in PutSteps /\ (put[w].step # "none" => put[w].content \in Contents)
        /\ phase \in [Runs -> ProcessPhases]
    BY <2>1 DEF WorkspaceInv, StoreInv
  <2>4. QED
    BY <2>1, <2>2, <2>3 DEF WorkspaceTypeOK, RegistryInv
<1>3. QED
  BY <1>1, <1>2, RegistryInitially, WorkspaceInvariant, PTL DEF Spec

\* A name only ever moves on to a revision that was not stored before (save_agent).
THEOREM NamesAdvance == Spec => NamesMoveForward
<1>1. RegistryInv /\ [Next]_vars => RegistryInv'
  BY RegistryStep
<1>2. RegistryInv /\ [Next]_vars =>
        [AgentNamed' # AgentNamed => AgentNamed' \notin ToSet(agents)]_vars
  <2>1. SUFFICES ASSUME RegistryInv, Next, AgentNamed' # AgentNamed
                 PROVE  AgentNamed' \notin ToSet(agents)
    BY DEF AgentNamed, vars, registry
  <2>2. agents' # agents
    BY <2>1 DEF AgentNamed
  <2>3. PICK config \in Configs \ Secrets : agents' = SaveAgent(config)
    BY <2>1, <2>2 DEF Next, RunSteps, RunWrites, RunPuts, RunStores, RunSkipsSnapshot,
                      RunFreezes, Lose, LoseInLine, Submit, Reopen, Damage, Edit, EditPackage,
                      Register, AddScenario, RegisterAgent, AddAgent, registry
  <2>4. IsSeq(agents)
    BY <2>1 DEF RegistryInv
  <2>5. config \notin ToSet(agents) /\ agents' # <<>> /\ Last(agents') = config
    BY <2>2, <2>3, <2>4, SaveAgentMoves
  <2>6. QED
    BY <2>5 DEF AgentNamed
<1>3. QED
  BY <1>1, <1>2, RegistryInitially, PTL DEF Spec, NamesMoveForward

-------------------------------------------------------------------------------
(***************************************************************************)
(* What validation accepts stays judgeable.                                *)
(***************************************************************************)
Newest(row) == \A other \in scenarios : Rank(other.version) <= Rank(row.version)

SoundInv ==
  /\ \A row \in scenarios : Accepts(row.digest.manifest)
  /\ scenarios = {} \/ \E row \in scenarios : Newest(row)
  /\ \A r \in byId : r \in Runs /\ phase[r] # "none" /\ Accepts(package[r].manifest)

\* condition_references finds the suites that evaluation looks up.
LEMMA ReferencesAreLookups ==
  ASSUME NEW m
  PROVE  LooksUp(m) = References(m)
BY DEF LooksUp, References

\* Replacing the row of a version leaves a newest row: the one there was, the new
\* one, or the new one in its place, whose version and so whose rank is the same.
LEMMA AddedRows ==
  ASSUME RegistryInv, SoundInv, AddScenario
  PROVE  /\ \A row \in scenarios' : Accepts(row.digest.manifest)
         /\ scenarios' # {} /\ \E row \in scenarios' : Newest(row)'
<1> DEFINE new == [version |-> disk.version, digest |-> disk]
<1>1. scenarios' = {row \in scenarios : row.version # disk.version} \cup {new}
  BY DEF AddScenario
<1>2. new.version = disk.version /\ new.digest = disk
  OBVIOUS
<1> HIDE DEF new
<1>3. \A row \in scenarios' : Accepts(row.digest.manifest)
  BY <1>1, <1>2 DEF AddScenario, SoundInv
<1>4. /\ Rank(disk.version) \in Int
      /\ \A row \in scenarios : Rank(row.version) \in Int
  BY RegistryAssumption DEF RegistryInv
<1>5. new \in scenarios'
  BY <1>1
<1>6. \E row \in scenarios' : Newest(row)'
  <2>1. CASE scenarios = {}
    <3>1. scenarios' = {new}
      BY <1>1, <2>1
    <3>2. QED
      BY <1>2, <1>4, <3>1 DEF Newest
  <2>2. CASE scenarios # {}
    <3>1. PICK row \in scenarios : Newest(row)
      BY <2>2 DEF SoundInv
    <3>2. CASE Rank(row.version) <= Rank(disk.version)
      <4>1. \A other \in scenarios' : Rank(other.version) <= Rank(new.version)
        BY <1>1, <1>2, <1>4, <3>1, <3>2 DEF Newest
      <4>2. QED
        BY <1>5, <4>1 DEF Newest
    <3>3. CASE ~(Rank(row.version) <= Rank(disk.version))
      <4>1. row.version # disk.version
        BY <1>4, <3>3
      <4>2. row \in scenarios'
        BY <1>1, <3>1, <4>1
      <4>3. \A other \in scenarios' : Rank(other.version) <= Rank(row.version)
        BY <1>1, <1>2, <1>4, <3>1, <3>3 DEF Newest
      <4>4. QED
        BY <4>2, <4>3 DEF Newest
    <3>4. QED
      BY <3>2, <3>3
  <2>3. QED
    BY <2>1, <2>2
<1>7. QED
  BY <1>3, <1>5, <1>6

\* What is started by id was registered as it is on disk.
LEMMA ResolvedIsAccepted ==
  ASSUME SoundInv, Resolve # Nothing
  PROVE  Accepts(Resolve.manifest)
<1>1. Resolve = disk /\ NewestRow.digest = disk /\ scenarios # {}
  BY DEF Resolve
<1>2. \E row \in scenarios : Newest(row)
  BY <1>1 DEF SoundInv
<1>3. NewestRow \in scenarios
  BY <1>2 DEF NewestRow, Newest
<1>4. QED
  BY <1>1, <1>3 DEF SoundInv

LEMMA SoundStep ==
  ASSUME WorkspaceInv, RegistryInv, SoundInv, [Next]_vars
  PROVE  SoundInv'
<1>1. /\ phase \in [Runs -> ProcessPhases]
      /\ package \in [Runs -> Packages \cup {Nothing}]
  BY DEF WorkspaceInv, RegistryInv
<1>2. ASSUME UNCHANGED <<scenarios, package, byId>>,
             \A r \in Runs : phase[r] # "none" => phase'[r] # "none"
      PROVE  SoundInv'
  BY <1>2 DEF SoundInv, Newest
<1>3. ASSUME NEW r \in Runs, RunSteps(r) \/ Lose(r) \/ LoseInLine(r)
      PROVE  SoundInv'
  <2>1. /\ UNCHANGED <<scenarios, package, byId>>
        /\ \/ UNCHANGED phase
           \/ \E p : p # "none" /\ phase' = [phase EXCEPT ![r] = p]
    <3>1. \A e \in Due(r) : e.then # "none"
      BY DEF Due, Event
    <3>2. QED
      BY <1>3, <3>1 DEF RunSteps, RunWrites, RunPuts, RunStores, RunSkipsSnapshot,
                  RunFreezes, Lose, LoseInLine, Reach, registry, progress
  <2>2. \A q \in Runs : phase[q] # "none" => phase'[q] # "none"
    BY <1>1, <2>1
  <2>3. QED
    BY <1>2, <2>1, <2>2
<1>4. ASSUME NEW r \in Runs, Submit(r)
      PROVE  SoundInv'
  <2>1. /\ UNCHANGED scenarios
        /\ phase[r] = "none" /\ phase' = [phase EXCEPT ![r] = "queued"]
        /\ \/ package' = [package EXCEPT ![r] = disk] /\ byId' = byId
           \/ /\ Resolve # Nothing
              /\ package' = [package EXCEPT ![r] = Resolve] /\ byId' = byId \cup {r}
    BY <1>4 DEF Submit, Reach, registry
  <2>2. /\ \A q \in Runs : phase[q] # "none" => phase'[q] # "none"
        /\ phase'[r] # "none"
        /\ \A q \in Runs \ {r} : package'[q] = package[q]
        /\ byId' # byId => package'[r] = Resolve /\ Resolve # Nothing
    BY <1>1, <2>1
  <2>3. r \notin byId
    BY <2>1 DEF SoundInv
  <2>4. ASSUME NEW q \in byId'
        PROVE  q \in Runs /\ phase'[q] # "none" /\ Accepts(package'[q].manifest)
    <3>1. CASE q \in byId
      BY <2>2, <2>3, <3>1 DEF SoundInv
    <3>2. CASE q \notin byId
      <4>1. q = r /\ byId' # byId
        BY <2>1, <2>4, <3>2
      <4>2. QED
        BY <2>2, <4>1, ResolvedIsAccepted
    <3>3. QED
      BY <3>1, <3>2
  <2>5. QED
    BY <2>1, <2>4 DEF SoundInv, Newest
<1>5. ASSUME NEW r \in Runs, Reopen(r) \/ Damage(r)
      PROVE  SoundInv'
  BY <1>2, <1>5 DEF Reopen, Damage, registry, progress
<1>6. CASE Edit \/ RegisterAgent \/ UNCHANGED vars
  BY <1>2, <1>6 DEF Edit, EditPackage, RegisterAgent, AddAgent, vars, registry, progress
<1>7. CASE Register
  <2>1. AddScenario /\ UNCHANGED <<phase, package, byId>>
    BY <1>7 DEF Register, progress
  <2>2. QED
    BY <2>1, AddedRows DEF SoundInv
<1>8. QED
  BY <1>3, <1>4, <1>5, <1>6, <1>7 DEF Next

\* A run started by id is judged by suites that exist, whatever was edited since it
\* was registered (validate_package, resolve_package).
THEOREM JudgedBySuites == Spec => []RegisteredRunsAreJudgeable
<1>1. Init => SoundInv
  BY DEF Init, RegistryInit, SoundInv
<1>2. WorkspaceInv /\ RegistryInv /\ SoundInv /\ [Next]_vars => SoundInv'
  BY SoundStep
<1>3. RegistryInv /\ [Next]_vars => RegistryInv'
  BY RegistryStep
<1>4. SoundInv => RegisteredRunsAreJudgeable
  <2>1. SUFFICES ASSUME SoundInv, NEW r \in byId, NEW p \in ToSet(package[r].manifest.success)
                 PROVE  LET m == package[r].manifest
                        IN  /\ p.kind = "test_suite" => p.suite \in m.suites
                            /\ p.kind = "condition" => LooksUp(m)[p.condition] \subseteq m.suites
    BY DEF RegisteredRunsAreJudgeable
  <2> DEFINE m == package[r].manifest
  <2>2. Accepts(m)
    BY <2>1 DEF SoundInv
  <2> HIDE DEF m
  <2>3. p \in ToSet(m.success)
    BY <2>1 DEF m
  <2>4. p.kind = "test_suite" => p.suite \in m.suites
    BY <2>2, <2>3 DEF Accepts, SuccessShape
  <2>5. p.kind = "condition" => References(m)[p.condition] \subseteq m.suites
    BY <2>2, <2>3 DEF Accepts, Conditions
  <2>6. QED
    BY <2>4, <2>5, ReferencesAreLookups DEF m
<1>5. QED
  BY <1>1, <1>2, <1>3, <1>4, RegistryInitially, WorkspaceInvariant, PTL DEF Spec

===============================================================================
