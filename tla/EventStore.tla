------------------------------ MODULE EventStore ------------------------------
(***************************************************************************)
(* The event log of a run: sealed events in a hash chain                   *)
(* (protocol/events.py) and the JSONL file they are kept in                *)
(* (persistence/events.py), lines that were cut off included.              *)
(***************************************************************************)
EXTENDS Integers, Sequences, SequencesExt

CONSTANTS
  Hash(_, _, _),     \* compute_hash of a sequence number, previous hash and payload
  Genesis            \* GENESIS_HASH

-------------------------------------------------------------------------------
(***************************************************************************)
(* Events.                                                                 *)
(***************************************************************************)
MakeEvent(seq, prev, body) ==
  [seq |-> seq, prev |-> prev, body |-> body, hash |-> Hash(seq, prev, body)]

\* Mutant: links are compared, and no hash is computed again.
VerifyLinks(events) ==
  \A i \in DOMAIN events :
    /\ events[i].seq = i - 1
    /\ events[i].prev = IF i = 1 THEN Genesis ELSE events[i - 1].hash

\* No gap, every link fits, every hash is that of its event.
VerifyChain(events) ==
  \A i \in DOMAIN events :
    /\ events[i].seq = i - 1
    /\ events[i].prev = IF i = 1 THEN Genesis ELSE events[i - 1].hash
    /\ events[i].hash = Hash(events[i].seq, events[i].prev, events[i].body)

-------------------------------------------------------------------------------
(***************************************************************************)
(* The file: lines that parse as an event or do not, and whether the last  *)
(* one has its newline.                                                    *)
(***************************************************************************)
Line(event, parses, ended) == [event |-> event, parses |-> parses, ended |-> ended]

\* fh.write: what follows a line without its newline becomes part of it, and
\* the two together are no event.
WriteLine(file, event, parses, ended) ==
  IF file # <<>> /\ ~Last(file).ended
  THEN Front(file) \o <<Line(event, FALSE, ended)>>
  ELSE Append(file, Line(event, parses, ended))

\* read_all and load_events raise on a line that is no event.
Readable(file) == \A i \in DOMAIN file : file[i].parses

ReadAll(file) == [i \in DOMAIN file |-> file[i].event]

Verified(file) == Readable(file) /\ VerifyChain(ReadAll(file))

\* Mutant: an opened store counts from the start again.
OpenAnew(file) == [seq |-> 0, prev |-> Genesis]

\* EventStore.__init__ goes on where the file ends.
OpenStore(file) ==
  IF file = <<>>
  THEN [seq |-> 0, prev |-> Genesis]
  ELSE [seq |-> Last(file).event.seq + 1, prev |-> Last(file).event.hash]

\* The store's memory after an append.
Advance(event) == [seq |-> event.seq + 1, prev |-> event.hash]

===============================================================================
