----------------------------- MODULE ArtifactStore -----------------------------
(***************************************************************************)
(* The content-addressed store (persistence/artifacts.py), shared by       *)
(* writers in several processes.  An artifact's digest is its content; a   *)
(* writer goes through put() one system call at a time.                    *)
(***************************************************************************)

CONSTANTS
  Writers,
  Contents

VARIABLES
  target,            \* the file of each digest: missing, in part or whole
  put                \* each writer's call: its step and content

artifacts == <<target, put>>

PutSteps == {"none", "check", "write", "replace", "put"}
NoPut == [step |-> "none", content |-> {}]

ArtifactInit ==
  /\ target = [c \in Contents |-> "missing"]
  /\ put = [w \in Writers |-> NoPut]

Step(w, s) == put' = [put EXCEPT ![w].step = s]

BeginPut(w, c) ==
  /\ put[w].step = "none"
  /\ put' = [put EXCEPT ![w] = [step |-> "check", content |-> c]]
  /\ UNCHANGED target

\* A content that is there already is not written again.
CheckTarget(w) ==
  /\ put[w].step = "check"
  /\ Step(w, IF target[put[w].content] = "missing" THEN "write" ELSE "put")
  /\ UNCHANGED target

\* Mutant: the file is opened under its own name.
WriteInPlace(w) ==
  /\ put[w].step = "write"
  /\ target' = [target EXCEPT ![put[w].content] = "partial"]
  /\ Step(w, "replace")

\* mkstemp and write: a file nobody else knows of.
WriteTemp(w) ==
  /\ put[w].step = "write"
  /\ Step(w, "replace")
  /\ UNCHANGED target

\* os.replace: whoever comes second replaces the content by the same.
Replace(w) ==
  /\ put[w].step = "replace"
  /\ target' = [target EXCEPT ![put[w].content] = "whole"]
  /\ Step(w, "put")

\* The writer is lost, or the call raises and its temporary file is removed.
EndPut(w) == put' = [put EXCEPT ![w] = NoPut]

PutStep(w) == CheckTarget(w) \/ WriteTemp(w) \/ Replace(w)

\* get_bytes compares the digest of what it read.
GetSucceeds(c) == target[c] = "whole"

Promise == INSTANCE ArtifactPromise WITH held <- {c \in Contents : target[c] = "whole"}

===============================================================================
