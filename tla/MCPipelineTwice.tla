--------------------------- MODULE MCPipelineTwice ---------------------------
(***************************************************************************)
(* Calls of process one after another, with the first answer remembered.   *)
(***************************************************************************)
EXTENDS MCPipeline

OneText == {x}

VARIABLE first   \* the question and the answer of the first call, or none

InitTwice == Init /\ first = {}

NextTwice ==
  /\ Next
  /\ first' = IF first = {} /\ stage = "done"
                THEN {[text |-> text, mode |-> mode, decay |-> decay, prompt |-> prompt]}
                ELSE first

SpecTwice == InitTwice /\ [][NextTwice]_<<vars, first>>

\* The same question, asked of the same engine again, gets the same prompt: what
\* README.md calls deterministic (src/lib.rs 53-67).
Deterministic ==
  stage = "done" =>
    \A f \in first :
      text = f.text /\ mode = f.mode /\ decay = f.decay => prompt = f.prompt

=============================================================================
