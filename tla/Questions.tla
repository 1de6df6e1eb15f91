----------------------------- MODULE Questions -----------------------------
(***************************************************************************)
(* A question that is asked of one input, and its answer: what an operation*)
(* of the code returns for what it is given.  The modules that extend this *)
(* one say which questions there are and what answers them.                *)
(***************************************************************************)

VARIABLES asked,        \* the name of the question
          about,        \* its input
          answered,     \* whether the algorithm has run
          answer        \* what it returned
vars == <<asked, about, answered, answer>>

Ask(question, inputs) ==
  /\ asked = question /\ about \in inputs
  /\ answered = FALSE /\ answer = {}

Answer(question, result) ==
  /\ asked = question /\ ~answered
  /\ answered' = TRUE /\ answer' = result
  /\ UNCHANGED <<asked, about>>

Answered(question) == asked = question /\ answered
=============================================================================
