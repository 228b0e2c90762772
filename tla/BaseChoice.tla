----------------------------- MODULE BaseChoice -----------------------------
(***************************************************************************)
(* What Transplant relies on when it asks for a base, with no word of the  *)
(* cache, the levels or the downloads: a question for a graph format gets  *)
(* at most one answer, of BasesFor that format, and the answer stands      *)
(* until it is dropped or the next question is asked.                      *)
(***************************************************************************)
EXTENDS Bases

VARIABLES asked,     \* the format that a base is asked for, or "none"
          given      \* the answer, or NoBase

choiceVars == <<asked, given>>

ChoiceInit == asked = "none" /\ given = NoBase

Ask == asked' \in {"section", "trailer"} /\ given' = NoBase

Answer ==
    /\ asked # "none" /\ given = NoBase
    /\ given' \in BasesFor(asked)
    /\ UNCHANGED asked

\* The call gives up or is killed, or its answer has been used.
Drop == asked' = "none" /\ given' = NoBase

ChoiceNext == Ask \/ Answer \/ Drop

ChoiceSpec == ChoiceInit /\ [][ChoiceNext]_choiceVars
=============================================================================
