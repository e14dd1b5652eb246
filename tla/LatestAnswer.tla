----------------------------- MODULE LatestAnswer -----------------------------
(* What a part of a page promises that shows something about a subject the user
   may change while it is being fetched: it shows what it has last asked for, or
   it says that it is waiting. Answers that come late for an earlier subject
   leave no trace. Which of the components keep the promise is stated where they
   are modelled.                                                                *)
CONSTANT Subjects, Nothing

VARIABLES
    subject,   \* what the user is looking at
    shown,     \* the subject of what is shown, or Nothing
    waiting    \* the component says that it is waiting

answerVars == <<subject, shown, waiting>>

AnswerInit ==
    /\ subject \in Subjects
    /\ waiting \in BOOLEAN
    /\ shown \in {Nothing} \cup (IF waiting THEN {} ELSE {subject})

(* The user turns to something else; what is shown may stay while waiting. *)
Ask ==
    /\ subject' \in Subjects
    /\ waiting' = TRUE
    /\ shown' \in {shown, Nothing}

(* The answer for the present subject comes, or the news that there is none. *)
Answer ==
    /\ waiting
    /\ waiting' = FALSE
    /\ shown' \in {subject, Nothing}
    /\ UNCHANGED subject

(* The answer for the new subject is at hand. *)
AskAndAnswer ==
    /\ subject' \in Subjects
    /\ waiting' = FALSE
    /\ shown' \in {subject', Nothing}

AnswerNext == Ask \/ Answer \/ AskAndAnswer

AnswerSpec == AnswerInit /\ [][AnswerNext]_answerVars
===============================================================================
