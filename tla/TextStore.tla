------------------------------ MODULE TextStore ------------------------------
(****************************************************************************)
(* What store and search promise to the manager that sends the jobs: one    *)
(* set of texts, and searches that say whether a text is in it.  Where a    *)
(* text is kept, and who is asked for it, is not told.                      *)
(****************************************************************************)
CONSTANTS Text, NoText

VARIABLES texts,    \* the texts that were stored
          query,    \* the text that is searched for, or NoText
          answer    \* what the last search said

Init == texts = {} /\ query = NoText /\ answer = "none"

Add(t) ==
  /\ query = NoText
  /\ texts' = texts \cup {t}
  /\ UNCHANGED <<query, answer>>

Ask(t) ==
  /\ query = NoText
  /\ query' = t
  /\ answer' = "none"
  /\ UNCHANGED texts

Reply ==
  /\ query # NoText
  /\ query' = NoText
  /\ answer' = IF query \in texts THEN "present" ELSE "absent"
  /\ UNCHANGED texts

Next == (\E t \in Text : Add(t) \/ Ask(t)) \/ Reply

Spec == Init /\ [][Next]_<<texts, query, answer>>
==============================================================================
