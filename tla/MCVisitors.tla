------------------------------ MODULE MCVisitors ------------------------------
(* One browser and its key, two users who follow its link, a trial, a saved  *)
(* row and a login.                                                          *)
EXTENDS Visitors, TLC

CONSTANTS k1, k2, b1, q1, q2, s1, s2, t1, t2, e1, l1, l2, r1

MCKeyOf == [c \in Calls |-> CASE c \in {q1, s1, s2} -> k1 [] c = q2 -> k2 [] OTHER -> None]
MCBrowserOf == [c \in QuickCalls |-> b1]
MCRefOf == [c \in Calls |-> IF c \in {s1, l1} THEN r1 ELSE None]
MCGiftOf == [c \in Calls |-> TRUE]
Alike == Permutations(Users)
\* The faults meet the calls that save rows, and a login; two logins meet each
\* other.
MCScenarios ==
    [calls : {{l1}}, invited : {{}}, faults : {1}]
        \cup [calls : {{q1, s1, s2}, {t1, e1}, {t1, t2}}, invited : {Users}, faults : {1}]
        \cup [calls : {{q1, s1, t1}, {t1, t2, e1}, {t1, l1}, {e1, l1}},
              invited : {Users}, faults : {0}]
        \cup [calls : {{q1, q2}, {q1, s1, l1}, {l1, l2}}, invited : {{}}, faults : {0}]

\* A trial and a PATCH of one user, nothing fails.
MCTrialScenarios == [calls : {{t1, e1}}, invited : {Users}, faults : {0}]
=============================================================================
