---------------------------- MODULE MCAITranslation ----------------------------
(* Small instances of AITranslation for TLC.                               *)
EXTENDS AITranslation, TLC

CONSTANTS j1, j2, a, b

\* Two requests for one string, and one request for two strings that are edited twice.
Pair == [jobs |-> {j1, j2}, strings |-> {a}, maxEdits |-> 1,
         inline |-> {}, proposing |-> {}, overwriting |-> {}]
Alone == [Pair EXCEPT !.jobs = {j1}, !.strings = {a, b}, !.maxEdits = 2]

FourPlans ==
    {[Pair EXCEPT !.proposing = {j2}],
     [Pair EXCEPT !.inline = {j2}, !.overwriting = {j1}],
     [Alone EXCEPT !.proposing = {j1}],
     Alone}
=============================================================================
