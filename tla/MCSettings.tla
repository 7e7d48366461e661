------------------------------- MODULE MCSettings -------------------------------
(* A small instance of Settings for TLC.                                   *)
EXTENDS Settings

CONSTANTS vi, en, ja

Change(gives, base, targets, dup) ==
    [kind |-> "settings", gives |-> gives, base |-> base, targets |-> targets, dup |-> dup]
Push(ids, language, async) == [kind |-> "import", ids |-> ids, lang |-> language, async |-> async]

OneProject == {[base |-> vi, targets |-> {en}, dup |-> FALSE]}

SomeRequests ==
    {Change({"base", "targets"}, en, {vi}, TRUE), Change({"targets"}, vi, {en, ja}, TRUE),
     Change({"dup"}, vi, {}, TRUE), [kind |-> "create", id |-> 1], [kind |-> "save", id |-> 1],
     Push({1}, vi, TRUE), Push({1}, None, FALSE)}
=============================================================================
