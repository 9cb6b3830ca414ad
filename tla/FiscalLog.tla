------------------------------- MODULE FiscalLog -------------------------------
(***************************************************************************)
(* What the tax authority is promised about the invoices of one tenant:    *)
(* the documents form a log that only grows; each carries its place in the *)
(* log as its counter value and the hash of the document before it.        *)
(***************************************************************************)
EXTENDS Integers, Sequences

CONSTANTS
    Invoices,
    Hashes,
    Genesis     \* the "previous hash" of the first document

VARIABLE log

Document ==
    [invoice : Invoices, icv : Nat, hash : Hashes, previous : Hashes \cup {Genesis}]

Init == log = <<>>

Used == {log[k].hash : k \in DOMAIN log}

Issue(i, h) ==
    /\ h \notin Used
    /\ log' = Append(log,
            [invoice |-> i, icv |-> Len(log) + 1, hash |-> h,
             previous |-> IF log = <<>> THEN Genesis ELSE log[Len(log)].hash])

Next == \E i \in Invoices, h \in Hashes : Issue(i, h)

Spec == Init /\ [][Next]_log
================================================================================
