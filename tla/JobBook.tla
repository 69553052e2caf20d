------------------------------ MODULE JobBook ------------------------------
(***************************************************************************)
(* What scheduling promises to a user (docs_src/Tutorial/Tasks/            *)
(* scheduling.rst): a job is what was asked for at one save of a scheduled  *)
(* item.  It is entered in a book when it is asked for, executed at most    *)
(* once, and how that ended stays in the book.  Rows, their statuses,       *)
(* batches, and workers and their deaths are not a user's business.         *)
(***************************************************************************)
EXTENDS Naturals

CONSTANTS Items, MaxVersion

VARIABLE book  \* per item and version: "unasked", "asked", "ok" or "error"

Entries == Items \X (1..MaxVersion)

Init == book = [j \in Entries |-> "unasked"]

\* The versions of an item are asked for one after the other.
Ask(i, v) ==
    /\ book[<<i, v>>] = "unasked"
    /\ \A u \in 1..MaxVersion : u < v => book[<<i, u>>] # "unasked"
    /\ book' = [book EXCEPT ![<<i, v>>] = "asked"]

Execute(j) ==
    /\ book[j] = "asked"
    /\ \E end \in {"ok", "error"} : book' = [book EXCEPT ![j] = end]

Next == \/ \E i \in Items, v \in 1..MaxVersion : Ask(i, v)
        \/ \E j \in Entries : Execute(j)

Spec == Init /\ [][Next]_book
=============================================================================
