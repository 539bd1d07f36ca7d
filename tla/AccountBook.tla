---------------------------- MODULE AccountBook -----------------------------
(***************************************************************************)
(* What the write side of the holding accounts promises, one request at a  *)
(* time and atomically: an account opens with its first buy, a buy and a   *)
(* redemption add an entry after the last one, a redemption never takes    *)
(* more than there is, the last entry can be voided, an account can be     *)
(* deleted.  An account is the list of its balances (remaining shares),    *)
(* one after each entry that is in force.                                  *)
(***************************************************************************)
EXTENDS Integers, Sequences

CONSTANTS
    Users,      \* registered users
    Shares,     \* shares of a buy
    Crashes,    \* TRUE: the server may stop between the two inserts of an opening
    WriteFaults \* TRUE: the second of them may fail, and what undoes the first too

VARIABLE book

Account == [open : BOOLEAN, balances : Seq(Nat)]

NoAccount == [open |-> FALSE, balances |-> <<>>]

Balance(account) ==
    IF account.balances = <<>> THEN 0
    ELSE account.balances[Len(account.balances)]

Enter(u, balance) ==
    book' = [book EXCEPT ![u].balances = Append(@, balance)]

Init == book = [u \in Users |-> NoAccount]

Open(u) ==
    /\ ~book[u].open
    /\ \E s \in Shares :
         book' = [book EXCEPT ![u] = [open |-> TRUE, balances |-> <<s>>]]

\* The account is inserted and its first buy is not, because the server stopped
\* or because neither that nor the removal of the account succeeded.
OpenEmpty(u) ==
    /\ Crashes \/ WriteFaults
    /\ ~book[u].open
    /\ book' = [book EXCEPT ![u] = [open |-> TRUE, balances |-> <<>>]]

Buy(u) ==
    /\ book[u].open
    /\ \E s \in Shares : Enter(u, Balance(book[u]) + s)

\* A redemption by amount may round down to no share.
Redeem(u) ==
    /\ book[u].open
    /\ Balance(book[u]) > 0
    /\ \E s \in 0..Balance(book[u]) : Enter(u, Balance(book[u]) - s)

VoidLast(u) ==
    /\ book[u].open
    /\ book[u].balances # <<>>
    /\ book' = [book EXCEPT ![u].balances = SubSeq(@, 1, Len(@) - 1)]

Close(u) ==
    /\ book[u].open
    /\ book' = [book EXCEPT ![u] = NoAccount]

Next ==
    \E u \in Users : \/ Open(u) \/ OpenEmpty(u) \/ Buy(u) \/ Redeem(u)
                     \/ VoidLast(u) \/ Close(u)

Spec == Init /\ [][Next]_book

-----------------------------------------------------------------------------
\* No entry in force leaves a negative number of shares, also after entries
\* that followed it have been voided.
NeverOverdrawn ==
    \A u \in Users : \A i \in 1..Len(book[u].balances) :
        book[u].balances[i] >= 0
=============================================================================
