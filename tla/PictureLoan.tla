------------------------------ MODULE PictureLoan -----------------------------
(***************************************************************************)
(* What the display path of an ES player promises: the decoder lends       *)
(* picture buffers to the player, a buffer at most once at a time as long  *)
(* as there is one format, the player gives them back in the order they    *)
(* were lent, and it closes the path only when it holds none.              *)
(***************************************************************************)
EXTENDS Naturals, Sequences

CONSTANT Loan   \* the pictures: records with the buffer as pictureBufferId

VARIABLES loans,        \* the pictures on loan, oldest first
          reformatted,  \* the buffers are no longer those of the first format
          closed

loanVars == <<loans, reformatted, closed>>

LoanInit == loans = << >> /\ reformatted = FALSE /\ closed = FALSE

\* A new format may reuse the ids of buffers that are still on loan.
Lend(l) ==
    /\ ~closed
    /\ \/ reformatted
       \/ \A i \in 1 .. Len(loans) :
            loans[i].pictureBufferId # l.pictureBufferId
    /\ loans' = Append(loans, l)
    /\ UNCHANGED <<reformatted, closed>>

Return ==
    /\ loans # << >>
    /\ loans' = Tail(loans)
    /\ UNCHANGED <<reformatted, closed>>

Reformat ==
    /\ ~closed
    /\ reformatted' = TRUE
    /\ UNCHANGED <<loans, closed>>

Close ==
    /\ loans = << >>
    /\ closed' = TRUE
    /\ UNCHANGED <<loans, reformatted>>

LoanNext == (\E l \in Loan : Lend(l)) \/ Return \/ Reformat \/ Close

LoanSpec == LoanInit /\ [][LoanNext]_loanVars
===============================================================================
