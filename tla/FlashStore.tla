----------------------------- MODULE FlashStore -----------------------------
(***************************************************************************)
(* What a paged store promises to who writes it: a write sets out for a    *)
(* content that differs from the present one only in some pages, brings    *)
(* those pages to it one at a time, and ends when all are done.  A failure *)
(* stops it with at most the one page that was open in an unknown state.   *)
(***************************************************************************)
CONSTANTS Page,      \* the pages
          Content,   \* what a page may hold
          UNKNOWN    \* the content of an open page

VARIABLES cell,      \* the content of each page
          open,      \* the page being rewritten, as a set
          goal,      \* what the write under way makes of the store
          todo,      \* the pages it still has to bring there
          active     \* whether there is one

svars == <<cell, open, goal, todo, active>>

SInit == /\ cell \in [Page -> Content] /\ open = {} /\ goal = cell
         /\ todo = {} /\ active = FALSE

Begin == /\ ~active /\ open = {}
         /\ active' = TRUE
         /\ todo' \in SUBSET Page
         /\ goal' \in [Page -> Content]
         /\ \A p \in Page \ todo' : goal'[p] = cell[p]
         /\ UNCHANGED <<cell, open>>

OpenUp(p) == /\ active /\ open = {} /\ p \in todo
             /\ open' = {p}
             /\ cell' = [cell EXCEPT ![p] = UNKNOWN]
             /\ UNCHANGED <<goal, todo, active>>

Close(p) == /\ active /\ open = {p} /\ p \in todo
            /\ open' = {} /\ todo' = todo \ {p}
            /\ cell' = [cell EXCEPT ![p] = goal[p]]
            /\ UNCHANGED <<goal, active>>

End == /\ active /\ todo = {} /\ open = {}
       /\ active' = FALSE
       /\ UNCHANGED <<cell, open, goal, todo>>

\* What was open is left in some state.
Settled == /\ open' = {}
           /\ \A p \in Page : IF p \in open THEN cell'[p] \in Content
                                            ELSE cell'[p] = cell[p]
           /\ DOMAIN cell' = Page

\* The write is given up; the open page settles now or later.
Fail == /\ active /\ active' = FALSE /\ todo' = {}
        /\ Settled \/ UNCHANGED <<cell, open>>
        /\ UNCHANGED goal

Settle == ~active /\ Settled /\ UNCHANGED <<goal, todo, active>>

SNext == \/ Begin \/ End \/ Fail \/ Settle
         \/ \E p \in Page : OpenUp(p) \/ Close(p)

SSpec == SInit /\ [][SNext]_svars
=============================================================================
