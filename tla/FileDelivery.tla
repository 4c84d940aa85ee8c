---------------------------- MODULE FileDelivery -----------------------------
(***************************************************************************)
(* What the site proxy promises for one file attempt, without sections,    *)
(* rounds, repairs or messages.  A receiver stores the file at most once;  *)
(* the proxy may come to know that it did, or give the receiver up; at the *)
(* end there is one verdict.                                               *)
(***************************************************************************)
CONSTANT Receivers

VARIABLES files,      \* receivers that have the verified file in place
          confirmed,  \* receivers the proxy knows to have it
          dropped,    \* receivers the proxy has given up
          verdict     \* "open" while the attempt runs

vars == <<files, confirmed, dropped, verdict>>

Init ==
    /\ files = {} /\ confirmed = {} /\ dropped = {}
    /\ verdict = "open"

Store(r) ==
    /\ r \notin files
    /\ files' = files \cup {r}
    /\ UNCHANGED <<confirmed, dropped, verdict>>

\* Knowledge comes after the fact, and not after the verdict.
Confirm(r) ==
    /\ verdict = "open"
    /\ r \in files \ (confirmed \cup dropped)
    /\ confirmed' = confirmed \cup {r}
    /\ UNCHANGED <<files, dropped, verdict>>

Drop(r) ==
    /\ verdict = "open"
    /\ r \notin confirmed \cup dropped
    /\ dropped' = dropped \cup {r}
    /\ UNCHANGED <<files, confirmed, verdict>>

\* Success exactly when nobody is left out but the dropped ones.
Decide ==
    /\ verdict = "open"
    /\ verdict' \in IF confirmed \cup dropped = Receivers THEN {"Success"}
                    ELSE {"Sha256Mismatch", "Failed"}
    /\ UNCHANGED <<files, confirmed, dropped>>

Next == \/ \E r \in Receivers : Store(r) \/ Confirm(r) \/ Drop(r)
        \/ Decide

Spec == Init /\ [][Next]_vars
==============================================================================
