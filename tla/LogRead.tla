------------------------------- MODULE LogRead -------------------------------
(***************************************************************************)
(* What a read of a flow log promises: Reports implements it by paging.    *)
(*                                                                         *)
(* A log is a set of records that changes while it is read.  A read        *)
(* returns records that were in the log at some time during the read, and  *)
(* a read that calls itself whole returns every record that was in it all  *)
(* the time.  A read may also come to nothing.                             *)
(***************************************************************************)
CONSTANTS
    Records,   \* records a log may hold
    Kinds,     \* the logs
    None       \* no read, or no answer

VARIABLES
    log,       \* kind -> the records in that log
    reading,   \* None, or the read under way: [kind, kept, met]
    got        \* None, or what the last read answered: [kind, rows, whole]

vars == <<log, reading, got>>

Init ==
    /\ log \in [Kinds -> SUBSET Records]
    /\ reading = None
    /\ got = None

Ask(k) ==
    /\ reading = None
    /\ reading' = [kind |-> k, kept |-> log[k], met |-> log[k]]
    /\ got' = None
    /\ UNCHANGED log

\* kept is what never left the log during the read, met what ever was in it.
Change ==
    /\ log' \in [Kinds -> SUBSET Records]
    /\ reading' = IF reading = None THEN None
                  ELSE [reading EXCEPT !.kept = @ \cap log'[reading.kind],
                                       !.met = @ \cup log'[reading.kind]]
    /\ UNCHANGED got

Deliver(rows, whole) ==
    /\ reading # None
    /\ rows \subseteq reading.met
    /\ whole => reading.kept \subseteq rows
    /\ reading' = None
    /\ got' = [kind |-> reading.kind, rows |-> rows, whole |-> whole]
    /\ UNCHANGED log

GiveUp ==
    /\ reading # None
    /\ reading' = None /\ got' = None
    /\ UNCHANGED log

\* Whoever asked has the answer.
Taken ==
    /\ got # None /\ got' = None
    /\ UNCHANGED <<log, reading>>

Next ==
    \/ \E k \in Kinds : Ask(k)
    \/ Change
    \/ \E rows \in SUBSET Records, whole \in BOOLEAN : Deliver(rows, whole)
    \/ GiveUp
    \/ Taken

Spec == Init /\ [][Next]_vars
=============================================================================
