------------------------------ MODULE MCServing ------------------------------
(***************************************************************************)
(* Management in three environments: any call may fail and all users       *)
(* compete for one address; no call fails, and the session monitor polls;  *)
(* no call fails and requests come one at a time.  Two rates matter only   *)
(* in the last.                                                            *)
(***************************************************************************)
EXTENDS MCManagement

VARIABLE env  \* which of the three; it never changes

Sound == INSTANCE Management WITH Faults <- {}, TcFaults <- FALSE

OneAddress == \A p \in Procs : req'[p] # Idle => req'[p].row.class = Min(Classes)
OneRate    == /\ \A p \in Procs : req'[p] # Idle => req'[p].row.bw \in {0, Min(Rates)}
              /\ \A c \in Classes : rules'[c] \in {0, Min(Rates), Partial}
Resting    == UNCHANGED <<locks, tick>>  \* the monitor; no session is locked
OneAtATime == \A p, q \in Procs : req'[p] # Idle /\ req'[q] # Idle => p = q

MCInit == Init /\ env \in {"faults", "sound", "quiet"}

MCNext ==
    /\ \/ env = "faults" /\ Next /\ OneAddress /\ OneRate /\ Resting
       \/ env = "sound" /\ Sound!Next /\ OneRate
       \/ env = "quiet" /\ Sound!Next /\ OneAtATime /\ Resting
    /\ UNCHANGED env

MCSpec == MCInit /\ [][MCNext]_<<vars, env>>

-----------------------------------------------------------------------------
\* Table and traffic control agree (RulesMatchTable) when requests come one at a
\* time and none fails, wherever the process is killed.
SerialRules == env = "quiet" => RulesMatchTable
=============================================================================
