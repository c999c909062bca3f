---------------------------- MODULE ReplayWindow ----------------------------
(***************************************************************************)
(* What the anti-replay filter of package replay promises: a sliding       *)
(* window over the set of counters accepted since the filter was emptied.  *)
(* The module knows nothing of blocks, bits or rings.                      *)
(***************************************************************************)
EXTENDS Naturals

CONSTANTS WindowSize,  \* how far behind the newest counter a counter may be
          Limit,       \* counters from here on are refused
          Counters     \* the counters callers present

VARIABLES last,        \* the newest counter accepted (0 when there is none)
          accepted,    \* every counter accepted since the last Reset
          ret          \* the answer of the latest call

vars == <<last, accepted, ret>>

Init == last = 0 /\ accepted = {} /\ ret = FALSE

Reset == last' = 0 /\ accepted' = {} /\ UNCHANGED ret

InWindow(c) == last <= c + WindowSize

Accept(c) ==
    /\ c < Limit
    /\ c \notin accepted
    /\ InWindow(c)
    /\ accepted' = accepted \cup {c}
    /\ last' = IF c > last THEN c ELSE last
    /\ ret' = TRUE

Reject(c) ==
    /\ c >= Limit \/ c \in accepted \/ ~InWindow(c)
    /\ ret' = FALSE
    /\ UNCHANGED <<last, accepted>>

Next == Reset \/ \E c \in Counters : Accept(c) \/ Reject(c)

Spec == Init /\ [][Next]_vars
=============================================================================
