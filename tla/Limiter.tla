------------------------------- MODULE Limiter -------------------------------
(***************************************************************************)
(* What the bandwidth limiter (mgmt/ratelimit) promises its callers.  The  *)
(* traffic-control rules of one class are summarised as one value: 0 when  *)
(* none exists, the rate when all of them do, Partial otherwise.  Each     *)
(* operation holds the limiter's mutex, so it is one step to its callers;  *)
(* it yields the set of its possible outcomes <<returned nil, rules>>.     *)
(* TrafficControl models the commands behind it.                           *)
(***************************************************************************)
EXTENDS Integers

CONSTANTS Rates,     \* the bandwidth limits callers ask for (0 is "no limit")
          Partial,   \* some of the rules of a class exist, not all as asked
          TcFaults   \* whether tc commands may fail

ASSUME LimiterAssumption == Rates \subseteq Nat \ {0} /\ TcFaults \in BOOLEAN

Rules == Rates \cup {0, Partial}

Failing(outcomes) == IF TcFaults THEN outcomes ELSE {}

\* The rules that an Apply with failing commands may leave: all as asked, all as they
\* were, or a mixture; rules that were partial may have been completed to what an
\* earlier call asked for.  It never takes rules away.
Mixed(old, bw) == {old, bw, Partial} \cup (IF old = Partial THEN Rates ELSE {})

\* Apply: nothing for an unlimited user; a failing command ends the operation, unless
\* its error is taken for benign: then it is skipped, and nil may be returned.
Apply(old, bw) ==
    IF bw = 0 THEN {<<TRUE, old>>}
    ELSE {<<TRUE, bw>>} \cup Failing(BOOLEAN \X Mixed(old, bw))

\* Remove: errors of the commands are ignored.
Remove(old) ==
    {<<TRUE, 0>>} \cup Failing({<<TRUE, old>>, <<TRUE, Partial>>})

\* Update: remove, then apply.
Update(old, bw) ==
    UNION {Apply(r[2], bw) : r \in Remove(old)}
=============================================================================
