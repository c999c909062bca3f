--------------------------- MODULE TrafficControl ---------------------------
(***************************************************************************)
(* The Linux limiter (mgmt/ratelimit/tc_linux.go) at the level of its tc   *)
(* commands.  A limited user has a class and a filter on the WireGuard     *)
(* interface (downloads), a filter there that redirects its packets to     *)
(* ifb0, and a class and a filter on ifb0 (uploads).  An operation holds   *)
(* the mutex while it runs its commands one after the other; any command   *)
(* may fail, and the process may be killed between two of them, which      *)
(* takes the interface away but not ifb0.                                  *)
(*                                                                         *)
(* tc is external: a command that succeeds puts its object in the state it *)
(* names.  Qdiscs and the class 1:1, which no operation but initLocked     *)
(* touches, are left out; commands about them only succeed or fail.        *)
(***************************************************************************)
EXTENDS Limiter, Sequences

CONSTANTS Users,    \* host numbers, which are also class ids and priorities
          Default,  \* the class of unclassified packets ("htb default 10")
          TenGbit,  \* its rate, no limit in practice
          NoJob     \* the mutex is free

ASSUME TrafficAssumption ==
    /\ Users \subseteq Nat \ {0, 1}
    /\ Default \in Nat \ {0, 1}
    /\ TenGbit \in Nat \ (Rates \cup {0})

VARIABLES tc,      \* the state of each object: 0 absent, else a rate (1 for a filter)
          inited,  \* tcLimiter.inited
          job      \* the operation that holds the mutex

vars == <<tc, inited, job>>

Kinds == {"class", "filter", "redirect", "ifbClass", "ifbFilter"}
Objects == Kinds \X (Users \cup {Default})

\* A command sets an object; "lax" when its error is ignored.  The kinds "qdisc"
\* and "inited" stand for commands on objects outside the model and for the last
\* assignment of initLocked.
Command(object, value, lax) == [obj |-> object, val |-> value, lax |-> lax]
Other(kind, lax) == Command(<<kind, Default>>, 0, lax)

InitCommands ==
    <<Other("qdisc", FALSE), Other("qdisc", FALSE),  \* root qdisc, class 1:1
      Command(<<"class", Default>>, TenGbit, FALSE),
      Other("qdisc", FALSE),                         \* ingress qdisc
      Other("qdisc", TRUE), Other("qdisc", TRUE),    \* ifb0: root qdisc, class 1:1
      Command(<<"ifbClass", Default>>, TenGbit, TRUE),
      Other("inited", FALSE)>>

\* Mutation: the class id is given where the rate belongs.
ApplyCommandsSwapped(h, bw) ==
    <<Command(<<"class", h>>, h, FALSE),
      Command(<<"filter", h>>, 1, FALSE),
      Command(<<"redirect", h>>, 1, FALSE),
      Command(<<"ifbClass", h>>, h, FALSE),
      Command(<<"ifbFilter", h>>, 1, FALSE)>>

ApplyCommands(h, bw) ==
    <<Command(<<"class", h>>, bw, FALSE),
      Command(<<"filter", h>>, 1, FALSE),
      Command(<<"redirect", h>>, 1, FALSE),
      Command(<<"ifbClass", h>>, bw, FALSE),
      Command(<<"ifbFilter", h>>, 1, FALSE)>>

\* Mutation: the redirection to ifb0 is not deleted.
RemoveCommandsShort(h) ==
    <<Command(<<"filter", h>>, 0, TRUE),
      Command(<<"class", h>>, 0, TRUE),
      Command(<<"ifbFilter", h>>, 0, TRUE),
      Command(<<"ifbClass", h>>, 0, TRUE)>>

RemoveCommands(h) ==
    <<Command(<<"filter", h>>, 0, TRUE),
      Command(<<"redirect", h>>, 0, TRUE),
      Command(<<"class", h>>, 0, TRUE),
      Command(<<"ifbFilter", h>>, 0, TRUE),
      Command(<<"ifbClass", h>>, 0, TRUE)>>

\* The rules of a class as its callers see them.  What is left on ifb0 alone has
\* no effect: nothing is redirected there.
Summary(h) ==
    IF \A k \in {"class", "filter", "redirect"} : tc[<<k, h>>] = 0 THEN 0
    ELSE IF /\ \A k \in Kinds : tc[<<k, h>>] # 0
            /\ tc[<<"class", h>>] = tc[<<"ifbClass", h>>]
         THEN tc[<<"class", h>>]
    ELSE Partial

-----------------------------------------------------------------------------
\* An operation on class h that holds the mutex, with the commands it is going to
\* run; "ok" is what it returns if none of them ends it.  "before" and "clean" (no
\* command has failed) are history.
Job(op, h, bw, commands, ok) ==
    [op |-> op, host |-> h, bw |-> bw, ok |-> ok, todo |-> commands,
     before |-> Summary(h), clean |-> TRUE]

Lock(op, h, bw, commands, ok) ==
    /\ job = NoJob
    /\ job' = Job(op, h, bw, commands, ok)
    /\ UNCHANGED <<tc, inited>>

\* Mutation: Apply does not look whether the limiter is initialised.
StartApplyUninit(h, bw) ==
    /\ bw # 0
    /\ Lock("apply", h, bw, ApplyCommands(h, bw), TRUE)

\* Apply returns at once for an unlimited user, and initialises the limiter if that
\* has not been done.
StartApply(h, bw) ==
    /\ bw # 0
    /\ Lock("apply", h, bw,
            (IF inited THEN <<>> ELSE InitCommands) \o ApplyCommands(h, bw), TRUE)

\* Update and Remove do not initialise: there is nothing to remove then, and Update
\* reports that it cannot apply.
StartUpdate(h, bw) ==
    Lock("update", h, bw,
         (IF inited THEN RemoveCommands(h) ELSE <<>>)
         \o (IF inited /\ bw # 0 THEN ApplyCommands(h, bw) ELSE <<>>),
         inited \/ bw = 0)

StartRemove(h) ==
    Lock("remove", h, 0, IF inited THEN RemoveCommands(h) ELSE <<>>, TRUE)

\* Mutation: a command that fails is skipped whatever the error, and reported.
RunOn ==
    /\ job # NoJob /\ job.todo # <<>>
    /\ LET c == Head(job.todo)
       IN  \/ /\ tc' = IF c.obj[1] \in Kinds THEN [tc EXCEPT ![c.obj] = c.val] ELSE tc
              /\ inited' = (inited \/ c.obj[1] = "inited")
              /\ job' = [job EXCEPT !.todo = Tail(@)]
           \/ /\ TcFaults /\ c.obj[1] # "inited"
              /\ job' = [job EXCEPT !.todo = Tail(@), !.ok = FALSE, !.clean = FALSE]
              /\ UNCHANGED <<tc, inited>>

\* The next command succeeds; or it fails, which ends the operation unless the
\* error is ignored or taken for benign.
Run ==
    /\ job # NoJob /\ job.todo # <<>>
    /\ LET c == Head(job.todo)
       IN  \/ /\ tc' = IF c.obj[1] \in Kinds THEN [tc EXCEPT ![c.obj] = c.val] ELSE tc
              /\ inited' = (inited \/ c.obj[1] = "inited")
              /\ job' = [job EXCEPT !.todo = Tail(@)]
           \/ /\ TcFaults /\ c.obj[1] # "inited"
              /\ \/ job' = [job EXCEPT !.todo = Tail(@), !.clean = FALSE]
                 \/ /\ ~ c.lax
                    /\ job' = [job EXCEPT !.todo = <<>>, !.ok = FALSE, !.clean = FALSE]
              /\ UNCHANGED <<tc, inited>>

Return ==
    /\ job # NoJob /\ job.todo = <<>>
    /\ job' = NoJob
    /\ UNCHANGED <<tc, inited>>

\* The process starts by calling Init.
InitJob == [op |-> "init", host |-> Default, bw |-> 0, ok |-> TRUE,
            todo |-> InitCommands, before |-> 0, clean |-> TRUE]

Init ==
    /\ tc = [o \in Objects |-> 0]
    /\ inited = FALSE
    /\ job = InitJob

\* The process is killed, at any point, and started again.
Restart ==
    /\ tc' = [o \in Objects |-> IF o[1] \in {"ifbClass", "ifbFilter"} THEN tc[o] ELSE 0]
    /\ inited' = FALSE
    /\ job' = InitJob

Next ==
    \/ \E h \in Users :
          \/ \E bw \in Rates \cup {0} : StartApply(h, bw) \/ StartUpdate(h, bw)
          \/ StartRemove(h)
    \/ Run \/ Return \/ Restart

Spec == Init /\ [][Next]_vars
-----------------------------------------------------------------------------
(* Properties.                                                             *)

TypeOK ==
    /\ tc \in [Objects -> Rates \cup {0, 1, TenGbit}]
    /\ \A h \in Users : Summary(h) \in Rules \cup {TenGbit}
    /\ inited \in BOOLEAN
    /\ job = NoJob \/ job.ok \in BOOLEAN

\* The contract the handlers rely on: what an operation returns, and what it leaves
\* of the class's rules, is one of the outcomes Limiter gives for it, whichever of its
\* commands fail and whatever was left on the devices before.  With failing commands
\* an Apply may return nil and leave the old rules or a mixture, but never takes rules
\* away and never makes up a rate; Remove and an Update to 0 never report an error.
Contract ==
    job # NoJob /\ job.todo = <<>> =>
       LET out == <<job.ok, Summary(job.host)>>
       IN  CASE job.op = "apply"  -> out \in Apply(job.before, job.bw)
             [] job.op = "update" -> out \in Update(job.before, job.bw)
             [] job.op = "remove" -> out \in Remove(job.before)
             [] OTHER -> TRUE

\* Repair: an operation that succeeds with no command failing leaves the rules
\* exactly as asked, whatever earlier failures and crashes left behind on either
\* device (applyRulesLocked uses replace, Update removes first).  The one error it
\* can return then is Update's, of a limiter that was never initialised.
Repairs ==
    job # NoJob /\ job.todo = <<>> /\ job.clean /\ job.op # "init" =>
       IF job.ok THEN Summary(job.host) = job.bw
       ELSE job.op = "update" /\ ~ inited

\* Unlimited users are unlimited: a user without a filter is in the default class,
\* which initLocked gives 10gbit, so its downloads are not held to anybody's rate.
\* (Without that class HTB passes the packets on unshaped.)
UnlimitedByDefault ==
    inited /\ job = NoJob =>
       \A h \in Users : tc[<<"filter", h>>] = 0 => tc[<<"class", Default>>] \notin Rates

\* A limiter that is not initialised has no rules to remove: skipping the removal
\* (removeRulesLocked's early return) loses nothing.
NothingToRemove == ~ inited => \A h \in Users : Summary(h) = 0
=============================================================================
