------------------------------- MODULE Family -------------------------------
(***************************************************************************)
(* What processes are promised about their children: a process may wait    *)
(* for each child of its own at most once, only for one that has ended,    *)
(* and is told the status the child exited with, or KilledStatus if the    *)
(* kernel killed it.                                                       *)
(***************************************************************************)
EXTENDS Integers

CONSTANTS
  Proc,
  root,
  ExitStatus,   \* the statuses with which processes exit
  KilledStatus  \* what is told of a process that the kernel killed

VARIABLES
  life,   \* "unborn", "alive", "exited" or "killed"
  code,   \* the status a process exited with
  kids,   \* kids[p]: the children p may wait for
  claim,  \* claim[c]: "none", "open" or "closed": whether c can be waited for
  told    \* told[p]: what the last call of p returned

familyVars == <<life, code, kids, claim, told>>

Ended(p) == life[p] \in {"exited", "killed"}

FamilyInit ==
  /\ life = [p \in Proc |-> IF p = root THEN "alive" ELSE "unborn"]
  /\ code = [p \in Proc |-> 0]
  /\ kids = [p \in Proc |-> {}]
  /\ claim = [p \in Proc |-> "none"]
  /\ told = [p \in Proc |-> 0]

Born(p, c) ==
  /\ life[p] = "alive" /\ life[c] = "unborn"
  /\ life' = [life EXCEPT ![c] = "alive"]
  /\ UNCHANGED <<code, kids, claim, told>>

Adopt(p, c) ==
  /\ life[p] = "alive" /\ life[c] # "unborn" /\ claim[c] = "none"
  /\ kids' = [kids EXCEPT ![p] = @ \cup {c}]
  /\ claim' = [claim EXCEPT ![c] = "open"]
  /\ UNCHANGED <<life, code, told>>

\* The call that made c, or any failed call, returns.
Told(p) ==
  /\ life[p] = "alive"
  /\ \E v \in kids[p] \cup {-1} : told' = [told EXCEPT ![p] = v]
  /\ UNCHANGED <<life, code, kids, claim>>

Wait(p, c) ==
  /\ life[p] = "alive" /\ c \in kids[p] /\ Ended(c)
  /\ told' = [told EXCEPT ![p] = code[c]]
  /\ kids' = [kids EXCEPT ![p] = @ \ {c}]
  /\ claim' = [claim EXCEPT ![c] = "closed"]
  /\ UNCHANGED <<life, code>>

Exit(p, v) ==
  /\ life[p] = "alive"
  /\ life' = [life EXCEPT ![p] = "exited"]
  /\ code' = [code EXCEPT ![p] = v]
  /\ told' = [told EXCEPT ![p] = 0]
  /\ UNCHANGED <<kids, claim>>

\* p is killed; the root, which ends in the same way, has no status.
Kill(p) ==
  /\ life[p] = "alive"
  /\ life' = [life EXCEPT ![p] = "killed"]
  /\ code' = [code EXCEPT ![p] = IF p = root THEN @ ELSE KilledStatus]
  /\ told' = [told EXCEPT ![p] = 0]
  /\ UNCHANGED <<kids, claim>>

Disown(p, c) ==
  /\ Ended(p) /\ c \in kids[p]
  /\ kids' = [kids EXCEPT ![p] = @ \ {c}]
  /\ claim' = [claim EXCEPT ![c] = "closed"]
  /\ UNCHANGED <<life, code, told>>

FamilyNext ==
  \E p \in Proc :
    \/ Told(p)
    \/ \E v \in ExitStatus : Exit(p, v)
    \/ Kill(p)
    \/ \E c \in Proc : Born(p, c) \/ Adopt(p, c) \/ Wait(p, c) \/ Disown(p, c)

FamilySpec == FamilyInit /\ [][FamilyNext]_familyVars

=============================================================================
