----------------------------- MODULE PriorityPool -----------------------------
(****************************************************************************)
(* What the limiter promises its callers, with no condition variable, no    *)
(* tickets and no wakeups: a pool of slots whose capacity moves, and for    *)
(* each client that waits the clients that wait in front of it. Whoever     *)
(* joins stands behind all others of its kind, an interactive client in     *)
(* front of those that are not; nobody else is ever put in front of         *)
(* somebody who waits, and a free slot goes to who has nobody in front.     *)
(****************************************************************************)
EXTENDS Integers, FiniteSets

CONSTANTS Clients, Fast, MinCapacity, MaxCapacity

VARIABLES capacity, owners, ahead

poolVars == <<capacity, owners, ahead>>

InLine(c) == c \in DOMAIN ahead

PoolInit ==
  /\ capacity \in MinCapacity..MaxCapacity
  /\ owners = {}
  /\ ahead = [c \in {} |-> {}]

\* Who waits in front of a newcomer c.
InFrontOf(c) == {d \in DOMAIN ahead : d \in Fast \/ c \notin Fast}

Remove(c) == ahead' = [d \in DOMAIN ahead \ {c} |-> ahead[d] \ {c}]

Join(c) ==
  /\ ~InLine(c) /\ c \notin owners
  /\ ahead' = [d \in DOMAIN ahead \cup {c} |->
                 CASE d = c                            -> InFrontOf(c)
                   [] d # c /\ d \in InFrontOf(c)      -> ahead[d]
                   [] d # c /\ d \notin InFrontOf(c)   -> ahead[d] \cup {c}]
  /\ UNCHANGED <<capacity, owners>>

IsNext(c) ==
  /\ c \notin owners
  /\ IF InLine(c) THEN ahead[c] = {} ELSE InFrontOf(c) = {}

\* A client with nobody in front takes a free slot, a newcomer without waiting.
Take(c) ==
  /\ IsNext(c)
  /\ Cardinality(owners) < capacity
  /\ owners' = owners \cup {c}
  /\ Remove(c)
  /\ UNCHANGED capacity

TakeFromLine(c) == InLine(c) /\ Take(c)

Leave(c) ==
  /\ InLine(c)
  /\ Remove(c)
  /\ UNCHANGED <<capacity, owners>>

GiveBack(c) ==
  /\ c \in owners
  /\ owners' = owners \ {c}
  /\ UNCHANGED <<capacity, ahead>>

Resize ==
  /\ capacity' \in MinCapacity..MaxCapacity
  /\ UNCHANGED <<owners, ahead>>

PoolNext ==
  \/ \E c \in Clients : Join(c) \/ Take(c) \/ Leave(c) \/ GiveBack(c)
  \/ Resize

PoolSafety == PoolInit /\ [][PoolNext]_poolVars

\* A slot that stays free is given to whoever stays in front, and a slot that
\* is owned is given back.
PoolSpec ==
  /\ PoolSafety
  /\ \A c \in Clients : WF_poolVars(TakeFromLine(c)) /\ WF_poolVars(GiveBack(c))
=============================================================================
