----------------------------- MODULE TaskBoard -----------------------------
(***************************************************************************)
(* What the task board promises its users, with no journal, no locks, no   *)
(* crashes: every task stands in one zone, it moves in one step along an   *)
(* edge of the workflow, only while somebody holds it, and its             *)
(* prerequisites stand in done when work on it starts or ends.  Editors    *)
(* that know nothing of the board's locks may change card files.           *)
(***************************************************************************)
EXTENDS Naturals

CONSTANTS Task,    \* task identities
          Deps,    \* Deps[t]: the set of tasks t depends on
          Token,   \* claim tokens
          NoToken  \* nobody holds the task

VARIABLES
  zone,    \* the zone of each task's card
  holder,  \* the token that holds each task
  used,    \* tokens ever given to a claim
  outside  \* acts of editors so far

boardVars == <<zone, holder, used, outside>>

Zone == {"todo", "doing", "review", "blocked", "done"}

\* The built-in transition table (boardpolicy's defaultEdges).
Edge == { <<"todo", "doing">>,
          <<"doing", "todo">>, <<"doing", "review">>, <<"doing", "blocked">>,
          <<"blocked", "todo">>, <<"blocked", "doing">>,
          <<"review", "doing">>, <<"review", "done">>,
          <<"done", "todo">> }

\* Zones whose entry requires finished prerequisites.
Checked == {"doing", "done"}

BoardInit ==
  /\ zone \in [Task -> Zone]
  /\ holder = [t \in Task |-> NoToken]
  /\ used = {}
  /\ outside = 0

\* A fresh token takes a free task: a ready one in todo, or one to resume.
Take(t, k) ==
  /\ holder[t] = NoToken
  /\ k \notin used
  /\ zone[t] \in Zone
  /\ zone[t] = "todo" => \A d \in Deps[t] : zone[d] = "done"
  /\ holder' = [holder EXCEPT ![t] = k]
  /\ used' = used \cup {k}
  /\ UNCHANGED <<zone, outside>>

GiveBack(t) ==
  /\ holder[t] # NoToken
  /\ holder' = [holder EXCEPT ![t] = NoToken]
  /\ UNCHANGED <<zone, used, outside>>

\* The only way the board moves a card.  A card an editor removed after the
\* move was prepared reappears at the end of the move, and a prerequisite an
\* editor removed then does not stop it.
Move(t, from, to) ==
  /\ holder[t] # NoToken
  /\ <<from, to>> \in Edge
  /\ zone[t] \in {from, "gone"}
  /\ to \in Checked => \A d \in Deps[t] : zone[d] \in {"done", "gone"}
  /\ zone' = [zone EXCEPT ![t] = to]
  /\ UNCHANGED <<holder, used, outside>>

Outside(t) ==
  /\ outside' = outside + 1
  /\ zone' \in {[zone EXCEPT ![t] = z] : z \in Zone \cup {"gone"}}
  /\ UNCHANGED <<holder, used>>

\* A card whose copy at the target an editor removed while the move was
\* finishing is gone when the move has removed the one at the source.
Lose(t) ==
  /\ outside > 0 /\ zone[t] \in Zone
  /\ zone' = [zone EXCEPT ![t] = "gone"]
  /\ UNCHANGED <<holder, used, outside>>

BoardNext ==
  \E t \in Task :
    \/ \E k \in Token : Take(t, k)
    \/ GiveBack(t)
    \/ \E from, to \in Zone : Move(t, from, to)
    \/ Outside(t)
    \/ Lose(t)

BoardSpec == BoardInit /\ [][BoardNext]_boardVars

=============================================================================
