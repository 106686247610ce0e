----------------------------- MODULE CardFiles -----------------------------
(***************************************************************************)
(* The cards of a task board as files, and the commands that work on them. *)
(*                                                                         *)
(* A path is a zone and a card.  A text is abstracted to who saved it last *)
(* ("by": 0 is the text the board started with, 1, 2, ... an editor's      *)
(* saves, Made a card some command wrote and nobody edited), its status    *)
(* cell and status word, the tasks an issue was promoted to and the one    *)
(* document it links to.  A command that reads a text, changes a field and *)
(* writes the file keeps the "by" of what it read.                         *)
(*                                                                         *)
(* A process runs one command, one file operation at a time.  The verbs of *)
(* internal/taskflow take no lock; the maintenance commands of             *)
(* internal/boardruntime hold the runtime mutation lock, which only keeps  *)
(* them apart from each other.                                             *)
(***************************************************************************)
EXTENDS Integers, FiniteSets

CONSTANTS
  Proc,
  Issue,        \* issue cards
  DoingTask, DoneTask,       \* two task cards the board starts with
  DoingNumber, DoneNumber,   \* their numbers
  Receipt,      \* the file the finished task owns beside its card
  MaxNumber,    \* cardid.MaxCardNumber
  RefHighest,   \* the highest number a commit message names, on any ref
  Vacant,       \* zones that may have a directory and no file in it
  Asked,        \* numbers somebody passes with --id
  None, Absent, Made,
  MaxActs       \* bound: saves of editors, kills and failures of the system

VARIABLES
  board,        \* the files under tasks/
  aside,        \* per command: its recovery directory or quarantine
  run,          \* per process: its command and where it stands
  lock,         \* the runtime mutation lock
  reservation,  \* card-id-reservations: who holds the sentinel, highest number
  evidence,     \* what the runtime ledger says of each task
  retained,     \* the board an exchange took away; the new one has a receipt
  acts,
  stayed        \* history, per process: what has stayed at its path since its
                \* scan for the highest number began; {} when it is not at one

vars == <<board, aside, run, lock, reservation, evidence, retained, acts, stayed>>

\* The card made with a number of the reservation ledger is that number; the one
\* made with --id, under another title, is its negative.
Number == 1..MaxNumber
ByHand == {-n : n \in Number}
Card == Number \cup ByHand \cup {DoingTask, DoneTask} \cup Issue \cup {Receipt}
NumberOf(c) ==
  IF c \in Number THEN c
  ELSE IF c \in ByHand THEN -c
  ELSE IF c = DoingTask THEN DoingNumber
  ELSE IF c = DoneTask THEN DoneNumber
  ELSE 0
Zone == {"archive", "blocked", "doing", "done", "issue", "receipts", "review", "todo"}
Path == Zone \X Card
By == {Made} \cup (0..MaxActs)
Text == [by : By, cell : Zone, word : Zone, promoted : SUBSET Number, link : Path \cup {None}]

\* Two executions matter: none, and one with terminal evidence or without.
Evidence == {"none", "active", "abort", "done"}

-----------------------------------------------------------------------------
(* Files.                                                                  *)

At(f, q) == IF q \in DOMAIN f THEN f[q] ELSE Absent
Has(q) == q \in DOMAIN board
Put(f, q, t) == [x \in DOMAIN f \cup {q} |-> IF x = q THEN t ELSE f[x]]
Without(f, q) == [x \in DOMAIN f \ {q} |-> f[x]]
Nothing == [x \in {} |-> Absent]

\* The cards with a number, whatever their file is called.
Homes(n) == {q \in DOMAIN board : NumberOf(q[2]) = n}

\* The documents with a link that resolves to a path.
Linking(q) == {d \in DOMAIN board : board[d].link = q}

\* What somebody saved: a card and the save that wrote it.
Marks(f) == {<<q[2], f[q].by>> : q \in {x \in DOMAIN f : f[x].by # Made}}

DoingCard == <<"doing", DoingTask>>
DoneCard == <<"done", DoneTask>>
Owned == <<"receipts", Receipt>>
Group == {DoneCard, Owned}

First == [by |-> 0, cell |-> "todo", word |-> "todo", promoted |-> {}, link |-> None]
Start ==
  [q \in {DoingCard} \cup Group \cup {<<"issue", i>> : i \in Issue} |->
     IF q[1] = "issue" THEN [First EXCEPT !.link = DoingCard]
     ELSE [First EXCEPT !.cell = IF q[1] = "receipts" THEN "todo" ELSE q[1],
                        !.word = IF q[1] = "receipts" THEN "todo" ELSE q[1]]]

\* A walk lists the zones in the order of their names.
Place == [archive |-> 1, blocked |-> 2, doing |-> 3, done |-> 4,
          issue |-> 5, receipts |-> 6, review |-> 7, todo |-> 8]
Foremost(zones) == CHOOSE z \in zones : \A y \in zones : Place[z] <= Place[y]

\* The pinned commit of the source branch; HEAD contains it.
Source == [q \in Group |-> Start[q]]

\* Every saved text that is still to be found.
Kept == Marks(board) \cup (UNION {Marks(aside[p]) : p \in Proc}) \cup Marks(Source)

-----------------------------------------------------------------------------
(* Commands.  seen is what the command last saw at a path it will write,   *)
(* rename over or remove; text is a file it has in memory.                 *)

Idle == [cmd |-> "none", at |-> "end", src |-> DoingCard, dst |-> DoingCard,
         seen |-> Nothing, text |-> None, left |-> {}, made |-> {}, number |-> 0,
         stage |-> Nothing, zones |-> {}, files |-> {}]

Begin(p, cmd, at) == [Idle EXCEPT !.cmd = cmd, !.at = at]
Is(p, cmd, at) == run[p].cmd = cmd /\ run[p].at = at
Looked(q) == [x \in {q} |-> At(board, q)]
SeesToo(p, f) == [x \in DOMAIN run[p].seen \cup DOMAIN f |-> IF x \in DOMAIN f THEN f[x] ELSE run[p].seen[x]]

Ends(p) == run' = [run EXCEPT ![p] = [Idle EXCEPT !.cmd = run[p].cmd]]
Goes(p, at) == run' = [run EXCEPT ![p].at = at]
Unlocks(p) == lock' = IF lock = p THEN None ELSE lock

-----------------------------------------------------------------------------
(* An editor saves a card that is there, or puts one where a command is    *)
(* about to; a command is killed.                                          *)

Save(q) ==
  /\ acts < MaxActs
  /\ acts' = acts + 1
  /\ Has(q) \/ \E p \in Proc : run[p].at # "end" /\ q \in {run[p].src, run[p].dst}
  /\ LET old == IF Has(q) THEN board[q] ELSE [First EXCEPT !.cell = q[1], !.word = q[1]]
     IN board' = Put(board, q, [old EXCEPT !.by = acts + 1])
  /\ UNCHANGED <<aside, run, lock, reservation, evidence, retained>>

\* The mutation lock of a dead process is taken over (MutationLock); the sentinel
\* of the reservation ledger stays.
Kill(p) ==
  /\ acts < MaxActs
  /\ acts' = acts + 1
  /\ run[p].at # "end"
  /\ Ends(p)
  /\ Unlocks(p)
  /\ UNCHANGED <<board, aside, reservation, evidence, retained>>

\* task run-start and run-finish take the mutation lock for their change.
Runs(t, e) ==
  /\ acts < MaxActs
  /\ acts' = acts + 1
  /\ lock = None
  /\ evidence[t] # e
  /\ evidence' = [evidence EXCEPT ![t] = e]
  /\ UNCHANGED <<board, aside, run, lock, reservation, retained>>
=============================================================================
