----------------------------- MODULE BoardGate -----------------------------
(***************************************************************************)
(* The completion gate (taskflow/gate.go): validate, lint, preflight and   *)
(* the checked bindings, in that order, up to the first that fails.  The   *)
(* gate takes no lock and keeps no copy of the board: each pass walks the  *)
(* tree again, one directory after another, while cards are edited and     *)
(* moved, and the outcome of a binding changes with the worktree.  A walk  *)
(* lists the tasks directory once, at its start: it never visits a zone    *)
(* directory that a move creates later.  No directory is removed here.     *)
(*                                                                         *)
(* A file is what the passes tell apart: whether it can be read, whether   *)
(* it is a card and a valid one, whether it claims to be in progress,      *)
(* whether all its criteria are bound, and the commands of its criteria.   *)
(***************************************************************************)
EXTENDS Naturals, Sequences

CONSTANTS
  File,       \* Markdown files
  Text,       \* what they may hold
  Command,    \* verify bindings
  Refused,    \* those the gate does not run (reexecRefusals)
  MaxActs     \* bound: acts of others

VARIABLES
  file,      \* where each file is, and its text
  dirs,      \* the directories there are in the tasks directory
  passes,    \* the commands that exit with 0 now
  roles,     \* whether the active policy declares file roles
  g,         \* the gate: its step, the directories its walk found, the one it
             \* visits, what it has read
  verdict,
  acts,
  \* History, of this gate:
  stirred,   \* what others did to each file: nothing, a move onward, more
  held,      \* bindings that ran and exited with 0
  failing,   \* open criteria that were probed and did not hold yet
  silent     \* open criteria whose probe gave no answer

vars == <<file, dirs, passes, roles, g, verdict, acts, stirred, held, failing, silent>>

\* filepath.WalkDir is lexical; storage stands for the archive of either name.
Walk == <<"doing", "inbox", "plan", "storage", "todo">>
Dirs == {Walk[i] : i \in DOMAIN Walk}
Before(d, e) == \E i, j \in DOMAIN Walk : i < j /\ Walk[i] = d /\ Walk[j] = e

Texts == [card : BOOLEAN, readable : BOOLEAN, valid : BOOLEAN, wip : BOOLEAN,
          bound : BOOLEAN, open : SUBSET Command, checked : SUBSET Command]
In(d) == {f \in File : file[f].dir = d}

-----------------------------------------------------------------------------
\* The passes in their order (runGateWithPolicy, preflightCheckWithPolicy).
Steps ==
  IF roles THEN <<"scan", "lint", "validate", "scan", "hidden", "preflight", "bindings">>
  ELSE <<"validate", "lint", "preflight", "hidden", "bindings">>
Step == Steps[g.pass]

TypeOK ==
  /\ Text \subseteq Texts /\ Refused \subseteq Command
  /\ file \in [File -> [dir : Dirs \cup {"none"}, text : Text]]
  /\ dirs \subseteq Dirs
  /\ passes \subseteq Command \ Refused /\ roles \in BOOLEAN
  /\ g \in [pass : 1..7, next : 0..Len(Walk) + 1, listed : SUBSET Dirs,
            seen : SUBSET [file : File, dir : Dirs, text : Text],
            stray : BOOLEAN, examined : BOOLEAN, failed : BOOLEAN]
  /\ verdict \in {"none", "ready", "not-ready", "unavailable"}
  /\ acts \in 0..MaxActs
  /\ stirred \in [File -> {"no", "onward", "yes"}]
  /\ held \cup failing \cup silent \subseteq File \X Command

Fresh == [pass |-> 1, next |-> 0, listed |-> {}, seen |-> {}, stray |-> FALSE,
          examined |-> FALSE, failed |-> FALSE]

Init ==
  /\ file \in [File -> [dir : Dirs \cup {"none"}, text : Text]]
  /\ dirs \in {ds \in SUBSET Dirs : \A f \in File : file[f].dir \in ds \cup {"none"}}
  /\ passes \in SUBSET (Command \ Refused) /\ roles \in BOOLEAN
  /\ g = Fresh /\ verdict = "none" /\ acts = 0
  /\ stirred = [f \in File |-> "no"] /\ held = {} /\ failing = {} /\ silent = {}

-----------------------------------------------------------------------------
(* The gate *)

Board == <<file, dirs, passes, roles, acts, stirred>>
Found == <<held, failing, silent>>
Pass(step) == verdict = "none" /\ Step = step
Walked(step) == Pass(step) /\ g.next > Len(Walk)

Answer(status) == verdict' = status /\ g' = Fresh
Go == g' = [g EXCEPT !.pass = @ + 1, !.next = 0, !.seen = {}] /\ UNCHANGED verdict
Judge(ok) == IF ok THEN Go ELSE Answer("not-ready")

\* filepath.WalkDir begins: the tasks directory is listed.
ListTasks ==
  /\ verdict = "none" /\ Step # "scan" /\ g.next = 0
  /\ g' = [g EXCEPT !.next = 1, !.listed = dirs]
  /\ UNCHANGED <<Board, Found, verdict>>

\* findCardsInWithPolicy: the live cards of one directory.  An unreadable one
\* is left out, and with file roles ends the gate.
FindCards ==
  /\ verdict = "none" /\ Step \notin {"scan", "bindings"} /\ g.next \in DOMAIN Walk
  /\ LET d == Walk[g.next]
         found == {f \in In(d) : d \in g.listed \ {"storage"} /\ file[f].text.card}
         read == {f \in found : file[f].text.readable}
     IN  IF roles /\ read # found THEN Answer("unavailable")
         ELSE /\ g' = [g EXCEPT !.next = @ + 1, !.seen = @ \cup
                         {[file |-> f, dir |-> d, text |-> file[f].text] : f \in read}]
              /\ UNCHANGED verdict
  /\ UNCHANGED <<Board, Found>>

\* boardfiles.Scan, before any card of a file-role board is opened.
Misplaced == In("inbox") # {}
Scan ==
  /\ Pass("scan") /\ Judge(~Misplaced)
  /\ UNCHANGED <<Board, Found>>

\* AdmitCriteria probes the open criteria of todo: a card with one that holds
\* already is invalid.  A probe that is not supported, cannot start or runs out
\* of time says nothing against the card.
Open(x) == IF x.dir = "todo" THEN x.text.open ELSE {}
Opened == UNION {{x.file} \X Open(x) : x \in g.seen}
Vacuous(x, mute) == \E c \in Open(x) \cap passes : <<x.file, c>> \notin mute
ValidCard(x, mute) == x.text.valid /\ ~Vacuous(x, mute)

\* The lint step of a file-role board is the lint taken before (policyLint).
Validate ==
  /\ Walked("validate")
  /\ \E mute \in SUBSET Opened :
       /\ Judge(~g.stray /\ \A x \in g.seen : ValidCard(x, mute))
       /\ silent' = silent \cup mute
       /\ failing' = failing \cup {p \in Opened \ mute : p[2] \notin passes}
  /\ UNCHANGED <<Board, held>>

\* classifyLintCard: outside every zone and parking, or in progress outside
\* doing; and the directories as they are after the walk.
HiddenWIP(x) == x.text.wip /\ x.dir \in {"inbox", "plan"}
Stray(x) == HiddenWIP(x) \/ x.dir = "inbox"
Lint ==
  LET stray == \E x \in g.seen : Stray(x)
  IN  /\ Walked("lint")
      /\ IF roles
         THEN /\ g' = [g EXCEPT !.pass = @ + 1, !.next = 0, !.seen = {}, !.stray = stray]
              /\ UNCHANGED verdict
         ELSE Judge(~Misplaced /\ ~stray)
      /\ UNCHANGED <<Board, Found>>

\* preflightCheck: a queue none of whose cards can reach done.  Plans are no
\* part of the queue.
Runnable(x) == x.text.bound
Preflight ==
  LET queue == {x \in g.seen : x.dir # "plan"}
  IN  /\ Walked("preflight")
      /\ Judge(queue = {} \/ \E x \in queue : Runnable(x))
      /\ UNCHANGED <<Board, Found>>

\* preflightGateRefusal.
Hidden ==
  /\ Walked("hidden") /\ Judge(\A x \in g.seen : ~HiddenWIP(x))
  /\ UNCHANGED <<Board, Found>>

\* Mutant of Hold: a binding the gate does not run is passed over.
HoldIfRun(cs) == (cs \ Refused) \subseteq passes

\* Whether the bindings cs, checked on some card, all ran and exited with 0.
Hold(cs) == cs \subseteq (passes \ Refused)

\* ReexecCheckedBindings, one directory of all Markdown files at a time; what
\* a binding changes is among the acts of others.
RunBindings ==
  /\ Pass("bindings") /\ g.next \in DOMAIN Walk
  /\ LET d == Walk[g.next]
         here == {f \in In(d) : d \in g.listed \ {"storage"}}
     IN  IF \E f \in here : ~file[f].text.readable
         THEN Answer("unavailable") /\ UNCHANGED held
         ELSE /\ g' = [g EXCEPT !.next = @ + 1, !.examined = @ \/ here # {},
                         !.failed = @ \/ \E f \in here : ~Hold(file[f].text.checked)]
              /\ held' = held \cup
                   UNION {{f} \X (file[f].text.checked \cap (passes \ Refused)) : f \in here}
              /\ UNCHANGED verdict
  /\ UNCHANGED <<Board, failing, silent>>

\* appendGateBindingStep; a ready gate then writes a receipt (GateEvidence).
AppendGateBindingStep ==
  /\ Walked("bindings")
  /\ Answer(IF ~g.examined THEN "unavailable" ELSE IF g.failed THEN "not-ready" ELSE "ready")
  /\ UNCHANGED <<Board, Found>>

-----------------------------------------------------------------------------
(* Others, while the gate works *)

Acts ==
  /\ verdict = "none" /\ acts < MaxActs /\ acts' = acts + 1
  /\ UNCHANGED <<roles, g, verdict, Found>>

\* The directories that the present walk visits, or will find.
Known == IF g.next = 0 THEN dirs ELSE g.listed

\* A verb or an editor moves a file, perhaps out of the board or into it; a
\* directory that is not there is made (MkdirAll).
Onward(d, e) == "storage" \notin {d, e} /\ Before(d, e) /\ e \in Known
Move(f, d) ==
  /\ Acts /\ file[f].dir # d
  /\ file' = [file EXCEPT ![f].dir = d]
  /\ dirs' = dirs \cup ({d} \ {"none"})
  /\ stirred' = [stirred EXCEPT ![f] =
       IF @ # "yes" /\ Onward(file[f].dir, d) THEN "onward" ELSE "yes"]
  /\ UNCHANGED passes

Write(f, text) ==
  /\ Acts /\ file[f].text # text
  /\ file' = [file EXCEPT ![f].text = text]
  /\ stirred' = [stirred EXCEPT ![f] = "yes"]
  /\ UNCHANGED <<dirs, passes>>

\* The worktree changes, by a binding or by anyone.
Turn(c) ==
  /\ Acts
  /\ passes' = IF c \in passes THEN passes \ {c} ELSE passes \cup {c}
  /\ UNCHANGED <<file, dirs, stirred>>

Gate ==
  \/ ListTasks \/ FindCards \/ Scan \/ Validate \/ Lint \/ Preflight \/ Hidden
  \/ RunBindings \/ AppendGateBindingStep
Others ==
  \/ \E f \in File, d \in Dirs \cup {"none"} : Move(f, d)
  \/ \E f \in File, text \in Text : Write(f, text)
  \/ \E c \in Command \ Refused : Turn(c)

Next == Gate \/ Others
Spec == Init /\ [][Next]_vars

-----------------------------------------------------------------------------
(* Properties *)

Live(f) == file[f].dir \notin {"none", "storage"}

\* A ready board: every file nobody touched is filed and readable, is valid if
\* it is a card, its checked bindings ran and held, its open criteria did not
\* hold yet or their probe gave no answer, and the queue, if nobody touched it,
\* has a card that can reach done.  A file that was only moved to a directory
\* that comes later, and that the walk under way found when it began, has been
\* measured all the same; one moved the other way, or to a directory made during
\* a walk, may have escaped every pass (runGateWithPolicy,
\* ReexecCheckedBindings).
ReadyIsMeasured ==
  verdict = "ready" =>
    /\ \A f \in File : Live(f) /\ stirred[f] # "yes" =>
         LET text == file[f].text
         IN  /\ text.readable /\ (text.card => text.valid)
             /\ {f} \X text.checked \subseteq held
    /\ \A f \in File : Live(f) /\ stirred[f] = "no" =>
         /\ file[f].text.card => ~Stray([dir |-> file[f].dir, text |-> file[f].text])
         /\ file[f].text.card /\ file[f].dir = "todo" =>
              {f} \X file[f].text.open \subseteq failing \cup silent
    /\ (\A f \in File : stirred[f] = "no") =>
         LET queue == {f \in File : Live(f) /\ file[f].dir # "plan" /\ file[f].text.card}
         IN  /\ \E f \in File : Live(f)
             /\ queue = {} \/ \E f \in queue : file[f].text.bound

GateHolds == TypeOK /\ ReadyIsMeasured

=============================================================================
