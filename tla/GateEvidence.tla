--------------------------- MODULE GateEvidence ---------------------------
(***************************************************************************)
(* The receipt of a completion gate (taskflow/gate_evidence.go): a CI run  *)
(* writes a log that opens and closes with the state of git, and `task     *)
(* gate-evidence`, or a ready `task gate`, binds that log to HEAD and      *)
(* files a block under the common git directory that cards then quote.     *)
(* The command holds no lock and reads the log in pieces and git in        *)
(* separate calls, while CI runs rewrite the log and people commit, amend, *)
(* switch branches and integrate.                                          *)
(*                                                                         *)
(* History has no merges, so that the commits a commit stands on are       *)
(* ordered by age and its two merge bases are comparable.                  *)
(***************************************************************************)
EXTENDS Naturals, FiniteSets, FiniteSetsExt

CONSTANTS
  Tree,        \* contents of a commit
  Change,      \* Change-Ids
  Log,         \* the files gate.log matches
  MaxCommits, MaxTime, MaxRuns, MaxMoves, MaxCalls   \* bounds

VARIABLES
  commits,   \* the commits made: hash -> what it holds
  git,       \* HEAD, the two refs of the source branch (0: none), the worktree
  clock,     \* seconds
  moves,     \* acts of people so far
  log,       \* the CI logs
  ci,        \* the CI run under way, and how many were started
  r,         \* the command
  calls,     \* commands started
  store,     \* the blocks under taskchain/gates
  runs,      \* history: what complete clean runs passed
  mixed      \* history: blocks bound while HEAD went to another commit

vars == <<commits, git, clock, moves, log, ci, r, calls, store, runs, mixed>>

-----------------------------------------------------------------------------
(* git *)

Hash == 1..MaxCommits
Declared(c) == commits[c].id \in Change
Line(c) == commits[c].line
MergeBase(c) == Max(Line(c) \cap Line(git.head))

\* Of the refs of the source branch, the one that branched off nearer to HEAD.
SourceRefs == {ref \in {"origin", "local"} : git[ref] # 0}
SourceRef ==
  IF SourceRefs = {"origin", "local"} /\ MergeBase(git.origin) >= MergeBase(git.local)
  THEN "origin"
  ELSE CHOOSE ref \in SourceRefs : SourceRefs = {"origin", "local"} => ref = "local"

\* Exactly one commit of the range may declare the change.
RangeMessages(base) == Line(git.head) \ Line(base)
IdSince(base) ==
  LET declaring == {c \in RangeMessages(base) : Declared(c)}
  IN  IF Cardinality(declaring) = 1 THEN commits[Max(declaring)].id ELSE "none"
BranchChangeID == IF SourceRefs = {} THEN "none" ELSE IdSince(MergeBase(git[SourceRef]))

-----------------------------------------------------------------------------
(* Types *)

NoLine == [run |-> 0]
Edges == [run : 1..MaxRuns, head : Hash, tree : Tree, id : Change \cup {"none"}, clean : BOOLEAN]
Results == [run : 1..MaxRuns, pass : BOOLEAN]
Blocks == [subject : Hash, id : Change, finished : 0..MaxTime, dated : 0..MaxTime]

TypeOK ==
  /\ DOMAIN commits \subseteq Hash
  /\ \A c \in DOMAIN commits :
       commits[c] \in [line : SUBSET DOMAIN commits, tree : Tree,
                       id : Change \cup {"none"}, dated : 0..MaxTime]
  /\ git \in [head : DOMAIN commits, origin : DOMAIN commits \cup {0},
              local : DOMAIN commits \cup {0}, clean : BOOLEAN]
  /\ clock \in 0..MaxTime /\ moves \in 0..MaxMoves /\ calls \in 0..MaxCalls
  /\ log \in [Log -> [start : Edges \cup {NoLine}, finish : Edges \cup {NoLine},
                      result : Results \cup {NoLine}, at : 0..MaxTime]]
  /\ ci \in [at : {"idle", "testing", "ending"}, log : Log, run : 0..MaxRuns]
  /\ store \subseteq Blocks /\ mixed \subseteq store

\* The command that is not there, and what it has not read.
Idle ==
  [at |-> "idle", log |-> CHOOSE l \in Log : TRUE, switched |-> FALSE, finished |-> 0,
   start |-> NoLine, finish |-> NoLine, pass |-> FALSE, head |-> 0, subject |-> 0,
   base |-> 0, dated |-> 0]

\* The branch of a change stands one commit from the source branch.
Init ==
  /\ \E t \in Tree, id \in Change :
       commits = [c \in {1, 2} |-> [line |-> 1..c, tree |-> t, dated |-> 0,
                                    id |-> IF c = 1 THEN "none" ELSE id]]
  /\ git \in [head : {2}, origin : {0, 1}, local : {0, 1}, clean : {TRUE}]
  /\ clock = 0 /\ moves = 0 /\ calls = 0
  /\ log = [l \in Log |-> [start |-> NoLine, finish |-> NoLine, result |-> NoLine, at |-> 0]]
  /\ \E l \in Log : ci = [at |-> "idle", log |-> l, run |-> 0]
  /\ r = Idle
  /\ store = {} /\ runs = {} /\ mixed = {}

-----------------------------------------------------------------------------
(* People *)

Moved == moves < MaxMoves /\ moves' = moves + 1
Rest == UNCHANGED <<clock, log, ci, calls, store, runs, mixed>>

\* A commit on HEAD, or in HEAD's place.
Commit(t, id, amend) ==
  /\ Moved /\ Cardinality(DOMAIN commits) < MaxCommits
  /\ amend => git.head # 1
  /\ LET c == Cardinality(DOMAIN commits) + 1
         below == IF amend THEN Line(git.head) \ {git.head} ELSE Line(git.head)
         made == [line |-> below \cup {c}, tree |-> t, id |-> id, dated |-> clock]
     IN  /\ commits' = [d \in DOMAIN commits \cup {c} |-> IF d = c THEN made ELSE commits[d]]
         /\ git' = [git EXCEPT !.head = c, !.clean = TRUE]
  /\ UNCHANGED r /\ Rest

\* Another commit is checked out, or HEAD is reset to it.
Switch(c) ==
  /\ Moved /\ c # git.head
  /\ git' = [git EXCEPT !.head = c, !.clean = TRUE]
  /\ r' = IF r.at = "idle" THEN r ELSE [r EXCEPT !.switched = TRUE]
  /\ UNCHANGED commits /\ Rest

\* HEAD's commit reaches the source branch.
Integrate(ref) ==
  /\ Moved /\ git[ref] # git.head /\ git[ref] \in Line(git.head) \cup {0}
  /\ git' = [git EXCEPT ![ref] = git.head]
  /\ UNCHANGED <<commits, r>> /\ Rest

Edit ==
  /\ Moved /\ git.clean
  /\ git' = [git EXCEPT !.clean = FALSE]
  /\ UNCHANGED <<commits, r>> /\ Rest

Tick ==
  /\ clock < MaxTime /\ clock' = clock + 1
  /\ UNCHANGED <<commits, git, moves, log, ci, r, calls, store, runs, mixed>>

-----------------------------------------------------------------------------
(* The CI run, which is not of this repository: the lines ScanCILog reads. *)
(* A new run may overwrite the log of an earlier one.                      *)

CIRest == UNCHANGED <<commits, git, clock, moves, r, calls, store, mixed>>
Edge == [run |-> ci'.run, head |-> git.head, tree |-> commits[git.head].tree,
         id |-> BranchChangeID, clean |-> git.clean]

StartRun(l) ==
  /\ ci.at = "idle" /\ ci.run < MaxRuns
  /\ ci' = [at |-> "testing", log |-> l, run |-> ci.run + 1]
  /\ log' = [log EXCEPT ![l] = [start |-> Edge, finish |-> NoLine, result |-> NoLine,
                                at |-> clock]]
  /\ UNCHANGED runs /\ CIRest

FinishRun ==
  /\ ci.at = "testing" /\ ci' = [ci EXCEPT !.at = "ending"]
  /\ log' = [log EXCEPT ![ci.log].finish = Edge, ![ci.log].at = clock]
  /\ UNCHANGED runs /\ CIRest

\* PASS stands for a PASS with exit 0 and no line counted as a failure.
EndRun(pass) ==
  LET its == log[ci.log]
  IN  /\ ci.at = "ending" /\ ci' = [ci EXCEPT !.at = "idle"]
      /\ log' = [log EXCEPT ![ci.log].result = [run |-> ci.run, pass |-> pass],
                            ![ci.log].at = clock]
      /\ runs' = IF pass /\ its.start = its.finish /\ its.start.clean
                 THEN runs \cup {[head |-> its.start.head, id |-> its.start.id,
                                  ended |-> clock]}
                 ELSE runs
      /\ CIRest

-----------------------------------------------------------------------------
(* The command *)

CommandRest ==
  UNCHANGED <<commits, git, clock, moves, log, ci, calls, store, runs, mixed>>

\* The newest log, or the one --log names.
selectCILog(l) ==
  /\ r.at = "idle" /\ calls < MaxCalls /\ calls' = calls + 1
  /\ log[l].start # NoLine
  /\ r' = [Idle EXCEPT !.at = "selected", !.log = l]
  /\ UNCHANGED <<commits, git, clock, moves, log, ci, store, runs, mixed>>

\* On with what was read, unless a check refuses.
Goes(from, to, ok, read) ==
  /\ r.at = from
  /\ r' = IF ok THEN [read EXCEPT !.at = to] ELSE Idle
  /\ CommandRest

\* ScanCILog: the time first, then the log from its start to its end.
Stat == Goes("selected", "open", TRUE, [r EXCEPT !.finished = log[r.log].at])
ReadStart == Goes("open", "started", log[r.log].start # NoLine,
                  [r EXCEPT !.start = log[r.log].start])
ReadFinish == Goes("started", "finished", log[r.log].finish # NoLine,
                   [r EXCEPT !.finish = log[r.log].finish])
\* Mutant of ReceiptAgrees: the run-ids are not compared.
ReceiptAgreesAcrossRuns(result) ==
  result # NoLine /\ [r.start EXCEPT !.run = 0] = [r.finish EXCEPT !.run = 0]

ReceiptAgrees(result) ==
  /\ result # NoLine
  /\ [r.start EXCEPT !.run = 0] = [r.finish EXCEPT !.run = 0]
  /\ r.start.run = r.finish.run /\ r.start.run = result.run
ReadResult ==
  Goes("finished", "scanned", ReceiptAgrees(log[r.log].result),
       [r EXCEPT !.pass = log[r.log].result.pass])

\* bindGateEvidence: one git call after another.
BindHead == Goes("scanned", "head", TRUE, [r EXCEPT !.head = git.head])
BindTree ==
  Goes("head", "tree",
       r.head = r.start.head /\ commits[git.head].tree = r.start.tree, r)
BindSubject == Goes("tree", "subject", TRUE, [r EXCEPT !.subject = git.head])
FindBase ==
  Goes("subject", "branch", SourceRefs # {},
       [r EXCEPT !.base = MergeBase(git[SourceRef])])
BindChange ==
  Goes("branch", "change",
       IdSince(r.base) \in Change /\ IdSince(r.base) = r.start.id /\ r.pass,
       r)
GatesTheCommit(finished, dated) == finished > dated
BindDate ==
  Goes("change", "bound",
       GatesTheCommit(r.finished, commits[git.head].dated) /\ r.start.clean,
       [r EXCEPT !.dated = commits[git.head].dated])

Block ==
  [subject |-> r.subject, id |-> r.start.id, finished |-> r.finished, dated |-> r.dated]

\* A receipt's name holds a hash of its bytes, and it is linked into place whole.
publishGateFile ==
  /\ r.at = "bound" /\ r' = Idle
  /\ store' = store \cup {Block}
  /\ mixed' = IF r.switched THEN mixed \cup {Block} ELSE mixed
  /\ UNCHANGED <<commits, git, clock, moves, log, ci, calls, runs>>

-----------------------------------------------------------------------------
(* A block that a card quotes (CheckGateEvidence). *)

changeIDIntegrated(id) ==
  /\ SourceRefs # {}
  /\ \E c \in Line(git[SourceRef]) : commits[c].id = id

\* verifyEvidenceReceipt: the quoted bytes are those of a filed receipt.
Filed(block) == block \in store

CheckGateEvidence(block) ==
  IF ~ GatesTheCommit(block.finished, block.dated) THEN "refused"
  ELSE IF Filed(block) THEN "verified"
  ELSE IF changeIDIntegrated(block.id) THEN "warned"
  ELSE "refused"

-----------------------------------------------------------------------------
People ==
  \/ \E t \in Tree, id \in Change \cup {"none"}, amend \in BOOLEAN : Commit(t, id, amend)
  \/ \E c \in DOMAIN commits : Switch(c)
  \/ \E ref \in {"origin", "local"} : Integrate(ref)
  \/ Edit
  \/ Tick
CI ==
  \/ \E l \in Log : StartRun(l)
  \/ FinishRun
  \/ \E pass \in BOOLEAN : EndRun(pass)
Command ==
  \/ \E l \in Log : selectCILog(l)
  \/ Stat \/ ReadStart \/ ReadFinish \/ ReadResult
  \/ BindHead \/ BindTree \/ BindSubject \/ FindBase \/ BindChange \/ BindDate
  \/ publishGateFile

Next == People \/ CI \/ Command
Spec == Init /\ [][Next]_vars

-----------------------------------------------------------------------------
(* Properties *)

Tested(block) ==
  LET named == commits[block.subject]
  IN  /\ block.dated = named.dated /\ block.finished > named.dated
      /\ \E run \in runs :
           run.head = block.subject /\ run.id = block.id /\ run.ended >= block.finished

\* A quoted block is verified only if a complete, clean, passing run tested
\* the commit it names and ended after that commit was made, whatever was
\* committed, amended, integrated or rerun while the command read; only a HEAD
\* that goes to another existing commit in the meantime can mix two commits
\* (bindGateEvidence, ScanCILog, verifyEvidenceReceipt).  The quoted block may
\* name another subject than the published one.
VerifiedIsTested ==
  \A block \in store \ mixed, c \in DOMAIN commits :
    LET quoted == [block EXCEPT !.subject = c]
    IN  CheckGateEvidence(quoted) = "verified" /\ quoted \notin mixed => Tested(quoted)

EvidenceHolds == TypeOK /\ VerifiedIsTested

=============================================================================
