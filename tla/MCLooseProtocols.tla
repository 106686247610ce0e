-------------------------- MODULE MCLooseProtocols --------------------------
(***************************************************************************)
(* TLC instance of LooseProtocols: two acts of writers during one capture  *)
(* of the worktree or of the index, where two contents tell a file from    *)
(* its replacement; one manual card and two request IDs; two files before  *)
(* the gate; two runs that write one log.                                  *)
(***************************************************************************)
EXTENDS LooseProtocols, TLC

CONSTANTS
  ce, manager,   \* the authority
  q1, q2         \* manual cards

\* Two controllers; one wants the legacy file to become the first authority,
\* or only to confirm that it is, the other a change of the writer.
Legacy == [kind |-> "legacy"]
Writing(writer, generation) ==
  [kind |-> "authority", writer |-> writer, generation |-> generation]
Asks(expected, target) == [expected |-> expected, target |-> target, confirm |-> FALSE]
Requests ==
  {Asks(Legacy, Writing(ce, 1)), Asks(Writing(ce, 1), Writing(manager, 2)),
   [Asks(Legacy, Writing(ce, 1)) EXCEPT !.confirm = TRUE]}

\* One of the gate's files is a good card in todo or nothing at first; eight
\* texts, each of which stops another pass; a binding that runs and one that is
\* refused.
Good == [card |-> TRUE, readable |-> TRUE, valid |-> TRUE, wip |-> FALSE, bound |-> TRUE,
         open |-> {}, checked |-> {"test"}]
Texts ==
  {Good, [Good EXCEPT !.valid = FALSE], [Good EXCEPT !.readable = FALSE],
   [Good EXCEPT !.wip = TRUE], [Good EXCEPT !.bound = FALSE, !.checked = {}],
   [Good EXCEPT !.checked = {"curl"}], [Good EXCEPT !.checked = {}, !.open = {"test"}],
   [Good EXCEPT !.card = FALSE, !.valid = FALSE]}
GateStarts ==
  /\ g_file[2].text = Good /\ g_file[2].dir \in {"todo", "none"}
  /\ g_file[1].dir = "none" => g_file[1].text = Good
  /\ g_dirs = {"plan"} \cup ({g_file[f].dir : f \in GateFile} \ {"none"})

\* A branch one commit from its source, another commit.  All trees are equal, so
\* that only hashes tell commits apart; the source branch is known here and at the
\* origin, or not yet.
EvidenceStarts == e_git.origin = e_git.local

\* The parts that rest do so in one state.
OthersRest ==
  /\ which # "capture" => c_r.source = "index"
  /\ which # "gate" => g_file[1].dir = "none" /\ g_file[2].dir = "none" /\ g_passes = {}
                       /\ ~g_roles /\ g_dirs = {"plan"}
  /\ which # "evidence" => e_git.local = 0

SmallBegins ==
  /\ which \in {"declaration", "capture", "manual", "gate", "evidence"}
  /\ Gate!Init /\ GateStarts
  /\ Capture!Init /\ Evidence!Init /\ EvidenceStarts /\ OthersRest
  /\ Begins

SmallBehaviour == SmallBegins /\ [][Continues]_all

Symmetric == Permutations(Process)

=============================================================================
