--------------------------- MODULE LooseProtocols ---------------------------
(***************************************************************************)
(* Five protocols that rest on what single file operations promise and     *)
(* hold no board session: the declaration of the execution authority, the  *)
(* capture of a board, manual cards, the completion gate and its receipt.  *)
(* They write no common file, so a behaviour is that of one of them and    *)
(* the others rest.  The variables of the declaration have no prefix.      *)
(***************************************************************************)
EXTENDS AuthorityPublication

CONSTANTS
  CaptureData, CaptureActs,                        \* BoardCapture
  ManualRequest, Torn, ManualCalls, ManualStops, MaxEdits,   \* ManualCards
  GateFile, Text, Binding, Refused,                \* BoardGate
  CommitTree, Change, Log, MaxCommits, MaxTime, MaxMoves, MaxCalls   \* GateEvidence

VARIABLES
  which,   \* the part of this behaviour
  c_node, c_index, c_acts, c_r, c_then,
  m_files, m_inbound, m_entry, m_close, m_partial, m_receipt, m_call, m_unanswered,
  m_told, m_seen,
  g_file, g_dirs, g_passes, g_roles, g_now, g_verdict, g_acts, g_stirred, g_held,
  g_failing, g_silent,
  e_commits, e_git, e_clock, e_moves, e_log, e_ci, e_r, e_calls, e_store, e_runs, e_mixed

capture == <<c_node, c_index, c_acts, c_r, c_then>>
manual == <<m_files, m_inbound, m_entry, m_close, m_partial, m_receipt, m_call,
            m_unanswered, m_told, m_seen>>
gate == <<g_file, g_dirs, g_passes, g_roles, g_now, g_verdict, g_acts, g_stirred, g_held,
          g_failing, g_silent>>
evidence == <<e_commits, e_git, e_clock, e_moves, e_log, e_ci, e_r, e_calls, e_store,
              e_runs, e_mixed>>
all == <<which, vars, capture, manual, gate, evidence>>

Capture == INSTANCE BoardCapture WITH
  MaxActs <- CaptureActs, Data <- CaptureData,
  node <- c_node, index <- c_index, acts <- c_acts, r <- c_r, then <- c_then

Manual == INSTANCE ManualCards WITH
  Request <- ManualRequest, MaxCalls <- ManualCalls, MaxStops <- ManualStops,
  files <- m_files, inbound <- m_inbound, entry <- m_entry, close <- m_close,
  partial <- m_partial, receipt <- m_receipt, call <- m_call,
  unanswered <- m_unanswered, told <- m_told, seen <- m_seen

Gate == INSTANCE BoardGate WITH
  File <- GateFile, Command <- Binding,
  file <- g_file, dirs <- g_dirs, passes <- g_passes, roles <- g_roles, g <- g_now,
  verdict <- g_verdict, acts <- g_acts, stirred <- g_stirred, held <- g_held,
  failing <- g_failing, silent <- g_silent

Evidence == INSTANCE GateEvidence WITH
  Tree <- CommitTree,
  commits <- e_commits, git <- e_git, clock <- e_clock, moves <- e_moves, log <- e_log,
  ci <- e_ci, r <- e_r, calls <- e_calls, store <- e_store, runs <- e_runs,
  mixed <- e_mixed

\* Texts are of the kind BoardGate describes, refused bindings bindings, and the
\* bound is a number.
GateParameters ==
  Text \subseteq Gate!Texts /\ Refused \subseteq Binding /\ MaxActs \in Nat

ASSUME GateAssumption == GateParameters

\* A second commit, and numbers as bounds.
EvidenceParameters ==
  /\ MaxCommits \in Nat \ {0, 1}
  /\ MaxTime \in Nat /\ MaxRuns \in Nat /\ MaxMoves \in Nat /\ MaxCalls \in Nat

ASSUME EvidenceAssumption == EvidenceParameters

\* Bounds are numbers.
CaptureParameters == CaptureActs \in Nat

ASSUME CaptureAssumption == CaptureParameters

-----------------------------------------------------------------------------
Begins ==
  /\ which \in {"declaration", "capture", "manual", "gate", "evidence"}
  /\ Init /\ Capture!Init /\ Manual!Init /\ Gate!Init /\ Evidence!Init

Continues ==
  /\ UNCHANGED which
  /\ \/ which = "declaration" /\ Next /\ UNCHANGED <<capture, manual, gate, evidence>>
     \/ which = "capture" /\ Capture!Next /\ UNCHANGED <<vars, manual, gate, evidence>>
     \/ which = "manual" /\ Manual!Next /\ UNCHANGED <<vars, capture, gate, evidence>>
     \/ which = "gate" /\ Gate!Next /\ UNCHANGED <<vars, capture, manual, evidence>>
     \/ which = "evidence" /\ Evidence!Next /\ UNCHANGED <<vars, capture, manual, gate>>

Behaviour == Begins /\ [][Continues]_all

-----------------------------------------------------------------------------
(* Properties, of the parts' own modules; AuthorityHolds and               *)
(* SwitchesQuietly are those of AuthorityPublication.                      *)

\* Types, and a capture that succeeds is the board of one moment, as far as
\* inodes and change times tell (walkCapture, captureBinding.verify).
CaptureIsOneMoment ==
  which = "capture" => Capture!TypeOK /\ Capture!CaptureIsOneMoment

\* A card comes out of the manual zone as it went in (manual_apply.go,
\* manual_resume.go).
ManualKept == which = "manual" => Manual!ManualKept

\* Types, and a ready gate has measured the board (runGateWithPolicy,
\* ReexecCheckedBindings).
GateHolds == which = "gate" => Gate!GateHolds

\* Types, and a verified receipt names a tested commit (bindGateEvidence,
\* ScanCILog).
EvidenceHolds == which = "evidence" => Evidence!EvidenceHolds

=============================================================================
