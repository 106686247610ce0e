-------------------------- MODULE RegistryAndCards --------------------------
(***************************************************************************)
(* The files a board is made of beside its tasks' ledgers: the registry of *)
(* documents, and the card board under the card verbs and the maintenance  *)
(* commands.  They share no file, so a behaviour is that of one of them    *)
(* and the other rests in one initial state.  The variables of the         *)
(* registry have no prefix.                                                *)
(***************************************************************************)
EXTENDS ContextRegistry, Integers

CONSTANTS
  \* CardBoard
  Proc, Issue, DoingTask, DoneTask, DoingNumber, DoneNumber, Receipt, MaxNumber,
  RefHighest, Vacant, Asked, Absent, Made, MaxActs

VARIABLES
  which,   \* the part of this behaviour
  b_board, b_aside, b_run, b_lock, b_reservation, b_evidence, b_retained, b_acts, b_stayed

cards == <<b_board, b_aside, b_run, b_lock, b_reservation, b_evidence, b_retained,
           b_acts, b_stayed>>
all == <<which, vars, cards>>

Cards == INSTANCE CardBoard WITH
  board <- b_board, aside <- b_aside, run <- b_run, lock <- b_lock,
  reservation <- b_reservation, evidence <- b_evidence, retained <- b_retained,
  acts <- b_acts, stayed <- b_stayed

\* Bounds are numbers.
RegistryParameters == MaxCount \in Nat

ASSUME RegistryAssumption == RegistryParameters

\* The cards, the numbers and the special values are different things.  The two
\* tasks may have any numbers, and the commits may name any.
CardsParameters ==
  /\ MaxNumber \in Nat /\ MaxActs \in Nat /\ RefHighest \in Nat
  /\ DoingNumber \in 1..MaxNumber /\ DoneNumber \in 1..MaxNumber
  /\ Asked \subseteq 1..MaxNumber /\ Vacant \subseteq Cards!Zone
  /\ {DoingTask, DoneTask, Receipt} \cap Int = {} /\ Issue \cap Int = {}
  /\ DoingTask # DoneTask /\ DoingTask # Receipt /\ DoneTask # Receipt
  /\ {DoingTask, DoneTask, Receipt} \cap Issue = {}
  /\ None \notin Proc /\ Made \notin Nat
  /\ None \notin Cards!Text /\ Absent \notin Cards!Text

ASSUME CardsAssumption == CardsParameters

-----------------------------------------------------------------------------
Begins ==
  /\ which \in {"registry", "cards"}
  /\ Init /\ (which # "registry" => present = {})
  /\ Cards!Init /\ (which # "cards" => b_evidence[DoingTask] = "none")

Continues ==
  /\ UNCHANGED which
  /\ \/ which = "registry" /\ Next /\ UNCHANGED cards
     \/ which = "cards" /\ Cards!Next /\ UNCHANGED vars

Behaviour == Begins /\ [][Continues]_all

-----------------------------------------------------------------------------
(* Properties, of the parts' own modules; ToldHolds and ReferencesStand    *)
(* are those of ContextRegistry.                                           *)

\* Types, and the counters of an iteration are the truth about its lineage
\* (validatePredecessor).
CountersTrue == which = "registry" => TypeOK /\ CountsTrue

\* Types, and no card is cleaned away under an execution (protectCleanup).
ActiveKept == which = "cards" => Cards!TypeOK /\ Cards!ActiveKept

\* A saved text goes from the board for good only after a look at it
\* (reconcileMove, applyCleanupGroup, verifyLiveBefore, MoveCard).
NothingLostUnseen == Cards!NothingLostUnseen

\* No card number is given out twice (cardid.Next).
NumbersOnce == Cards!NumbersOnce

=============================================================================
