----------------------- MODULE LooseProtocols_proofs -----------------------
(***************************************************************************)
(* Proofs about the protocols that hold no board session (LooseProtocols). *)
(*                                                                         *)
(* The declaration of the execution authority, for any number of processes,*)
(* engines, edits, kills, power losses and executions.  Whoever holds the  *)
(* mutation lock may rely on the ledger and, but for an edit by hand, on   *)
(* the file it read; what a sync has seen cannot be undone by a power loss.*)
(* Fits says it for each step of a call.                                   *)
(*                                                                         *)
(* The completion gate, for any files, texts, bindings and acts of others. *)
(* Each pass reads the board anew, so what it found out is a fact about    *)
(* the files that nobody has touched since (FactsFit), and what its walk   *)
(* has read so far one about the directories behind it (PassFits).         *)
(*                                                                         *)
(* The receipt of a gate, for any number of acts of others: what the       *)
(* validations read is what the binding and the recheck saw.               *)
(*                                                                         *)
(* The capture of a board, for any number of acts of others.  An inode of  *)
(* the old change time is as it was when the second observation began, so  *)
(* the second observation is a walk of the tree of that moment, directory  *)
(* by directory (QueueFits, HeadFits), or its end finds a difference.      *)
(***************************************************************************)
EXTENDS LooseProtocols, Sequences, FiniteSetTheorems, SequenceTheorems, TLAPS

Data == {First} \cup {request.target : request \in Request}

Content == [id : Nat, data : Data, hand : BOOLEAN]

\* The steps that hold the mutation lock.
Held == {"read", "confirm", "check", "quiescence", "temp", "rename", "sync", "verify",
         "leased", "release"}

\* The answers that say what is in force, and those that say nothing changed.
InForce == {"published", "already-published"}
NothingDone == {"refused", "conflict", "failed-before-publish"}
Unsure == {"durability-unknown", "publication-unverified"}

AnyCall == [what : {"publish", "mutate"}, at : {"ask", "lock"} \cup Held,
            request : Request \cup Engine, handle : {None} \cup Content,
            status : InForce \cup NothingDone \cup Unsure, own : Nat]

\* A publication names what it expects and its target.
Call == {c \in AnyCall : c.what = "publish" => c.request \in Request}

Filed ==
  /\ config \in durable /\ durable \subseteq Content /\ changes \in Nat
  /\ \A c \in durable : c.id <= changes

Typed ==
  /\ Filed
  /\ lock \in Process \cup {None} /\ (lock # None => call[lock].at \in Held)
  /\ call \in [Process -> Call \cup {Idle}]
  /\ told \in [id : Nat, kept : BOOLEAN]

\* No power loss leaves a content older than that numbered n.
Survives(n) == \A c \in durable : c.id >= n

\* What a call c of a publication has replaced so far.
OwnFits(c) ==
  /\ c.own # 0 => c.at \in {"sync", "verify", "release"} /\ c.status \notin NothingDone
  /\ c.at \in {"sync", "verify"} => c.own <= config.id
  /\ c.at = "verify" => Survives(c.own)

\* The file it has read.
HandleFits(c) ==
  /\ c.at \in {"confirm", "check"} => c.handle \in Content /\ c.handle.id <= config.id
  /\ c.at = "check" => Survives(c.handle.id)
  /\ c.status \in InForce =>
       c.at = "release" /\ (c.what = "publish" => c.handle \in Content /\ Survives(c.handle.id))

\* What it may replace.
SwitchFits(c) ==
  /\ c.at \in {"quiescence", "temp", "rename"} => c.what = "publish"
  /\ c.at \in {"quiescence", "temp"} => c.handle.data = c.request.expected
  /\ c.at = "rename" =>
       /\ row = 0 \/ Over(receipt, row)
       /\ config.data = c.request.expected \/ config.hand

LeaseFits(c) == c.at = "leased" => Writes(c.request) \/ config.hand

Fits(p) ==
  LET c == call[p]
  IN  c.at # "idle" =>
        /\ c.at \in Held => lock = p
        /\ OwnFits(c) /\ HandleFits(c) /\ SwitchFits(c) /\ LeaseFits(c)

AuthInv == Typed /\ AnswersStand /\ \A p \in Process : Fits(p)

-----------------------------------------------------------------------------
(* What a step must show of itself to preserve the invariant.              *)

\* The declaration is left alone, or replaced by hand.
Steady ==
  \/ UNCHANGED <<config, durable>>
  \/ /\ config'.hand /\ config'.id > changes
     /\ durable' = durable \cup {config'}

Bystanders(S) ==
  \A o \in Process \ S :
    /\ call'[o] = call[o]
    /\ call[o].at \in Held => UNCHANGED <<lock, row, receipt>> /\ Steady

LEMMA StepKeeps ==
  ASSUME AuthInv, NEW S \in SUBSET Process, Typed', AnswersStand', Bystanders(S),
         \A p \in S : Fits(p)'
  PROVE  AuthInv'
<1> SUFFICES ASSUME NEW o \in Process \ S
             PROVE  Fits(o)'
  BY DEF AuthInv
<1>1. PICK c : c = call[o]
  OBVIOUS
<1>2. call'[o] = c /\ (c.at \in Held => UNCHANGED <<lock, row, receipt>> /\ Steady)
  BY <1>1 DEF Bystanders
<1>3. CASE c.at \notin Held
  <2> SUFFICES ASSUME c.at # "idle"
               PROVE  OwnFits(c)' /\ HandleFits(c)' /\ SwitchFits(c)' /\ LeaseFits(c)'
    BY <1>2, <1>3 DEF Fits, OwnFits, HandleFits, SwitchFits, LeaseFits
  <2>1. OwnFits(c) /\ HandleFits(c)
    BY <1>1 DEF AuthInv, Fits
  <2> QED BY <1>3, <2>1 DEF Held, OwnFits, HandleFits, SwitchFits, LeaseFits
<1>4. CASE c.at \in Held
  <2>1. /\ lock = o /\ OwnFits(c) /\ HandleFits(c) /\ SwitchFits(c) /\ LeaseFits(c)
        /\ c \in Call
    BY <1>1, <1>4 DEF AuthInv, Fits, Held, Typed, Idle
  <2>2. UNCHANGED <<lock, row, receipt>> /\ Steady
    BY <1>2, <1>4
  <2>3. c.own \in Nat /\ (c.handle \in Content => c.handle.id \in Nat)
    BY <2>1 DEF Call, AnyCall, Content
  <2>4. /\ config.id \in Nat /\ config.id <= changes /\ changes \in Nat
        /\ config'.id \in Nat /\ config.id <= config'.id
    BY <2>2 DEF AuthInv, Typed, Filed, Steady, Content
  <2>5. ASSUME NEW n \in Nat, n <= config.id, Survives(n)
        PROVE  Survives(n)'
    BY <2>2, <2>4, <2>5 DEF Survives, Steady
  <2>6. ASSUME NEW n \in Nat, Survives(n)
        PROVE  n <= config.id
    BY <2>6 DEF Survives, AuthInv, Typed, Filed
  <2>7. OwnFits(c)'
    BY <2>1, <2>3, <2>4, <2>5, <2>6 DEF OwnFits
  <2>8. HandleFits(c)'
    BY <2>1, <2>3, <2>4, <2>5, <2>6 DEF HandleFits
  <2>9. SwitchFits(c)' /\ LeaseFits(c)'
    BY <2>1, <2>2 DEF SwitchFits, LeaseFits, Steady, Over, Writes, Canonical
  <2> QED BY <1>2, <2>1, <2>2, <2>7, <2>8, <2>9 DEF Fits, OwnFits, HandleFits, SwitchFits, LeaseFits
<1> QED BY <1>3, <1>4

LEMMA LockAlone ==
  ASSUME AuthInv
  PROVE  /\ lock = None => \A o \in Process : call[o].at \notin Held
         /\ \A p, o \in Process : lock = p /\ p # o => call[o].at \notin Held
  BY AuthorityAssumption DEF AuthInv, Fits, Held

\* A call that has begun, and what it may rely on.
LEMMA Begun ==
  ASSUME AuthInv, NEW p \in Process, call[p].at # "idle"
  PROVE  /\ call[p] \in Call /\ (call[p].at \in Held => lock = p)
         /\ OwnFits(call[p]) /\ HandleFits(call[p]) /\ SwitchFits(call[p]) /\ LeaseFits(call[p])
  BY DEF AuthInv, Typed, Idle, Fits

\* What call c of the holder of the lock, or of a process without it, fits.
CallFits(c) == OwnFits(c) /\ HandleFits(c) /\ SwitchFits(c) /\ LeaseFits(c)

\* A step of p after which its call is x.
LEMMA ActsKeep ==
  ASSUME AuthInv, NEW p \in Process, NEW x \in Call \cup {Idle},
         call' = [call EXCEPT ![p] = x],
         Filed', told' \in [id : Nat, kept : BOOLEAN], AnswersStand',
         lock \in {None, p} \/ UNCHANGED <<config, durable, lock, row, receipt>>,
         lock' \in {None, p} \/ lock' = lock, lock' = p => x.at \in Held,
         x.at # "idle" => (x.at \in Held => lock' = p) /\ CallFits(x)'
  PROVE  AuthInv'
<1>1. /\ call' \in [Process -> Call \cup {Idle}] /\ call'[p] = x
      /\ \A o \in Process \ {p} : call'[o] = call[o]
  BY DEF AuthInv, Typed
<1>2. lock' \in Process \cup {None} /\ (lock' # None => call'[lock'].at \in Held)
  BY <1>1, AuthorityAssumption DEF AuthInv, Typed
<1>3. Typed'
  BY <1>1, <1>2 DEF Typed
<1>4. Bystanders({p})
  BY <1>1, LockAlone DEF Bystanders, Steady
<1>5. Fits(p)'
  BY <1>1 DEF Fits, CallFits, OwnFits, HandleFits, SwitchFits, LeaseFits
<1>6. {p} \in SUBSET Process /\ \A o \in {p} : Fits(o)'
  BY <1>5
<1> QED BY <1>3, <1>4, <1>6, StepKeeps

\* A step of p that changes its call only.
LEMMA CallsKeep ==
  ASSUME AuthInv, NEW p \in Process, NEW x \in Call \cup {Idle},
         call' = [call EXCEPT ![p] = x],
         UNCHANGED <<config, durable, changes, lock, row, receipt, told>>,
         lock = p => x.at \in Held,
         x.at # "idle" => (x.at \in Held => lock = p) /\ CallFits(x)
  PROVE  AuthInv'
<1>1. Filed' /\ told' \in [id : Nat, kept : BOOLEAN] /\ AnswersStand'
  BY DEF AuthInv, Typed, Filed, AnswersStand
<1>2. CallFits(x) => CallFits(x)'
  BY DEF CallFits, OwnFits, HandleFits, SwitchFits, LeaseFits, Survives, Over, Writes, Canonical
<1> QED BY <1>1, <1>2, ActsKeep

\* The call after Goes.
LEMMA GoesTo ==
  ASSUME AuthInv, NEW p \in Process, call[p] \in Call,
         NEW at \in {"ask", "lock"} \cup Held,
         NEW status \in InForce \cup NothingDone \cup Unsure, Goes(p, at, status)
  PROVE  \E x \in Call :
           /\ call' = [call EXCEPT ![p] = x]
           /\ x.at = at /\ x.status = status /\ x.what = call[p].what
           /\ x.request = call[p].request /\ x.own = call[p].own
           /\ x.handle = IF at = "release" /\ status # "already-published"
                         THEN None ELSE call[p].handle
<1>1. PICK c : c = call[p]
  OBVIOUS
<1>2. PICK h : h = IF at = "release" /\ status # "already-published" THEN None ELSE c.handle
  OBVIOUS
<1>3. PICK x : x = [c EXCEPT !.at = at, !.status = status, !.handle = h]
  OBVIOUS
<1>4. c \in Call /\ h \in {None} \cup Content
  BY <1>1, <1>2 DEF Call, AnyCall
<1>5. /\ x \in Call /\ x.at = at /\ x.status = status /\ x.what = c.what
      /\ x.request = c.request /\ x.own = c.own /\ x.handle = h
  BY <1>3, <1>4 DEF Call, AnyCall
<1>6. call' = [call EXCEPT ![p] = x]
  BY <1>1, <1>2, <1>3 DEF Goes
<1> QED BY <1>1, <1>2, <1>5, <1>6

-----------------------------------------------------------------------------
(* Calls that begin, answer and wait for the lock.                         *)

LEMMA PublishKeeps ==
  ASSUME AuthInv, NEW p \in Process, Publish(p) \/ Mutate(p)
  PROVE  AuthInv'
<1>1. PICK request \in Request \cup Engine, what \in {"publish", "mutate"}, at \in {"ask", "lock"} :
        /\ what = "publish" => request \in Request
        /\ call' = [call EXCEPT ![p] = [what |-> what, at |-> at, request |-> request,
                                        handle |-> None, status |-> "refused", own |-> 0]]
  BY DEF Publish, Mutate
<1>2. PICK x : x = [what |-> what, at |-> at, request |-> request, handle |-> None,
                    status |-> "refused", own |-> 0]
  OBVIOUS
<1>3. x \in Call /\ x.at = at /\ x.own = 0 /\ x.status = "refused"
  BY <1>1, <1>2 DEF Call, AnyCall, NothingDone
<1>4. CallFits(x) /\ x.at \notin Held
  BY <1>3 DEF CallFits, OwnFits, HandleFits, SwitchFits, LeaseFits, InForce, Held
<1>5. lock # p
  BY AuthorityAssumption DEF Publish, Mutate, At, AuthInv, Typed, Held
<1>6. UNCHANGED <<config, durable, changes, lock, row, receipt, told>>
  BY DEF Publish, Mutate, Kept, Quiet, ledger
<1> QED BY <1>1, <1>2, <1>3, <1>4, <1>5, <1>6, CallsKeep

\* What an answer tells holds, and goes on to hold.
LEMMA AnswerTold ==
  ASSUME AuthInv, NEW p \in Process, NEW status, Answer(p, status), UNCHANGED durable,
         status \in InForce => call[p].handle \in Content /\ Survives(call[p].handle.id),
         status \in NothingDone => call[p].own = 0
  PROVE  /\ told' \in [id : Nat, kept : BOOLEAN] /\ AnswersStand'
         /\ call' = [call EXCEPT ![p] = Idle]
<1>1. told \in [id : Nat, kept : BOOLEAN] /\ told.kept /\ Survives(told.id)
  BY DEF AuthInv, Typed, AnswersStand, Survives
<1>2. CASE status \in InForce
  <2>1. PICK n : n = IF call[p].handle.id > told.id THEN call[p].handle.id ELSE told.id
    OBVIOUS
  <2>2. n \in Nat /\ Survives(n)
    BY <1>1, <1>2, <2>1 DEF Content
  <2>3. told' = [told EXCEPT !.id = n]
    BY <1>2, <2>1 DEF Answer, InForce
  <2>4. told' \in [id : Nat, kept : BOOLEAN] /\ told'.id = n /\ told'.kept
    BY <1>1, <2>2, <2>3
  <2> QED BY <2>2, <2>4 DEF AnswersStand, Survives, Answer
<1>3. CASE status \in NothingDone
  <2>1. told' = [told EXCEPT !.kept = @ /\ call[p].own = 0]
    BY <1>3 DEF Answer, NothingDone
  <2>2. told' \in [id : Nat, kept : BOOLEAN] /\ told'.id = told.id /\ told'.kept
    BY <1>1, <1>3, <2>1
  <2> QED BY <1>1, <2>2 DEF AnswersStand, Survives, Answer
<1>4. CASE status \notin InForce \cup NothingDone
  <2>1. told' = told
    BY <1>4 DEF Answer, InForce, NothingDone
  <2> QED BY <1>1, <2>1 DEF AnswersStand, Survives, Answer
<1> QED BY <1>2, <1>3, <1>4

\* A call that ends, with the lock given back or never had.
LEMMA EndsKeep ==
  ASSUME AuthInv, NEW p \in Process, call' = [call EXCEPT ![p] = Idle],
         UNCHANGED <<config, durable, changes, row, receipt>>,
         told' \in [id : Nat, kept : BOOLEAN], AnswersStand',
         lock' = IF lock = p THEN None ELSE lock
  PROVE  AuthInv'
<1>1. Filed' /\ Idle \in Call \cup {Idle} /\ Idle.at = "idle" /\ lock' # p
  BY AuthorityAssumption DEF AuthInv, Typed, Filed, Idle
<1> QED BY <1>1, ActsKeep

LEMMA AskKeeps ==
  ASSUME AuthInv, NEW p \in Process, Ask(p)
  PROVE  AuthInv'
<1>1. /\ call[p].at = "ask" /\ call[p] \in Call /\ OwnFits(call[p])
      /\ UNCHANGED <<config, durable, changes, row, receipt, lock>> /\ lock # p
  BY Begun, AuthorityAssumption DEF Ask, At, Kept, Quiet, ledger, AuthInv, Typed, Held
<1>2. call[p].own = 0
  BY <1>1 DEF OwnFits
<1>3. CASE Goes(p, "lock", "refused") /\ UNCHANGED told
  <2>1. "lock" \in {"ask", "lock"} \cup Held /\ "refused" \in InForce \cup NothingDone \cup Unsure
    BY DEF NothingDone
  <2>2. PICK x \in Call : /\ call' = [call EXCEPT ![p] = x]
                          /\ x.at = "lock" /\ x.status = "refused" /\ x.own = 0
    BY <1>1, <1>2, <1>3, <2>1, GoesTo
  <2>3. CallFits(x) /\ x.at \notin Held
    BY <2>2 DEF CallFits, OwnFits, HandleFits, SwitchFits, LeaseFits, InForce, Held
  <2> QED BY <1>1, <1>3, <2>2, <2>3, CallsKeep
<1>4. CASE Answer(p, "refused")
  <2>1. "refused" \notin InForce
    BY DEF InForce
  <2>2. /\ told' \in [id : Nat, kept : BOOLEAN] /\ AnswersStand'
        /\ call' = [call EXCEPT ![p] = Idle]
    BY <1>1, <1>2, <1>4, <2>1, AnswerTold
  <2> QED BY <1>1, <2>2, EndsKeep
<1> QED BY <1>3, <1>4 DEF Ask

LEMMA TakeLockKeeps ==
  ASSUME AuthInv, NEW p \in Process, TakeLock(p)
  PROVE  AuthInv'
<1>1. /\ call[p].at = "lock" /\ call[p] \in Call /\ OwnFits(call[p])
      /\ UNCHANGED <<config, durable, changes, row, receipt>> /\ lock # p
  BY Begun, AuthorityAssumption DEF TakeLock, At, Kept, Quiet, ledger, AuthInv, Typed, Held
<1>2. call[p].own = 0
  BY <1>1 DEF OwnFits
<1>3. CASE lock = None
  <2>1. "read" \in {"ask", "lock"} \cup Held /\ "refused" \in InForce \cup NothingDone \cup Unsure
    BY DEF NothingDone, Held
  <2>2. Goes(p, "read", "refused") /\ lock' = p /\ told' = told
    BY <1>3 DEF TakeLock
  <2>3. PICK x \in Call : /\ call' = [call EXCEPT ![p] = x]
                          /\ x.at = "read" /\ x.status = "refused" /\ x.own = 0
    BY <1>1, <1>2, <2>1, <2>2, GoesTo
  <2>4. CallFits(x)' /\ x.at \in Held
    BY <2>3 DEF CallFits, OwnFits, HandleFits, SwitchFits, LeaseFits, InForce, Held
  <2>5. Filed' /\ told' \in [id : Nat, kept : BOOLEAN] /\ AnswersStand'
    BY <1>1, <2>2 DEF AuthInv, Typed, Filed, AnswersStand
  <2> QED BY <1>3, <2>2, <2>3, <2>4, <2>5, ActsKeep
<1>4. CASE lock # None /\ call[p].what = "publish"
  <2>1. "refused" \notin InForce /\ Answer(p, "refused") /\ lock' = lock
    BY <1>4 DEF InForce, TakeLock
  <2>2. /\ told' \in [id : Nat, kept : BOOLEAN] /\ AnswersStand'
        /\ call' = [call EXCEPT ![p] = Idle]
    BY <1>1, <1>2, <2>1, AnswerTold
  <2> QED BY <1>1, <2>1, <2>2, EndsKeep
<1>5. CASE lock # None /\ call[p].what # "publish"
  <2>1. call' = [call EXCEPT ![p] = Idle] /\ lock' = lock /\ told' = told
    BY <1>5 DEF TakeLock
  <2>2. told' \in [id : Nat, kept : BOOLEAN] /\ AnswersStand'
    BY <1>1, <2>1 DEF AuthInv, Typed, AnswersStand
  <2> QED BY <1>1, <2>1, <2>2, EndsKeep
<1> QED BY <1>3, <1>4, <1>5

LEMMA ReleaseKeeps ==
  ASSUME AuthInv, NEW p \in Process, NEW fails \in BOOLEAN, Release(p, fails)
  PROVE  AuthInv'
<1>1. /\ call[p].at = "release" /\ call[p] \in Call /\ OwnFits(call[p]) /\ HandleFits(call[p])
      /\ UNCHANGED <<config, durable, changes, row, receipt>> /\ lock = p /\ lock' = None
  BY Begun DEF Release, At, Kept, ledger, Held
<1>2. CASE call[p].what = "publish"
  <2>1. PICK status : status = IF fails /\ call[p].status \in {"published", "already-published"}
                               THEN "publication-unverified" ELSE call[p].status
    OBVIOUS
  <2>2. Answer(p, status) /\ (status = call[p].status \/ status = "publication-unverified")
    BY <1>2, <2>1 DEF Release
  <2>3. status \in InForce => call[p].handle \in Content /\ Survives(call[p].handle.id)
    BY <1>1, <1>2, <2>2 DEF HandleFits, InForce
  <2>4. status \in NothingDone => call[p].own = 0
    BY <1>1, <2>2 DEF OwnFits, NothingDone
  <2>5. /\ told' \in [id : Nat, kept : BOOLEAN] /\ AnswersStand'
        /\ call' = [call EXCEPT ![p] = Idle]
    BY <1>1, <2>2, <2>3, <2>4, AnswerTold
  <2> QED BY <1>1, <2>5, EndsKeep
<1>3. CASE call[p].what # "publish"
  <2>1. call' = [call EXCEPT ![p] = Idle] /\ told' = told
    BY <1>3 DEF Release
  <2>2. told' \in [id : Nat, kept : BOOLEAN] /\ AnswersStand'
    BY <1>1, <2>1 DEF AuthInv, Typed, AnswersStand
  <2> QED BY <1>1, <2>1, <2>2, EndsKeep
<1> QED BY <1>2, <1>3

LEMMA KillKeeps ==
  ASSUME AuthInv, NEW p \in Process, Kill(p)
  PROVE  AuthInv'
<1>1. /\ call' = [call EXCEPT ![p] = Idle] /\ lock' = IF lock = p THEN None ELSE lock
      /\ UNCHANGED <<config, durable, changes, row, receipt>> /\ told' = told
  BY DEF Kill, Kept, ledger
<1>2. told' \in [id : Nat, kept : BOOLEAN] /\ AnswersStand'
  BY <1>1 DEF AuthInv, Typed, AnswersStand
<1> QED BY <1>1, <1>2, EndsKeep

-----------------------------------------------------------------------------
(* The steps under the lock.                                               *)

LEMMA InvFiled ==
  ASSUME AuthInv
  PROVE  /\ config \in Content /\ config.id \in Nat /\ config.id <= changes /\ changes \in Nat
         /\ \A c \in durable : c.id \in Nat /\ c.id <= changes
  BY DEF AuthInv, Typed, Filed, Content

\* The file is left alone or synced.
LEMMA SyncedFits ==
  ASSUME AuthInv, UNCHANGED <<config, changes, told>>, Synced \/ UNCHANGED durable
  PROVE  /\ Filed' /\ told' \in [id : Nat, kept : BOOLEAN] /\ AnswersStand'
         /\ Synced => \A n \in Nat : n <= config.id => Survives(n)'
         /\ \A n \in Nat : Survives(n) => Survives(n)'
  BY DEF AuthInv, Typed, Filed, AnswersStand, Synced, Survives

LEMMA ReadCurrentKeeps ==
  ASSUME AuthInv, NEW p \in Process, ReadCurrent(p)
  PROVE  AuthInv'
<1>1. /\ call[p].at = "read" /\ call[p] \in Call /\ OwnFits(call[p]) /\ lock = p
      /\ UNCHANGED <<config, durable, changes, lock, row, receipt, told>>
  BY Begun DEF ReadCurrent, At, Kept, Quiet, ledger, Held
<1>2. PICK at \in {"confirm", "quiescence", "release"}, status \in {"refused", "conflict"} :
        /\ call' = [call EXCEPT ![p].handle = config, ![p].at = at, ![p].status = status]
        /\ at = "quiescence" => Expected(p)
  BY DEF ReadCurrent
<1>3. PICK x : x = [call[p] EXCEPT !.handle = config, !.at = at, !.status = status]
  OBVIOUS
<1>4. at \in Held /\ status \in NothingDone /\ status \notin InForce
  BY <1>2 DEF Held, NothingDone, InForce
<1>5. /\ x \in Call /\ x.handle = config /\ x.at = at /\ x.status = status
      /\ x.own = call[p].own /\ x.request = call[p].request /\ x.what = call[p].what
  BY <1>1, <1>3, <1>4, InvFiled DEF Call, AnyCall
<1>6. call' = [call EXCEPT ![p] = x]
  BY <1>2, <1>3
<1>7. x.own = 0
  BY <1>1, <1>5 DEF OwnFits
<1>8. /\ x.what = "publish"
      /\ at = "quiescence" => x.handle.data = x.request.expected
  BY <1>2, <1>5 DEF Expected, q, ReadCurrent
<1>9. CallFits(x)
  BY <1>2, <1>4, <1>5, <1>7, <1>8, InvFiled DEF CallFits, OwnFits, HandleFits, SwitchFits, LeaseFits
<1> QED BY <1>1, <1>4, <1>5, <1>6, <1>9, CallsKeep

LEMMA ConfirmCurrentKeeps ==
  ASSUME AuthInv, NEW p \in Process, ConfirmCurrent(p)
  PROVE  AuthInv'
<1>1. /\ call[p].at = "confirm" /\ call[p] \in Call /\ CallFits(call[p]) /\ lock = p
      /\ UNCHANGED <<config, changes, lock, row, receipt, told>> /\ Synced
      /\ Goes(p, "check", "durability-unknown")
  BY Begun DEF ConfirmCurrent, At, Quiet, ledger, Held, CallFits
<1>2. /\ "check" \in {"ask", "lock"} \cup Held /\ "check" \in Held
      /\ "durability-unknown" \in InForce \cup NothingDone \cup Unsure
  BY DEF Unsure, Held
<1>3. PICK x \in Call : /\ call' = [call EXCEPT ![p] = x]
                        /\ x.at = "check" /\ x.status = "durability-unknown"
                        /\ x.own = call[p].own /\ x.handle = call[p].handle
  BY <1>1, <1>2, GoesTo
<1>4. x.own = 0 /\ x.handle \in Content /\ x.handle.id \in Nat /\ x.handle.id <= config.id
  BY <1>1, <1>3 DEF CallFits, OwnFits, HandleFits, Content
<1>5. Survives(x.handle.id)' /\ Filed' /\ told' \in [id : Nat, kept : BOOLEAN] /\ AnswersStand'
  BY <1>1, <1>4, SyncedFits
<1>6. CallFits(x)'
  BY <1>1, <1>3, <1>4, <1>5 DEF CallFits, OwnFits, HandleFits, SwitchFits, LeaseFits, InForce
<1> QED BY <1>1, <1>2, <1>3, <1>5, <1>6, ActsKeep

LEMMA CheckConfirmedKeeps ==
  ASSUME AuthInv, NEW p \in Process, CheckConfirmed(p)
  PROVE  AuthInv'
<1>1. /\ call[p].at = "check" /\ call[p] \in Call /\ CallFits(call[p]) /\ lock = p
      /\ UNCHANGED <<config, durable, changes, lock, row, receipt, told>>
  BY Begun DEF CheckConfirmed, At, Kept, Quiet, ledger, Held, CallFits
<1>2. PICK status \in {"durability-unknown", "already-published", "refused"} :
        Goes(p, "release", status)
  BY DEF CheckConfirmed
<1>3. /\ "release" \in {"ask", "lock"} \cup Held /\ "release" \in Held
      /\ status \in InForce \cup NothingDone \cup Unsure
  BY <1>2 DEF InForce, NothingDone, Unsure, Held
<1>4. PICK x \in Call : /\ call' = [call EXCEPT ![p] = x]
                        /\ x.at = "release" /\ x.status = status /\ x.own = call[p].own
                        /\ status = "already-published" => x.handle = call[p].handle
  BY <1>1, <1>2, <1>3, GoesTo
<1>5. x.own = 0 /\ call[p].handle \in Content /\ Survives(call[p].handle.id)
  BY <1>1, <1>4 DEF CallFits, OwnFits, HandleFits
<1>6. CallFits(x)
  BY <1>2, <1>4, <1>5 DEF CallFits, OwnFits, HandleFits, SwitchFits, LeaseFits, InForce
<1> QED BY <1>1, <1>3, <1>4, <1>6, CallsKeep

\* A step that goes to the release with an answer that is not in force.
LEMMA GivesUpKeeps ==
  ASSUME AuthInv, NEW p \in Process, call[p].at \in Held,
         NEW status \in NothingDone \cup Unsure, Goes(p, "release", status),
         call[p].own # 0 => status \in Unsure,
         UNCHANGED <<config, durable, changes, lock, row, receipt, told>>
  PROVE  AuthInv'
<1>1. call[p] \in Call /\ lock = p
  BY Begun DEF Held
<1>2. /\ "release" \in {"ask", "lock"} \cup Held /\ "release" \in Held
      /\ status \in InForce \cup NothingDone \cup Unsure
      /\ status \notin InForce /\ (status \in Unsure => status \notin NothingDone)
  BY DEF Held, InForce, NothingDone, Unsure
<1>3. PICK x \in Call : /\ call' = [call EXCEPT ![p] = x]
                        /\ x.at = "release" /\ x.status = status /\ x.own = call[p].own
  BY <1>1, <1>2, GoesTo
<1>4. CallFits(x)
  BY <1>2, <1>3 DEF CallFits, OwnFits, HandleFits, SwitchFits, LeaseFits
<1> QED BY <1>1, <1>2, <1>3, <1>4, CallsKeep

LEMMA AskQuiescenceKeeps ==
  ASSUME AuthInv, NEW p \in Process, AskQuiescence(p)
  PROVE  AuthInv'
<1>1. /\ call[p].at = "quiescence" /\ call[p] \in Call /\ CallFits(call[p]) /\ lock = p
      /\ UNCHANGED <<config, durable, changes, lock, row, receipt, told>> /\ call[p].at \in Held
  BY Begun DEF AskQuiescence, At, Kept, Quiet, ledger, Held, CallFits
<1>2. call[p].own = 0 /\ call[p].handle.data = call[p].request.expected
  BY <1>1 DEF CallFits, OwnFits, SwitchFits
<1>3. CASE Goes(p, "temp", "failed-before-publish")
  <2>1. /\ "temp" \in {"ask", "lock"} \cup Held /\ "temp" \in Held
        /\ "failed-before-publish" \in InForce \cup NothingDone \cup Unsure
    BY DEF NothingDone, Held
  <2>2. PICK x \in Call : /\ call' = [call EXCEPT ![p] = x]
                          /\ x.at = "temp" /\ x.status = "failed-before-publish"
                          /\ x.own = call[p].own /\ x.handle = call[p].handle
                          /\ x.request = call[p].request /\ x.what = call[p].what
    BY <1>1, <1>3, <2>1, GoesTo
  <2>3. CallFits(x)
    BY <1>1, <1>2, <2>2 DEF CallFits, OwnFits, HandleFits, SwitchFits, LeaseFits, InForce
  <2> QED BY <1>1, <2>1, <2>2, <2>3, CallsKeep
<1>4. CASE Goes(p, "release", "refused")
  <2>1. "refused" \in NothingDone \cup Unsure
    BY DEF NothingDone
  <2> QED BY <1>1, <1>2, <1>4, <2>1, GivesUpKeeps
<1> QED BY <1>3, <1>4 DEF AskQuiescence

LEMMA WriteTempKeeps ==
  ASSUME AuthInv, NEW p \in Process, WriteTemp(p)
  PROVE  AuthInv'
<1>1. /\ call[p].at = "temp" /\ call[p] \in Call /\ CallFits(call[p]) /\ lock = p
      /\ UNCHANGED <<config, durable, changes, lock, row, receipt, told>> /\ call[p].at \in Held
  BY Begun DEF WriteTemp, At, Kept, Quiet, ledger, Held, CallFits
<1>2. call[p].own = 0 /\ call[p].handle.data = call[p].request.expected
  BY <1>1 DEF CallFits, OwnFits, SwitchFits
<1>3. CASE Quiescent /\ Pinned(p) /\ Goes(p, "rename", "failed-before-publish")
  <2>1. /\ "rename" \in {"ask", "lock"} \cup Held /\ "rename" \in Held
        /\ "failed-before-publish" \in InForce \cup NothingDone \cup Unsure
    BY DEF NothingDone, Held
  <2>2. PICK x \in Call : /\ call' = [call EXCEPT ![p] = x]
                          /\ x.at = "rename" /\ x.status = "failed-before-publish"
                          /\ x.own = call[p].own /\ x.request = call[p].request
                          /\ x.what = call[p].what
    BY <1>1, <1>3, <2>1, GoesTo
  <2>3. (row = 0 \/ Over(receipt, row)) /\ config.data = x.request.expected
    BY <1>2, <1>3, <2>2 DEF Quiescent, Pinned
  <2>4. CallFits(x)
    BY <1>1, <1>2, <2>2, <2>3 DEF CallFits, OwnFits, HandleFits, SwitchFits, LeaseFits, InForce
  <2> QED BY <1>1, <2>1, <2>2, <2>4, CallsKeep
<1>4. CASE Goes(p, "release", "failed-before-publish")
  <2>1. "failed-before-publish" \in NothingDone \cup Unsure
    BY DEF NothingDone
  <2> QED BY <1>1, <1>2, <1>4, <2>1, GivesUpKeeps
<1> QED BY <1>3, <1>4 DEF WriteTemp

LEMMA RenameKeeps ==
  ASSUME AuthInv, NEW p \in Process, Rename(p)
  PROVE  AuthInv'
<1>1. /\ call[p].at = "rename" /\ call[p] \in Call /\ lock = p
      /\ UNCHANGED <<lock, row, receipt, told>> /\ call[p].request \in Request
  BY Begun DEF Rename, At, Quiet, ledger, Held, SwitchFits, Call
<1>2. PICK n : n = changes + 1
  OBVIOUS
<1>3. PICK new : new = [id |-> n, data |-> call[p].request.target, hand |-> FALSE]
  OBVIOUS
<1>4. /\ changes' = n /\ config' = new /\ durable' = durable \cup {new}
      /\ call' = [call EXCEPT ![p].at = "sync", ![p].status = "durability-unknown", ![p].own = n]
  BY <1>2, <1>3 DEF Rename, q
<1>5. n \in Nat /\ new \in Content /\ new.id = n /\ n > changes
  BY <1>1, <1>2, <1>3, InvFiled DEF Content, Data
<1>6. Filed' /\ told' \in [id : Nat, kept : BOOLEAN]
  BY <1>1, <1>4, <1>5, InvFiled DEF AuthInv, Typed, Filed
<1>7. AnswersStand'
  <2>1. told.id \in Nat /\ config.id >= told.id
    BY DEF AuthInv, Typed, Filed, AnswersStand
  <2> QED BY <1>1, <1>4, <1>5, <2>1, InvFiled DEF AuthInv, AnswersStand
<1>8. PICK x : x = [call[p] EXCEPT !.at = "sync", !.status = "durability-unknown", !.own = n]
  OBVIOUS
<1>9. x \in Call /\ x.at = "sync" /\ x.status = "durability-unknown" /\ x.own = n
  BY <1>1, <1>5, <1>8 DEF Call, AnyCall, Held, Unsure
<1>10. call' = [call EXCEPT ![p] = x]
  BY <1>4, <1>8
<1>11. x.at \in Held /\ CallFits(x)'
  BY <1>4, <1>5, <1>9
     DEF CallFits, OwnFits, HandleFits, SwitchFits, LeaseFits, Held, InForce, NothingDone
<1> QED BY <1>1, <1>6, <1>7, <1>9, <1>10, <1>11, ActsKeep

LEMMA SyncDirectoryKeeps ==
  ASSUME AuthInv, NEW p \in Process, SyncDirectory(p)
  PROVE  AuthInv'
<1>1. /\ call[p].at = "sync" /\ call[p] \in Call /\ CallFits(call[p]) /\ lock = p
      /\ UNCHANGED <<config, changes, lock, row, receipt, told>> /\ Synced
      /\ Goes(p, "verify", "publication-unverified")
  BY Begun DEF SyncDirectory, At, Quiet, ledger, Held, CallFits
<1>2. /\ "verify" \in {"ask", "lock"} \cup Held /\ "verify" \in Held
      /\ "publication-unverified" \in InForce \cup NothingDone \cup Unsure
  BY DEF Unsure, Held
<1>3. PICK x \in Call : /\ call' = [call EXCEPT ![p] = x]
                        /\ x.at = "verify" /\ x.status = "publication-unverified"
                        /\ x.own = call[p].own
  BY <1>1, <1>2, GoesTo
<1>4. x.own \in Nat /\ x.own <= config.id
  BY <1>1, <1>3 DEF CallFits, OwnFits, Call, AnyCall
<1>5. Survives(x.own)' /\ Filed' /\ told' \in [id : Nat, kept : BOOLEAN] /\ AnswersStand'
  BY <1>1, <1>4, SyncedFits
<1>6. CallFits(x)'
  BY <1>1, <1>3, <1>4, <1>5
     DEF CallFits, OwnFits, HandleFits, SwitchFits, LeaseFits, InForce, NothingDone
<1> QED BY <1>1, <1>2, <1>3, <1>5, <1>6, ActsKeep

LEMMA VerifyKeeps ==
  ASSUME AuthInv, NEW p \in Process, Verify(p)
  PROVE  AuthInv'
<1>1. /\ call[p].at = "verify" /\ call[p] \in Call /\ CallFits(call[p]) /\ lock = p
      /\ UNCHANGED <<config, durable, changes, lock, row, receipt, told>> /\ call[p].at \in Held
  BY Begun DEF Verify, At, Kept, Quiet, ledger, Held, CallFits
<1>2. CASE /\ config.id = call[p].own
           /\ call' = [call EXCEPT ![p].at = "release", ![p].status = "published",
                                   ![p].handle = config]
  <2>1. PICK x : x = [call[p] EXCEPT !.at = "release", !.status = "published", !.handle = config]
    OBVIOUS
  <2>2. x \in Call /\ x.at = "release" /\ x.status = "published" /\ x.handle = config
    BY <1>1, <2>1, InvFiled DEF Call, AnyCall, Held, InForce
  <2>3. call' = [call EXCEPT ![p] = x]
    BY <1>2, <2>1
  <2>4. Survives(config.id)
    BY <1>1, <1>2 DEF CallFits, OwnFits
  <2>5. x.at \in Held /\ CallFits(x)
    BY <2>2, <2>4, InvFiled
       DEF CallFits, OwnFits, HandleFits, SwitchFits, LeaseFits, NothingDone, Held
  <2> QED BY <1>1, <2>2, <2>3, <2>5, CallsKeep
<1>3. CASE Goes(p, "release", "publication-unverified")
  <2>1. "publication-unverified" \in NothingDone \cup Unsure /\ "publication-unverified" \in Unsure
    BY DEF Unsure
  <2> QED BY <1>1, <1>3, <2>1, GivesUpKeeps
<1> QED BY <1>2, <1>3 DEF Verify

LEMMA StepFailsKeeps ==
  ASSUME AuthInv, NEW p \in Process, StepFails(p)
  PROVE  AuthInv'
<1>1. /\ call[p].at \in Held /\ call[p].at # "release" /\ call[p].at # "idle"
      /\ UNCHANGED <<config, durable, changes, lock, row, receipt, told>>
  BY DEF StepFails, Kept, ledger, Held
<1>2. call[p] \in Call /\ CallFits(call[p])
  BY <1>1, Begun DEF CallFits
<1>3. PICK status \in {"durability-unknown", call[p].status} : Goes(p, "release", status)
  BY DEF StepFails
<1>4. call[p].status \in NothingDone \cup Unsure
  BY <1>1, <1>2 DEF CallFits, HandleFits, Call, AnyCall
<1>5. call[p].own # 0 => call[p].status \in Unsure
  BY <1>2, <1>4 DEF CallFits, OwnFits
<1>6. "durability-unknown" \in Unsure
  BY DEF Unsure
<1>7. status \in NothingDone \cup Unsure /\ (call[p].own # 0 => status \in Unsure)
  BY <1>3, <1>4, <1>5, <1>6
<1> QED BY <1>1, <1>3, <1>7, GivesUpKeeps

-----------------------------------------------------------------------------
(* Leases, the ledger and the world.                                       *)

LEMMA GrantLeaseKeeps ==
  ASSUME AuthInv, NEW p \in Process, GrantLease(p)
  PROVE  AuthInv'
<1>1. /\ call[p].at = "read" /\ call[p] \in Call /\ CallFits(call[p]) /\ lock = p
      /\ UNCHANGED <<config, changes, lock, row, receipt, told>> /\ (Synced \/ UNCHANGED durable)
  BY Begun DEF GrantLease, At, Quiet, ledger, Held, CallFits
<1>2. PICK at \in {"leased", "release"} :
        /\ call' = [call EXCEPT ![p].handle = config, ![p].at = at]
        /\ at = "leased" => Writes(call[p].request)
  BY DEF GrantLease, q
<1>3. PICK x : x = [call[p] EXCEPT !.handle = config, !.at = at]
  OBVIOUS
<1>4. at \in Held
  BY DEF Held
<1>5. /\ x \in Call /\ x.at = at /\ x.own = call[p].own /\ x.request = call[p].request
      /\ x.status = call[p].status
  BY <1>1, <1>3, <1>4, InvFiled DEF Call, AnyCall
<1>6. call' = [call EXCEPT ![p] = x]
  BY <1>2, <1>3
<1>7. x.own = 0 /\ x.status \notin InForce
  BY <1>1, <1>5 DEF CallFits, OwnFits, HandleFits
<1>8. CallFits(x)'
  BY <1>1, <1>2, <1>5, <1>7
     DEF CallFits, OwnFits, HandleFits, SwitchFits, LeaseFits, Writes, Canonical
<1>9. Filed' /\ told' \in [id : Nat, kept : BOOLEAN] /\ AnswersStand'
  BY <1>1, SyncedFits
<1> QED BY <1>1, <1>4, <1>5, <1>6, <1>8, <1>9, ActsKeep

\* A mutation under its lease returns, or goes on.
LEMMA LeasedKeeps ==
  ASSUME AuthInv, NEW p \in Process, UnderLease(p) \/ Returns(p)
  PROVE  AuthInv'
<1>1. /\ call[p].at = "leased" /\ call[p] \in Call /\ CallFits(call[p]) /\ lock = p
      /\ UNCHANGED <<config, durable, changes, lock, told>>
  BY Begun DEF UnderLease, Returns, At, Kept, Quiet, ledger, Held, CallFits
<1>2. Filed' /\ told' \in [id : Nat, kept : BOOLEAN] /\ AnswersStand'
  BY <1>1 DEF AuthInv, Typed, Filed, AnswersStand
<1>3. call[p].own = 0 /\ call[p].status \notin InForce
  BY <1>1 DEF CallFits, OwnFits, HandleFits
<1>4. CASE call' = call
  <2>1. call' = [call EXCEPT ![p] = call[p]] /\ call[p].at \in Held
    BY <1>1, <1>4 DEF AuthInv, Typed, Held
  <2>2. PICK x : x = call[p]
    OBVIOUS
  <2>3. CallFits(x)'
    BY <1>1, <1>3, <2>2
       DEF CallFits, OwnFits, HandleFits, SwitchFits, LeaseFits, Writes, Canonical
  <2> QED BY <1>1, <1>2, <2>1, <2>2, <2>3, ActsKeep
<1>5. CASE call' = [call EXCEPT ![p].at = "release", ![p].handle = None]
  <2>1. PICK x : x = [call[p] EXCEPT !.at = "release", !.handle = None]
    OBVIOUS
  <2>2. x \in Call /\ x.at = "release" /\ x.own = 0 /\ x.status \notin InForce /\ x.at \in Held
    BY <1>1, <1>3, <2>1 DEF Call, AnyCall, Held
  <2>3. call' = [call EXCEPT ![p] = x]
    BY <1>5, <2>1
  <2>4. CallFits(x)'
    BY <2>2 DEF CallFits, OwnFits, HandleFits, SwitchFits, LeaseFits
  <2> QED BY <1>1, <1>2, <2>2, <2>3, <2>4, ActsKeep
<1> QED BY <1>4, <1>5 DEF UnderLease, Returns

\* Nobody's call: a verb in use, an edit, a change of mind.
LEMMA OutsideKeeps ==
  ASSUME AuthInv, UNCHANGED <<lock, call, told>>, Steady, Filed', AnswersStand',
         lock = None \/ UNCHANGED <<row, receipt>>
  PROVE  AuthInv'
<1>1. Typed'
  BY DEF AuthInv, Typed
<1>2. Bystanders({})
  BY LockAlone DEF Bystanders
<1> QED BY <1>1, <1>2, StepKeeps

LEMMA VerbKeeps ==
  ASSUME AuthInv, Verb \/ Decides
  PROVE  AuthInv'
<1>1. /\ UNCHANGED <<config, durable, changes, lock, call, told>>
      /\ lock = None \/ UNCHANGED <<row, receipt>>
  BY DEF Verb, Decides, Kept, ledger
<1>2. Filed' /\ AnswersStand' /\ Steady
  BY <1>1 DEF AuthInv, Typed, Filed, AnswersStand, Steady
<1> QED BY <1>1, <1>2, OutsideKeeps

LEMMA EditKeeps ==
  ASSUME AuthInv, NEW request \in Request, Edit(request.target)
  PROVE  AuthInv'
<1>1. PICK new : new = [id |-> changes + 1, data |-> request.target, hand |-> TRUE]
  OBVIOUS
<1>2. /\ changes' = changes + 1 /\ config' = new /\ durable' = durable \cup {new}
      /\ UNCHANGED <<lock, call, told, row, receipt>>
  BY <1>1 DEF Edit, ledger
<1>3. new \in Content /\ new.id = changes + 1 /\ new.hand
  BY <1>1, InvFiled DEF Content, Data
<1>4. Filed'
  BY <1>2, <1>3, InvFiled DEF AuthInv, Typed, Filed
<1>5. AnswersStand'
  <2>1. told.id \in Nat /\ config.id >= told.id
    BY DEF AuthInv, Typed, Filed, AnswersStand
  <2> QED BY <1>2, <1>3, <2>1, InvFiled DEF AuthInv, AnswersStand
<1>6. Steady
  BY <1>2, <1>3, InvFiled DEF Steady
<1> QED BY <1>2, <1>4, <1>5, <1>6, OutsideKeeps

LEMMA PowerLossKeeps ==
  ASSUME AuthInv, PowerLoss
  PROVE  AuthInv'
<1>1. PICK left \in durable : config' = left /\ durable' = {left}
  BY DEF PowerLoss
<1>2. call' = [p \in Process |-> Idle] /\ lock' = None /\ UNCHANGED <<changes, told>>
  BY DEF PowerLoss
<1>3. Filed' /\ AnswersStand'
  BY <1>1, <1>2 DEF AuthInv, Typed, Filed, AnswersStand
<1>4. Typed'
  BY <1>2, <1>3 DEF AuthInv, Typed
<1>5. \A p \in Process : Fits(p)'
  BY <1>2 DEF Fits, Idle
<1> QED BY <1>3, <1>4, <1>5 DEF AuthInv

-----------------------------------------------------------------------------
(* The induction.                                                          *)

LEMMA AuthInvInit ==
  ASSUME Init
  PROVE  AuthInv
<1>1. Filed /\ Typed
  BY DEF Init, Filed, Typed, Content, Data
<1>2. AnswersStand
  BY DEF Init, AnswersStand
<1>3. \A p \in Process : Fits(p)
  BY DEF Init, Fits, Idle
<1> QED BY <1>1, <1>2, <1>3 DEF AuthInv

LEMMA AuthInvStep ==
  ASSUME AuthInv, [Next]_vars
  PROVE  AuthInv'
<1>1. CASE UNCHANGED vars
  <2>1. UNCHANGED <<config, durable, changes, lock, call, told, row, receipt>>
    BY <1>1 DEF vars, ledger
  <2>2. Filed' /\ AnswersStand' /\ Steady
    BY <2>1 DEF AuthInv, Typed, Filed, AnswersStand, Steady
  <2> QED BY <2>1, <2>2, OutsideKeeps
<1>2. ASSUME NEW p \in Process, Publishes(p)
      PROVE  AuthInv'
  <2>1. CASE Publish(p) \/ Ask(p) \/ TakeLock(p) \/ ReadCurrent(p)
    BY <2>1, PublishKeeps, AskKeeps, TakeLockKeeps, ReadCurrentKeeps
  <2>2. CASE ConfirmCurrent(p) \/ CheckConfirmed(p) \/ AskQuiescence(p) \/ WriteTemp(p)
    BY <2>2, ConfirmCurrentKeeps, CheckConfirmedKeeps, AskQuiescenceKeeps, WriteTempKeeps
  <2>3. CASE Rename(p) \/ SyncDirectory(p) \/ Verify(p) \/ StepFails(p)
    BY <2>3, RenameKeeps, SyncDirectoryKeeps, VerifyKeeps, StepFailsKeeps
  <2>4. CASE \E fails \in BOOLEAN : Release(p, fails)
    BY <2>4, ReleaseKeeps
  <2> QED BY <1>2, <2>1, <2>2, <2>3, <2>4 DEF Publishes
<1>3. ASSUME NEW p \in Process,
             Mutate(p) \/ GrantLease(p) \/ UnderLease(p) \/ Returns(p) \/ Kill(p)
      PROVE  AuthInv'
  BY <1>3, PublishKeeps, GrantLeaseKeeps, LeasedKeeps, KillKeeps
<1>4. CASE Verb \/ Decides \/ PowerLoss \/ \E request \in Request : Edit(request.target)
  BY <1>4, VerbKeeps, PowerLossKeeps, EditKeeps
<1> QED BY <1>1, <1>2, <1>3, <1>4 DEF Next

LEMMA AuthInvAlways == Spec => []AuthInv
  BY AuthInvInit, AuthInvStep, PTL DEF Spec

-----------------------------------------------------------------------------
(* What the run checks, for every value of the constants.                  *)

\* What was answered as published survives every power loss, an answer that
\* nothing changed is true, and no publication comes between a lease and its
\* mutation (authority_publish.go, authority_lock.go).
THEOREM AuthorityHoldsAlways == Spec => []AuthorityHolds
<1>1. AuthInv => AuthorityHolds
  <2> SUFFICES ASSUME AuthInv PROVE AuthorityHolds
    OBVIOUS
  <2>1. TypeOK
    BY DEF AuthInv, Typed, Filed, TypeOK, At, Held
  <2>2. AnswersStand
    BY DEF AuthInv
  <2>3. LeaseHolds
    BY DEF AuthInv, Fits, LeaseFits, LeaseHolds, At, q
  <2> QED BY <2>1, <2>2, <2>3 DEF AuthorityHolds
<1> QED BY <1>1, AuthInvAlways, PTL

\* The declaration is replaced only between executions, and only when it is
\* what the controller expects or was edited by hand (checkAuthorityQuiescence,
\* the compare-and-swap of authority_publish.go).
THEOREM SwitchesQuietlyAlways == Spec => SwitchesQuietly
<1>1. AuthInv =>
        \A p \in Process : At(p, "rename") =>
          /\ row = 0 \/ Over(receipt, row)
          /\ config.data = q(p).expected \/ config.hand
  BY DEF AuthInv, Fits, SwitchFits, At, q
<1>2. AuthInv /\ [Next]_vars =>
        [\A p \in Process : At(p, "rename") /\ call'[p].at = "sync" =>
           /\ row = 0 \/ Over(receipt, row)
           /\ config.data = q(p).expected \/ config.hand]_vars
  BY <1>1
<1> QED BY <1>2, AuthInvAlways, PTL DEF Spec, SwitchesQuietly


-----------------------------------------------------------------------------
(* The completion gate (BoardGate).                                        *)

\* Files of the board that nobody changed but to move them onward: no walk
\* misses them.  And those that nobody touched.
InSight(f) == Gate!Live(f) /\ g_stirred[f] # "yes"
Still(f) == Gate!Live(f) /\ g_stirred[f] = "no"
AllStill == \A f \in GateFile : g_stirred[f] = "no"

\* The cards that a walk finds, and the files whose directory it has visited.
Card(f) == g_file[f].text.card /\ g_file[f].text.readable
Visited(f) == \E i \in 1..5 : i < g_now.next /\ Gate!Walk[i] = g_file[f].dir

\* The pass that reads cards has read f as it is, and where it is if it was
\* not moved.
ReadAs(x, f) ==
  /\ x.file = f /\ x.text = g_file[f].text
  /\ g_stirred[f] = "no" => x.dir = g_file[f].dir

\* What the present pass has read: behind the walk no card is missing, and
\* ReexecCheckedBindings has passed over no file; a card it found is still there
\* on a board nobody touches.
PassFits ==
  /\ Gate!Step \notin {"scan", "bindings"} =>
       \A f \in GateFile : InSight(f) /\ Card(f) /\ Visited(f) => \E x \in g_now.seen : ReadAs(x, f)
  /\ AllStill => \A x \in g_now.seen : ReadAs(x, x.file) /\ Gate!Live(x.file) /\ Card(x.file)
  /\ Gate!Step = "bindings" =>
       \A f \in GateFile : InSight(f) /\ Visited(f) =>
         /\ g_file[f].text.readable
         /\ g_now.failed \/ \A c \in g_file[f].text.checked : <<f, c>> \in g_held
  /\ g_now.examined /\ AllStill => \E f \in GateFile : Gate!Live(f)

\* What each pass establishes: validateAllWithPolicy that the cards are valid and
\* their open criteria did not hold, lint that they are in their places,
\* preflightCheck that the queue is empty or has a card that can reach done.
Validated ==
  \A f \in GateFile : InSight(f) /\ Card(f) => g_file[f].text.valid
Probed ==
  \A f \in GateFile : Still(f) /\ Card(f) /\ g_file[f].dir = "todo" =>
    \A c \in g_file[f].text.open : <<f, c>> \in g_failing \cup g_silent
Linted ==
  \A f \in GateFile : Still(f) /\ Card(f) =>
    ~Gate!Stray([dir |-> g_file[f].dir, text |-> g_file[f].text])
InQueue(f) == Gate!Live(f) /\ g_file[f].dir # "plan" /\ Card(f)
Queued ==
  AllStill => \/ \A f \in GateFile : ~InQueue(f)
              \/ \E f \in GateFile : InQueue(f) /\ g_file[f].text.bound

Judged(step) == \E i \in 1..7 : i < g_now.pass /\ Gate!Steps[i] = step

\* All passes before the present one have established theirs.  A file-role
\* board's lint comes first, and its outcome (stray) is judged when validate is.
FactsFit ==
  /\ Judged("validate") => Validated /\ Probed /\ ~g_now.stray
  /\ Judged("lint") /\ ~g_now.stray => Linted
  /\ Judged("preflight") => Queued
  /\ ~g_roles => ~g_now.stray

\* The walk finds every such file: the directory it is in was there when the
\* walk began, or is there before it does.
InReach ==
  /\ g_now.listed \subseteq g_dirs
  /\ \A f \in GateFile : InSight(f) => g_file[f].dir \in Gate!Known

\* While there is no answer, the facts of the passes so far; the answer "ready"
\* needs them all.
GateInv ==
  /\ Gate!TypeOK
  /\ Gate!ReadyIsMeasured
  /\ g_verdict = "none" => g_now.pass \in 1..Len(Gate!Steps) /\ PassFits /\ FactsFit /\ InReach

-----------------------------------------------------------------------------
\* Where each step stands in the two orders of runGateWithPolicy.
LEMMA StepOfPass ==
  ASSUME g_now.pass \in 1..Len(Gate!Steps), Gate!TypeOK
  PROVE  /\ Len(Gate!Steps) = 5 \/ Len(Gate!Steps) = 7
         /\ Gate!Step = "bindings" <=> g_now.pass = Len(Gate!Steps)
         /\ Gate!Step = "lint" => g_now.pass = 2
         /\ Gate!Step = "validate" /\ g_roles => g_now.pass = 3
         /\ Gate!Step = "bindings" =>
              \A s \in {"validate", "lint", "preflight"} : Judged(s)
         /\ g_roles /\ g_now.pass > 3 => Judged("lint")
         /\ Gate!Step \in {"scan", "lint", "validate", "hidden", "preflight", "bindings"}
<1>1. CASE g_roles
  <2>1. Gate!Steps = <<"scan", "lint", "validate", "scan", "hidden", "preflight", "bindings">>
    BY <1>1 DEF Gate!Steps
  <2>2. Len(Gate!Steps) = 7
    BY <2>1
  <2>3. g_now.pass \in {1, 2, 3, 4, 5, 6, 7}
    BY <2>2
  <2>4. Gate!Steps[2] = "lint" /\ Gate!Steps[3] = "validate" /\ Gate!Steps[6] = "preflight"
    BY <2>1
  <2>5. g_now.pass > 3 => Judged("lint")
    BY <2>3, <2>4 DEF Judged
  <2>6. g_now.pass = 7 => \A s \in {"validate", "lint", "preflight"} : Judged(s)
    BY <2>4 DEF Judged
  <2> QED BY <1>1, <2>1, <2>2, <2>3, <2>5, <2>6 DEF Gate!Step
<1>2. CASE ~g_roles
  <2>1. Gate!Steps = <<"validate", "lint", "preflight", "hidden", "bindings">>
    BY <1>2 DEF Gate!Steps
  <2>2. Len(Gate!Steps) = 5
    BY <2>1
  <2>3. g_now.pass \in {1, 2, 3, 4, 5}
    BY <2>2
  <2>4. Gate!Steps[1] = "validate" /\ Gate!Steps[2] = "lint" /\ Gate!Steps[3] = "preflight"
    BY <2>1
  <2>5. g_now.pass = 5 => \A s \in {"validate", "lint", "preflight"} : Judged(s)
    BY <2>4 DEF Judged
  <2> QED BY <1>2, <2>1, <2>2, <2>3, <2>5 DEF Gate!Step
<1> QED BY <1>1, <1>2 DEF Gate!TypeOK

\* The bindings are the last step, so any other has a next one.
LEMMA NotTheLast ==
  ASSUME Gate!TypeOK, g_now.pass \in 1..Len(Gate!Steps), Gate!Step # "bindings"
  PROVE  g_now.pass \in 1..6 /\ g_now.pass + 1 <= Len(Gate!Steps) /\ Len(Gate!Steps) \in Nat
<1>1. Len(Gate!Steps) = 5 \/ Len(Gate!Steps) = 7
  BY StepOfPass
<1>2. g_now.pass # Len(Gate!Steps)
  BY StepOfPass
<1>3. CASE Len(Gate!Steps) = 5
  BY <1>2, <1>3
<1>4. CASE Len(Gate!Steps) = 7
  BY <1>2, <1>4
<1> QED BY <1>1, <1>3, <1>4

\* After a pass, exactly the passes before it and that one have been judged.
LEMMA NextPass ==
  ASSUME Gate!TypeOK, g_now.pass \in 1..Len(Gate!Steps), Gate!Step # "bindings",
         g_roles' = g_roles, g_now'.pass = g_now.pass + 1
  PROVE  /\ (g_now.pass \in 1..Len(Gate!Steps))'
         /\ \A s : Judged(s)' <=> (Judged(s) \/ s = Gate!Step)
<1>1. Gate!Steps' = Gate!Steps
  BY DEF Gate!Steps
<1>2. g_now.pass \in 1..6 /\ g_now.pass + 1 <= Len(Gate!Steps) /\ Len(Gate!Steps) \in Nat
  BY NotTheLast
<1>3. \A s : Judged(s)' <=> (Judged(s) \/ s = Gate!Step)
  <2> SUFFICES ASSUME NEW s PROVE Judged(s)' <=> (Judged(s) \/ s = Gate!Step)
    OBVIOUS
  <2>1. \A i \in 1..7 : i < g_now'.pass <=> (i < g_now.pass \/ i = g_now.pass)
    BY <1>2
  <2>2. Judged(s)' <=> \E i \in 1..7 : i < g_now'.pass /\ Gate!Steps[i] = s
    BY <1>1 DEF Judged
  <2>3. g_now.pass \in 1..7
    BY <1>2
  <2> QED BY <2>1, <2>2, <2>3 DEF Judged, Gate!Step
<1> QED BY <1>1, <1>2, <1>3

\* When the gate starts, it has read nothing and no pass is over.
LEMMA GateBegins ==
  ASSUME GateParameters, Gate!Init PROVE GateInv
<1>1. Gate!TypeOK
  BY DEF GateParameters, Gate!Init, Gate!TypeOK, Gate!Fresh, Gate!Walk, Gate!Dirs
<1>2. /\ g_now.pass = 1 /\ g_now.next = 0 /\ g_now.listed = {} /\ g_now.seen = {}
      /\ ~g_now.stray /\ ~g_now.examined
  BY DEF Gate!Init, Gate!Fresh
<1>3. Len(Gate!Steps) \in Nat /\ Len(Gate!Steps) >= 1
  BY DEF Gate!Steps
<1>4. PassFits
  BY <1>2 DEF PassFits, Visited
<1>5. FactsFit
  BY <1>2 DEF FactsFit, Judged
<1>6. InReach
  BY <1>2 DEF InReach, InSight, Gate!Live, Gate!Known, Gate!Init
<1> QED BY <1>1, <1>2, <1>3, <1>4, <1>5, <1>6 DEF GateInv, Gate!ReadyIsMeasured, Gate!Init

\* filepath.WalkDir visits each directory once.
LEMMA TheWalk ==
  /\ Len(Gate!Walk) = 5 /\ DOMAIN Gate!Walk = 1..5
  /\ \A i, j \in 1..5 : Gate!Walk[i] = Gate!Walk[j] => i = j
  /\ \A i \in 1..5 : Gate!Walk[i] \in Gate!Dirs /\ Gate!Walk[i] # "none"
  /\ \A d \in Gate!Dirs : \E i \in 1..5 : Gate!Walk[i] = d
<1>1. Gate!Walk = <<"doing", "inbox", "plan", "storage", "todo">>
  BY DEF Gate!Walk
<1>2. Len(Gate!Walk) = 5 /\ DOMAIN Gate!Walk = 1..5
  BY <1>1
<1>3. \A i \in 1..5 : i \in {1, 2, 3, 4, 5}
  OBVIOUS
<1>4. /\ Gate!Walk[1] = "doing" /\ Gate!Walk[2] = "inbox" /\ Gate!Walk[3] = "plan"
      /\ Gate!Walk[4] = "storage" /\ Gate!Walk[5] = "todo"
  BY <1>1
<1>5. \A i, j \in 1..5 : Gate!Walk[i] = Gate!Walk[j] => i = j
  BY <1>3, <1>4
<1>6. \A i \in 1..5 : Gate!Walk[i] # "none"
  BY <1>3, <1>4
<1> QED BY <1>2, <1>5, <1>6 DEF Gate!Dirs

-----------------------------------------------------------------------------
(* What others do while the gate works.                                    *)

\* Whatever they do, a file that still counts as kept has its text and was
\* there, and has not gone back to where the walk has yet to come.
Loosens ==
  /\ \A f \in GateFile : InSight(f)' =>
       InSight(f) /\ g_file'[f].text = g_file[f].text /\ (Visited(f)' => Visited(f))
  /\ \A f \in GateFile : g_stirred'[f] = "no" => g_file'[f] = g_file[f] /\ g_stirred[f] = "no"

\* A file that is moved onward is found where the walk comes later, or was
\* behind it already.
LEMMA MoveLoosens ==
  ASSUME Gate!TypeOK, NEW f \in GateFile, NEW d \in Gate!Dirs \cup {"none"}, Gate!Move(f, d)
  PROVE  Loosens
<1>1. /\ g_file' = [g_file EXCEPT ![f].dir = d] /\ g_now' = g_now
      /\ g_file[f].dir # d
  BY DEF Gate!Move, Gate!Acts
<1>2. g_stirred'[f] # "yes" =>
        /\ g_stirred'[f] = "onward" /\ g_stirred[f] # "yes"
        /\ "storage" \notin {g_file[f].dir, d} /\ Gate!Before(g_file[f].dir, d)
  BY DEF Gate!Move, Gate!Onward, Gate!TypeOK
<1>3. /\ g_file'[f].dir = d /\ g_file'[f].text = g_file[f].text
      /\ \A e \in GateFile \ {f} : g_file'[e] = g_file[e] /\ g_stirred'[e] = g_stirred[e]
  BY <1>1 DEF Gate!Move, Gate!TypeOK
<1>4. ASSUME InSight(f)' PROVE InSight(f) /\ (Visited(f)' => Visited(f))
  <2>1. PICK i \in 1..5, j \in 1..5 : i < j /\ Gate!Walk[i] = g_file[f].dir /\ Gate!Walk[j] = d
    BY <1>2, <1>4, TheWalk DEF InSight, Gate!Before
  <2>2. InSight(f)
    BY <1>2, <1>4, <2>1, TheWalk DEF InSight, Gate!Live
  <2>3. ASSUME Visited(f)' PROVE Visited(f)
    <3>1. PICK k \in 1..5 : k < g_now.next /\ Gate!Walk[k] = d
      BY <1>1, <1>3, <2>3 DEF Visited
    <3>2. k = j
      BY <2>1, <3>1, TheWalk
    <3>3. i < g_now.next
      BY <2>1, <3>1, <3>2 DEF Gate!TypeOK
    <3> QED BY <2>1, <3>3 DEF Visited
  <2> QED BY <2>2, <2>3
<1>5. ASSUME NEW e \in GateFile \ {f}
      PROVE  (InSight(e)' <=> InSight(e)) /\ (Visited(e)' <=> Visited(e))
  BY <1>1, <1>3, <1>5 DEF InSight, Visited, Gate!Live
<1>6. g_stirred'[f] # "no"
  BY <1>2
<1> QED BY <1>3, <1>4, <1>5, <1>6 DEF Loosens

\* A file that is written counts as touched.
LEMMA WriteLoosens ==
  ASSUME Gate!TypeOK, NEW f \in GateFile, NEW text \in Text, Gate!Write(f, text)
  PROVE  Loosens
<1>1. /\ g_stirred'[f] = "yes" /\ g_now' = g_now
      /\ \A e \in GateFile \ {f} : g_file'[e] = g_file[e] /\ g_stirred'[e] = g_stirred[e]
  BY DEF Gate!Write, Gate!Acts, Gate!Found, Gate!TypeOK
<1>2. ASSUME NEW e \in GateFile \ {f}
      PROVE  (InSight(e)' <=> InSight(e)) /\ (Visited(e)' <=> Visited(e))
  BY <1>1, <1>2 DEF InSight, Visited, Gate!Live
<1> QED BY <1>1, <1>2 DEF Loosens, InSight

\* The outcome of a binding is no part of a file.
LEMMA TurnLoosens ==
  ASSUME NEW c, Gate!Turn(c) PROVE Loosens
  BY DEF Gate!Turn, Gate!Acts, Loosens, InSight, Visited, Gate!Live

\* What was moved onward is where the walk under way still finds it.
LEMMA OthersInReach ==
  ASSUME Gate!TypeOK, InReach, Gate!Others PROVE InReach'
<1>1. ASSUME NEW f \in GateFile, NEW d \in Gate!Dirs \cup {"none"}, Gate!Move(f, d)
      PROVE  InReach'
  <2>1. /\ g_file' = [g_file EXCEPT ![f].dir = d] /\ g_now' = g_now
        /\ g_dirs' = g_dirs \cup ({d} \ {"none"})
    BY <1>1 DEF Gate!Move, Gate!Acts
  <2>2. g_now'.listed \subseteq g_dirs' /\ Gate!Known \subseteq Gate!Known'
    BY <2>1 DEF InReach, Gate!Known
  <2>3. InSight(f)' => d \in Gate!Known
    BY <1>1 DEF InSight, Gate!Move, Gate!Onward, Gate!TypeOK
  <2>4. g_file'[f].dir = d
    BY <2>1 DEF Gate!TypeOK
  <2>5. ASSUME NEW e \in GateFile \ {f}, InSight(e)' PROVE g_file'[e].dir \in Gate!Known
    <3>1. g_file'[e] = g_file[e] /\ g_stirred'[e] = g_stirred[e]
      BY <1>1 DEF Gate!Move, Gate!TypeOK
    <3>2. InSight(e)
      BY <2>5, <3>1 DEF InSight, Gate!Live
    <3> QED BY <3>1, <3>2 DEF InReach
  <2> QED BY <2>2, <2>3, <2>4, <2>5 DEF InReach
<1>2. ASSUME NEW f \in GateFile, NEW text \in Text, Gate!Write(f, text)
      PROVE  InReach'
  <2>1. g_now' = g_now /\ g_dirs' = g_dirs /\ Gate!Known' = Gate!Known
    BY <1>2 DEF Gate!Write, Gate!Acts, Gate!Known
  <2>2. ~InSight(f)'
    BY <1>2 DEF InSight, Gate!Write, Gate!TypeOK
  <2>3. \A e \in GateFile \ {f} : g_file'[e] = g_file[e] /\ (InSight(e)' => InSight(e))
    BY <1>2 DEF InSight, Gate!Live, Gate!Write, Gate!TypeOK
  <2> QED BY <2>1, <2>2, <2>3 DEF InReach
<1>3. ASSUME NEW c, Gate!Turn(c) PROVE InReach'
  BY <1>3 DEF InReach, InSight, Gate!Live, Gate!Known, Gate!Turn, Gate!Acts
<1> QED BY <1>1, <1>2, <1>3 DEF Gate!Others

\* Acts of others keep the types.
LEMMA OthersTyped ==
  ASSUME GateParameters, Gate!TypeOK, Gate!Others
  PROVE  Gate!TypeOK' /\ Loosens
<1>1. Gate!Texts' = Gate!Texts /\ Gate!Dirs' = Gate!Dirs /\ Gate!Walk' = Gate!Walk
  BY DEF Gate!Texts, Gate!Dirs, Gate!Walk
<1>2. ASSUME Gate!Acts PROVE g_acts' \in 0..MaxActs
  BY <1>2 DEF Gate!Acts, Gate!TypeOK, GateParameters
<1>3. ASSUME NEW f \in GateFile, NEW d \in Gate!Dirs \cup {"none"}, Gate!Move(f, d)
      PROVE  Gate!TypeOK'
  <2>1. g_file' \in [GateFile -> [dir : Gate!Dirs \cup {"none"}, text : Text]]
    BY <1>3 DEF Gate!Move, Gate!TypeOK
  <2>2. g_stirred' \in [GateFile -> {"no", "onward", "yes"}] /\ g_dirs' \subseteq Gate!Dirs
    BY <1>3 DEF Gate!Move, Gate!TypeOK
  <2> QED BY <1>1, <1>2, <1>3, <2>1, <2>2 DEF Gate!Move, Gate!Acts, Gate!Found, Gate!TypeOK
<1>4. ASSUME NEW f \in GateFile, NEW text \in Text, Gate!Write(f, text)
      PROVE  Gate!TypeOK'
  <2>1. g_file' \in [GateFile -> [dir : Gate!Dirs \cup {"none"}, text : Text]]
    BY <1>4 DEF Gate!Write, Gate!TypeOK
  <2>2. g_stirred' \in [GateFile -> {"no", "onward", "yes"}]
    BY <1>4 DEF Gate!Write, Gate!TypeOK
  <2> QED BY <1>1, <1>2, <1>4, <2>1, <2>2 DEF Gate!Write, Gate!Acts, Gate!Found, Gate!TypeOK
<1>5. ASSUME NEW c \in Binding \ Refused, Gate!Turn(c)
      PROVE  Gate!TypeOK'
  <2>1. g_passes' \subseteq Binding \ Refused
    BY <1>5 DEF Gate!Turn, Gate!TypeOK
  <2> QED BY <1>1, <1>2, <1>5, <2>1 DEF Gate!Turn, Gate!Acts, Gate!Found, Gate!TypeOK
<1> QED BY <1>3, <1>4, <1>5, MoveLoosens, WriteLoosens, TurnLoosens DEF Gate!Others

\* What the gate has found out is about files nobody touched, so it stays true
\* whatever others do.
LEMMA OthersKeep ==
  ASSUME GateParameters, GateInv, Gate!Others
  PROVE  GateInv'
<1>1. /\ g_verdict = "none" /\ g_verdict' = g_verdict /\ g_roles' = g_roles /\ g_now' = g_now
      /\ g_held' = g_held /\ g_failing' = g_failing /\ g_silent' = g_silent
  BY DEF Gate!Others, Gate!Move, Gate!Write, Gate!Turn, Gate!Acts, Gate!Found
<1>2. Gate!TypeOK' /\ Loosens
  BY OthersTyped DEF GateInv
<1>3. Gate!Steps' = Gate!Steps /\ Gate!Step' = Gate!Step
  BY <1>1 DEF Gate!Steps, Gate!Step
<1>4. AllStill' => AllStill /\ \A f \in GateFile : g_file'[f] = g_file[f]
  BY <1>2 DEF Loosens, AllStill
<1>5. \A f \in GateFile :
        Gate!Live(f)' /\ g_stirred'[f] = "no" => Gate!Live(f) /\ g_stirred[f] = "no"
  BY <1>2 DEF Loosens, Gate!Live
<1>6. PassFits'
  <2>1. PassFits
    BY <1>1 DEF GateInv
  <2>2. ASSUME NEW f \in GateFile, InSight(f)', Card(f)', Visited(f)',
               Gate!Step \notin {"scan", "bindings"}
        PROVE  \E x \in g_now.seen : ReadAs(x, f)'
    <3>1. InSight(f) /\ Card(f) /\ Visited(f) /\ g_file'[f].text = g_file[f].text
      BY <1>2, <2>2 DEF Loosens, Card
    <3>2. PICK x \in g_now.seen : ReadAs(x, f)
      BY <2>1, <2>2, <3>1 DEF PassFits
    <3> QED BY <1>2, <3>1, <3>2 DEF ReadAs, Loosens
  <2>3. ASSUME AllStill', NEW x \in g_now.seen
        PROVE  ReadAs(x, x.file)' /\ Gate!Live(x.file)' /\ Card(x.file)'
    <3>1. ReadAs(x, x.file) /\ Gate!Live(x.file) /\ Card(x.file) /\ x.file \in GateFile
      BY <1>4, <2>1, <2>3 DEF PassFits, GateInv, Gate!TypeOK
    <3> QED BY <1>2, <1>4, <2>3, <3>1 DEF ReadAs, Gate!Live, Card, Loosens
  <2>4. ASSUME NEW f \in GateFile, InSight(f)', Visited(f)', Gate!Step = "bindings"
        PROVE  /\ g_file'[f].text.readable
               /\ g_now.failed \/ \A c \in g_file'[f].text.checked : <<f, c>> \in g_held
    BY <1>2, <2>1, <2>4 DEF PassFits, Loosens
  <2>5. g_now.examined /\ AllStill' => \E f \in GateFile : Gate!Live(f)'
    BY <1>4, <2>1 DEF PassFits, Gate!Live
  <2> QED BY <1>1, <1>3, <2>2, <2>3, <2>4, <2>5 DEF PassFits
<1>7. FactsFit'
  <2>1. FactsFit /\ \A s : Judged(s)' <=> Judged(s)
    BY <1>1, <1>3 DEF GateInv, Judged
  <2>2. Validated => Validated'
    BY <1>2 DEF Validated, Card, Loosens
  <2>3. Probed => Probed'
    BY <1>1, <1>2, <1>5 DEF Probed, Card, Still, Loosens
  <2>4. Linted => Linted'
    BY <1>2, <1>5 DEF Linted, Card, Still, Loosens, Gate!Stray, Gate!HiddenWIP
  <2>5. Queued => Queued'
    BY <1>4 DEF Queued, InQueue, Card, Gate!Live
  <2> QED BY <1>1, <2>1, <2>2, <2>3, <2>4, <2>5 DEF FactsFit
<1>8. InReach'
  BY <1>1, OthersInReach DEF GateInv
<1> QED BY <1>1, <1>2, <1>3, <1>6, <1>7, <1>8 DEF GateInv, Gate!ReadyIsMeasured

-----------------------------------------------------------------------------
(* The passes.                                                             *)

AtRest == UNCHANGED <<g_file, g_dirs, g_passes, g_roles, g_acts, g_stirred>>

Readings == SUBSET [file : GateFile, dir : Gate!Dirs, text : Text]

GateState ==
  [pass : 1..7, next : 0..6, listed : SUBSET Gate!Dirs, seen : Readings,
   stray : BOOLEAN, examined : BOOLEAN, failed : BOOLEAN]

\* The type of the gate's own state, with the numbers of passes and directories.
LEMMA StateTyped ==
  /\ Gate!TypeOK => g_now \in GateState
  /\ Gate!Fresh \in GateState
  BY TheWalk DEF Gate!TypeOK, GateState, Readings, Gate!Fresh

\* A step of the gate that leaves its own state typed keeps all types.
LEMMA PassTyped ==
  ASSUME Gate!TypeOK, AtRest, g_now' \in GateState,
         g_verdict' \in {"none", "ready", "not-ready", "unavailable"},
         g_held' \cup g_failing' \cup g_silent' \subseteq GateFile \X Binding
  PROVE  Gate!TypeOK'
<1>1. Gate!Texts' = Gate!Texts /\ Gate!Dirs' = Gate!Dirs /\ Gate!Walk' = Gate!Walk
  BY DEF Gate!Texts, Gate!Dirs, Gate!Walk
<1>2. g_now' \in [pass : 1..7, next : 0..Len(Gate!Walk) + 1, listed : SUBSET Gate!Dirs,
              seen : SUBSET [file : GateFile, dir : Gate!Dirs, text : Text],
              stray : BOOLEAN, examined : BOOLEAN, failed : BOOLEAN]
  BY TheWalk DEF GateState, Readings
<1> QED BY <1>1, <1>2 DEF Gate!TypeOK, AtRest

\* An answer other than ready.
LEMMA AnswerKeeps ==
  ASSUME GateInv, AtRest, NEW v \in {"not-ready", "unavailable"}, Gate!Answer(v),
         g_held' \cup g_failing' \cup g_silent' \subseteq GateFile \X Binding
  PROVE  GateInv'
<1>1. Gate!TypeOK'
  BY StateTyped, PassTyped DEF GateInv, Gate!Answer
<1> QED BY <1>1 DEF GateInv, Gate!Answer, Gate!ReadyIsMeasured

\* The walk of a pass has visited every file that is on the board.
LEMMA WalkedAll ==
  ASSUME Gate!TypeOK, g_now.next > Len(Gate!Walk), NEW f \in GateFile, Gate!Live(f)
  PROVE  Visited(f)
<1>1. PICK i \in 1..5 : Gate!Walk[i] = g_file[f].dir
  BY TheWalk DEF Gate!TypeOK, Gate!Live
<1>2. i < g_now.next
  BY TheWalk DEF Gate!TypeOK
<1> QED BY <1>1, <1>2 DEF Visited

\* While the gate works the directories do not change.
LEMMA ReachRests ==
  ASSUME InReach, AtRest, g_now'.listed = g_now.listed,
         g_now'.next = 0 \/ (g_now'.next # 0 /\ g_now.next # 0)
  PROVE  InReach'
<1>1. Gate!Known \subseteq Gate!Known'
  BY DEF Gate!Known, InReach, AtRest
<1>2. \A f \in GateFile : InSight(f)' => InSight(f) /\ g_file'[f] = g_file[f]
  BY DEF InSight, Gate!Live, AtRest
<1> QED BY <1>1, <1>2 DEF InReach, AtRest

\* A walk begins: it finds the directories that are there.
LEMMA ListTasksKeeps ==
  ASSUME GateInv, Gate!ListTasks PROVE GateInv'
<1>1. /\ g_verdict = "none" /\ g_verdict' = g_verdict /\ Gate!Step # "scan" /\ g_now.next = 0
      /\ AtRest /\ UNCHANGED <<g_held, g_failing, g_silent>>
      /\ g_now' = [g_now EXCEPT !.next = 1, !.listed = g_dirs]
      /\ g_held' \cup g_failing' \cup g_silent' \subseteq GateFile \X Binding
      /\ g_dirs \subseteq Gate!Dirs
  BY DEF Gate!ListTasks, AtRest, Gate!Board, Gate!Found, GateInv, Gate!TypeOK
<1>2. g_now \in GateState
  BY StateTyped DEF GateInv
<1>3. /\ g_now' \in GateState /\ g_now'.next = 1 /\ g_now'.listed = g_dirs
      /\ g_now'.pass = g_now.pass /\ g_now'.seen = g_now.seen /\ g_now'.stray = g_now.stray
      /\ g_now'.examined = g_now.examined /\ g_now'.failed = g_now.failed
  <2>1. g_dirs \in SUBSET Gate!Dirs /\ 1 \in 0..6
    BY <1>1
  <2> QED BY <1>1, <1>2, <2>1 DEF GateState
<1>4. Gate!TypeOK'
  BY <1>1, <1>3, PassTyped DEF GateInv
<1>5. Gate!Steps' = Gate!Steps /\ Gate!Step' = Gate!Step
  BY <1>1, <1>3 DEF Gate!Steps, Gate!Step, AtRest
<1>6. \A f \in GateFile : /\ (InSight(f)' <=> InSight(f)) /\ (Card(f)' <=> Card(f))
                        /\ (Still(f)' <=> Still(f)) /\ (Gate!Live(f)' <=> Gate!Live(f))
                        /\ ~Visited(f)' /\ \A x : ReadAs(x, f)' <=> ReadAs(x, f)
  BY <1>1, <1>3 DEF AtRest, InSight, Still, Card, Gate!Live, ReadAs, Visited
<1>7. AllStill' <=> AllStill
  BY <1>1 DEF AllStill, AtRest
<1>8. PassFits'
  <2>1. PassFits /\ \A x \in g_now.seen : x.file \in GateFile
    BY <1>1, <1>2 DEF GateInv, GateState, Readings
  <2> QED BY <1>3, <1>5, <1>6, <1>7, <2>1 DEF PassFits
<1>9. FactsFit'
  <2>1. FactsFit /\ \A s : Judged(s)' <=> Judged(s)
    BY <1>1, <1>3, <1>5 DEF GateInv, Judged
  <2>2. /\ Validated' <=> Validated
        /\ Probed' <=> Probed
        /\ Linted' <=> Linted
        /\ Queued' <=> Queued
    BY <1>1, <1>6 DEF AtRest, Validated, Probed, Linted, Queued, InQueue, AllStill,
                    Gate!Stray, Gate!HiddenWIP
  <2> QED BY <1>1, <1>3, <2>1, <2>2 DEF FactsFit, AtRest
<1>10. InReach'
  <2>1. Gate!Known = g_dirs /\ Gate!Known' = g_dirs
    BY <1>1, <1>3 DEF Gate!Known, AtRest
  <2> QED BY <1>1, <1>3, <1>6, <2>1 DEF GateInv, InReach, AtRest
<1> QED BY <1>1, <1>3, <1>4, <1>5, <1>8, <1>9, <1>10 DEF GateInv, Gate!ReadyIsMeasured

\* findCardsInWithPolicy: the directory visited now is read as it is now.
LEMMA FindCardsKeeps ==
  ASSUME GateInv, Gate!FindCards
  PROVE  GateInv'
<1> DEFINE d == Gate!Walk[g_now.next]
           found == {f \in Gate!In(d) : d \in g_now.listed \ {"storage"} /\ g_file[f].text.card}
           read == {f \in found : g_file[f].text.readable}
           new == {[file |-> f, dir |-> d, text |-> g_file[f].text] : f \in read}
<1>1. /\ g_verdict = "none" /\ Gate!Step \notin {"scan", "bindings"} /\ g_now.next \in 1..5
      /\ AtRest /\ g_held' = g_held /\ g_failing' = g_failing /\ g_silent' = g_silent
      /\ g_held' \cup g_failing' \cup g_silent' \subseteq GateFile \X Binding
  BY TheWalk DEF Gate!FindCards, AtRest, Gate!Board, Gate!Found, GateInv, Gate!TypeOK
<1>2. CASE Gate!Answer("unavailable")
  BY <1>1, <1>2, AnswerKeeps
<1>3. CASE g_now' = [g_now EXCEPT !.next = @ + 1, !.seen = @ \cup new] /\ g_verdict' = g_verdict
  <2>1. /\ d \in Gate!Dirs /\ d # "none"
        /\ \A f \in read : /\ f \in GateFile /\ g_file[f].dir = d /\ d # "storage" /\ Card(f)
                           /\ g_file[f].text \in Text
    BY <1>1, TheWalk DEF Gate!In, Card, GateInv, Gate!TypeOK
  <2>2. new \subseteq [file : GateFile, dir : Gate!Dirs, text : Text]
    BY <2>1
  <2>3. g_now \in GateState
    BY StateTyped DEF GateInv
  <2> HIDE DEF d, found, read, new
  <2>4. g_now' \in GateState
    <3>1. g_now.seen \cup new \in Readings /\ g_now.next + 1 \in 0..6
      BY <1>1, <2>2, <2>3 DEF GateState, Readings
    <3> QED BY <1>3, <2>3, <3>1 DEF GateState
  <2>5. /\ g_now'.next = g_now.next + 1 /\ g_now'.pass = g_now.pass
        /\ g_now'.listed = g_now.listed
        /\ g_now'.seen = g_now.seen \cup new
        /\ g_now'.stray = g_now.stray /\ g_now'.examined = g_now.examined
    BY <1>3, <2>3 DEF GateState
  <2>6. Gate!TypeOK'
    BY <1>1, <1>3, <2>4, PassTyped DEF GateInv
  <2>7. Gate!Steps' = Gate!Steps /\ Gate!Step' = Gate!Step
    BY <1>1, <2>5 DEF Gate!Steps, Gate!Step, AtRest
  <2>8. \A f \in GateFile : /\ (InSight(f)' <=> InSight(f)) /\ (Card(f)' <=> Card(f))
                        /\ (Still(f)' <=> Still(f)) /\ (Gate!Live(f)' <=> Gate!Live(f))
                        /\ \A x : ReadAs(x, f)' <=> ReadAs(x, f)
    BY <1>1 DEF AtRest, InSight, Still, Card, Gate!Live, ReadAs
  <2>9. PassFits
    BY <1>1 DEF GateInv
  <2>10. PassFits'
    <3>1. ASSUME NEW f \in GateFile, InSight(f), Card(f), Visited(f)'
          PROVE  \E x \in g_now'.seen : ReadAs(x, f)
      <4>1. PICK i \in 1..5 : i < g_now.next + 1 /\ Gate!Walk[i] = g_file[f].dir
        BY <1>1, <2>5, <3>1 DEF Visited, AtRest
      <4>2. CASE i < g_now.next
        BY <1>1, <2>5, <2>9, <3>1, <4>1, <4>2 DEF PassFits, Visited
      <4>3. CASE i = g_now.next
        <5>1. f \in read
          <6>1. InReach /\ g_now.next # 0
            BY <1>1 DEF GateInv
          <6>2. d \in g_now.listed
            BY <3>1, <4>1, <4>3, <6>1 DEF d, InReach, Gate!Known
          <6> QED BY <3>1, <4>1, <4>3, <6>2 DEF d, found, read, Gate!In, InSight, Card, Gate!Live
        <5>2. [file |-> f, dir |-> d, text |-> g_file[f].text] \in g_now'.seen
          BY <2>5, <5>1 DEF new
        <5> QED BY <2>1, <5>1, <5>2 DEF ReadAs
      <4> QED BY <1>1, <4>1, <4>2, <4>3
    <3>2. ASSUME AllStill, NEW x \in g_now'.seen
          PROVE  ReadAs(x, x.file) /\ Gate!Live(x.file) /\ Card(x.file) /\ x.file \in GateFile
      <4>1. CASE x \in g_now.seen
        BY <2>3, <2>9, <3>2, <4>1 DEF PassFits, GateState, Readings
      <4>2. CASE x \in new
        <5>1. PICK f \in read : x = [file |-> f, dir |-> d, text |-> g_file[f].text]
          BY <4>2 DEF new
        <5> QED BY <2>1, <5>1 DEF ReadAs, Gate!Live
      <4> QED BY <2>5, <3>2, <4>1, <4>2
    <3>3. AllStill' <=> AllStill
      BY <1>1 DEF AllStill, AtRest
    <3> QED BY <1>1, <2>5, <2>7, <2>8, <2>9, <3>1, <3>2, <3>3 DEF PassFits
  <2>11. FactsFit'
    <3>1. FactsFit /\ \A s : Judged(s)' <=> Judged(s)
      BY <1>1, <2>5, <2>7 DEF GateInv, Judged
    <3>2. /\ Validated' <=> Validated
          /\ Probed' <=> Probed
          /\ Linted' <=> Linted
          /\ Queued' <=> Queued
      BY <1>1, <2>8 DEF AtRest, Validated, Probed, Linted, Queued, InQueue, AllStill,
                      Gate!Stray, Gate!HiddenWIP
    <3> QED BY <1>1, <2>5, <3>1, <3>2 DEF FactsFit, AtRest
  <2>12. InReach'
    BY <1>1, <2>5, ReachRests DEF GateInv
  <2> QED
    BY <1>1, <1>3, <2>5, <2>6, <2>7, <2>10, <2>11, <2>12 DEF GateInv, Gate!ReadyIsMeasured
<1> QED BY <1>2, <1>3 DEF Gate!FindCards

\* A pass that is over: what it found out is kept, and the next begins.
LEMMA PassKeeps ==
  ASSUME GateInv, AtRest, g_verdict = "none", g_verdict' = "none",
         Gate!Step # "bindings", g_held' = g_held,
         g_failing \subseteq g_failing', g_silent \subseteq g_silent',
         g_failing' \cup g_silent' \subseteq GateFile \X Binding,
         NEW stray \in BOOLEAN,
         g_now' = [g_now EXCEPT !.pass = @ + 1, !.next = 0, !.seen = {}, !.stray = stray],
         Gate!Step # "lint" => stray = g_now.stray,
         ~g_roles => ~stray,
         Judged("validate") => ~stray,
         Gate!Step = "validate" => Validated /\ Probed' /\ ~stray,
         Gate!Step = "lint" /\ ~stray => Linted,
         Gate!Step = "preflight" => Queued
  PROVE  GateInv'
<1>1. g_now \in GateState /\ g_now.pass \in 1..6 /\ g_now.pass \in 1..Len(Gate!Steps)
  BY StateTyped, NotTheLast DEF GateInv
<1>2. g_now' \in GateState /\ g_now'.pass = g_now.pass + 1 /\ g_now'.next = 0 /\ g_now'.seen = {}
        /\ g_now'.stray = stray /\ g_now'.examined = g_now.examined /\ g_now'.listed = g_now.listed
  <2>1. {} \in Readings /\ g_now.pass + 1 \in 1..7 /\ 0 \in 0..6
    BY <1>1 DEF Readings
  <2> QED BY <1>1, <2>1 DEF GateState
<1>3. Gate!TypeOK'
  BY <1>2, PassTyped DEF GateInv, Gate!TypeOK
<1>4. /\ (g_now.pass \in 1..Len(Gate!Steps))'
      /\ \A s : Judged(s)' <=> (Judged(s) \/ s = Gate!Step)
  BY <1>1, <1>2, NextPass DEF GateInv, AtRest
<1>5. PassFits'
  <2>1. g_now.examined /\ AllStill => \E f \in GateFile : Gate!Live(f)
    BY DEF GateInv, PassFits
  <2>2. \A f \in GateFile : ~Visited(f)'
    BY <1>2 DEF Visited
  <2> QED BY <1>2, <2>1, <2>2 DEF PassFits, AllStill, Gate!Live, AtRest
<1>6. FactsFit'
  <2>1. FactsFit
    BY DEF GateInv
  <2>2. \A f \in GateFile : /\ (InSight(f)' <=> InSight(f)) /\ (Card(f)' <=> Card(f))
                        /\ (Still(f)' <=> Still(f)) /\ (Gate!Live(f)' <=> Gate!Live(f))
    BY DEF AtRest, InSight, Still, Card, Gate!Live
  <2>3. /\ Validated => Validated'
        /\ Probed => Probed'
        /\ Linted => Linted'
        /\ Queued => Queued'
    BY <2>2 DEF AtRest, Validated, Probed, Linted, Queued, InQueue, AllStill,
                Gate!Stray, Gate!HiddenWIP
  <2> QED BY <1>2, <1>4, <2>1, <2>3 DEF FactsFit, AtRest
<1>7. InReach'
  BY <1>2, ReachRests DEF GateInv
<1> QED BY <1>3, <1>4, <1>5, <1>6, <1>7 DEF GateInv, Gate!ReadyIsMeasured

\* The passes that only judge.
LEMMA GoesOn ==
  ASSUME GateInv, AtRest, g_verdict = "none", g_verdict' = g_verdict, Gate!Step # "bindings",
         Gate!Step \notin {"lint", "validate"},
         UNCHANGED <<g_held, g_failing, g_silent>>,
         g_now' = [g_now EXCEPT !.pass = @ + 1, !.next = 0, !.seen = {}],
         Gate!Step = "preflight" => Queued
  PROVE  GateInv'
<1>1. g_now \in GateState /\ g_now.stray \in BOOLEAN
  BY StateTyped DEF GateInv, GateState
<1>2. g_now' = [g_now EXCEPT !.pass = @ + 1, !.next = 0, !.seen = {}, !.stray = g_now.stray]
  BY <1>1 DEF GateState
<1>3. FactsFit /\ g_held \cup g_failing \cup g_silent \subseteq GateFile \X Binding
  BY DEF GateInv, Gate!TypeOK
<1> QED BY <1>1, <1>2, <1>3, PassKeeps DEF FactsFit

\* boardfiles.Scan.
LEMMA ScanKeeps ==
  ASSUME GateInv, Gate!Scan PROVE GateInv'
<1>1. /\ g_verdict = "none" /\ Gate!Step = "scan" /\ AtRest /\ UNCHANGED <<g_held, g_failing, g_silent>>
      /\ g_held' \cup g_failing' \cup g_silent' \subseteq GateFile \X Binding
  BY DEF Gate!Scan, Gate!Pass, AtRest, Gate!Board, Gate!Found, GateInv, Gate!TypeOK
<1>2. CASE Gate!Go
  BY <1>1, <1>2, GoesOn DEF Gate!Go
<1>3. CASE Gate!Answer("not-ready")
  BY <1>1, <1>3, AnswerKeeps
<1> QED BY <1>2, <1>3 DEF Gate!Scan, Gate!Judge

\* preflightGateRefusal.
LEMMA HiddenKeeps ==
  ASSUME GateInv, Gate!Hidden PROVE GateInv'
<1>1. /\ g_verdict = "none" /\ Gate!Step = "hidden" /\ AtRest /\ UNCHANGED <<g_held, g_failing, g_silent>>
      /\ g_held' \cup g_failing' \cup g_silent' \subseteq GateFile \X Binding
  BY DEF Gate!Hidden, Gate!Walked, Gate!Pass, AtRest, Gate!Board, Gate!Found, GateInv, Gate!TypeOK
<1>2. CASE Gate!Go
  BY <1>1, <1>2, GoesOn DEF Gate!Go
<1>3. CASE Gate!Answer("not-ready")
  BY <1>1, <1>3, AnswerKeeps
<1> QED BY <1>2, <1>3 DEF Gate!Hidden, Gate!Judge

\* What the walk of a judging pass has read.
LEMMA HasRead ==
  ASSUME GateInv, g_verdict = "none", g_now.next > Len(Gate!Walk),
         Gate!Step \notin {"scan", "bindings"}
  PROVE  /\ \A f \in GateFile : InSight(f) /\ Card(f) => \E x \in g_now.seen : ReadAs(x, f)
         /\ AllStill => \A x \in g_now.seen : /\ ReadAs(x, x.file) /\ Gate!Live(x.file)
                                         /\ Card(x.file) /\ x.file \in GateFile
         /\ \A x \in g_now.seen : x.file \in GateFile /\ x.text \in Text /\ x.dir \in Gate!Dirs
<1>1. g_now.seen \in Readings /\ PassFits /\ Gate!TypeOK
  BY StateTyped DEF GateInv, GateState
<1>2. \A x \in g_now.seen : x.file \in GateFile /\ x.text \in Text /\ x.dir \in Gate!Dirs
  BY <1>1 DEF Readings
<1> QED BY <1>1, <1>2, WalkedAll DEF PassFits, InSight

\* preflightCheck: on a board nobody touches the queue it read is the queue.
LEMMA PreflightKeeps ==
  ASSUME GateInv, Gate!Preflight PROVE GateInv'
<1>1. /\ g_verdict = "none" /\ Gate!Step = "preflight" /\ AtRest /\ UNCHANGED <<g_held, g_failing, g_silent>>
      /\ g_held' \cup g_failing' \cup g_silent' \subseteq GateFile \X Binding
      /\ g_now.next > Len(Gate!Walk)
  BY DEF Gate!Preflight, Gate!Walked, Gate!Pass, AtRest, Gate!Board, Gate!Found, GateInv, Gate!TypeOK
<1> DEFINE queue == {x \in g_now.seen : x.dir # "plan"}
<1>2. CASE Gate!Go /\ (queue = {} \/ \E x \in queue : x.text.bound)
  <2>1. ASSUME AllStill
        PROVE  \/ \A f \in GateFile : ~InQueue(f)
               \/ \E f \in GateFile : InQueue(f) /\ g_file[f].text.bound
    <3>1. \A f \in GateFile : InQueue(f) => \E x \in queue : ReadAs(x, f)
      BY <1>1, <2>1, HasRead DEF InQueue, InSight, AllStill, ReadAs
    <3>2. \A x \in queue : x.file \in GateFile /\ InQueue(x.file) /\ x.text = g_file[x.file].text
      BY <1>1, <2>1, HasRead DEF InQueue, ReadAs, AllStill
    <3> QED BY <1>2, <3>1, <3>2
  <2>2. Queued
    BY <2>1 DEF Queued
  <2> QED BY <1>1, <1>2, <2>2, GoesOn DEF Gate!Go
<1>3. CASE Gate!Answer("not-ready")
  BY <1>1, <1>3, AnswerKeeps
<1> QED BY <1>2, <1>3 DEF Gate!Preflight, Gate!Judge, Gate!Runnable

\* validateAllWithPolicy, with the probes of AdmitCriteria.
LEMMA ValidateKeeps ==
  ASSUME GateParameters, GateInv, Gate!Validate PROVE GateInv'
<1>1. PICK mute \in SUBSET Gate!Opened :
        /\ Gate!Judge(~g_now.stray /\ \A x \in g_now.seen : Gate!ValidCard(x, mute))
        /\ g_silent' = g_silent \cup mute
        /\ g_failing' = g_failing \cup {p \in Gate!Opened \ mute : p[2] \notin g_passes}
  BY DEF Gate!Validate
<1>2. /\ g_verdict = "none" /\ Gate!Step = "validate" /\ AtRest /\ g_held' = g_held
      /\ g_now.next > Len(Gate!Walk)
  BY DEF Gate!Validate, Gate!Walked, Gate!Pass, AtRest, Gate!Board
<1>3. ASSUME NEW x \in g_now.seen PROVE x.file \in GateFile /\ Gate!Open(x) \subseteq Binding
  BY <1>2, HasRead DEF GateParameters, Gate!Texts, Gate!Open
<1>4. Gate!Opened \subseteq GateFile \X Binding
  BY <1>3 DEF Gate!Opened
<1>5. /\ g_held' \cup g_failing' \cup g_silent' \subseteq GateFile \X Binding
      /\ g_failing \subseteq g_failing' /\ g_silent \subseteq g_silent'
  BY <1>1, <1>2, <1>4 DEF GateInv, Gate!TypeOK
<1>6. CASE Gate!Go /\ ~g_now.stray /\ \A x \in g_now.seen : Gate!ValidCard(x, mute)
  <2>1. Validated
    <3> SUFFICES ASSUME NEW f \in GateFile, InSight(f), Card(f) PROVE g_file[f].text.valid
      BY DEF Validated
    <3>1. PICK x \in g_now.seen : ReadAs(x, f)
      BY <1>2, HasRead
    <3> QED BY <1>6, <3>1 DEF ReadAs, Gate!ValidCard
  <2>2. Probed'
    <3> SUFFICES ASSUME NEW f \in GateFile, Still(f), Card(f), g_file[f].dir = "todo",
                        NEW c \in g_file[f].text.open
                 PROVE  <<f, c>> \in g_failing' \cup g_silent'
      BY <1>2 DEF Probed, Still, Card, Gate!Live, AtRest
    <3>1. PICK x \in g_now.seen : ReadAs(x, f)
      BY <1>2, HasRead DEF Still, InSight
    <3>2. x.file = f /\ c \in Gate!Open(x) /\ <<f, c>> \in Gate!Opened
      BY <3>1 DEF ReadAs, Still, Gate!Open, Gate!Opened
    <3>3. CASE <<f, c>> \in mute
      BY <1>1, <3>3
    <3>4. CASE <<f, c>> \notin mute
      <4>1. c \notin g_passes
        BY <1>6, <3>2, <3>4 DEF Gate!ValidCard, Gate!Vacuous
      <4>2. <<f, c>>[2] \notin g_passes
        BY <4>1
      <4> QED BY <1>1, <3>2, <3>4, <4>2
    <3> QED BY <3>3, <3>4
  <2>3. g_now.stray \in BOOLEAN
    BY StateTyped DEF GateInv, GateState
  <2>4. g_now' = [g_now EXCEPT !.pass = @ + 1, !.next = 0, !.seen = {}, !.stray = g_now.stray]
    BY <1>6, StateTyped DEF Gate!Go, GateInv, GateState
  <2> QED BY <1>2, <1>5, <1>6, <2>1, <2>2, <2>3, <2>4, PassKeeps DEF Gate!Go
<1>7. CASE Gate!Answer("not-ready")
  BY <1>2, <1>5, <1>7, AnswerKeeps
<1> QED BY <1>1, <1>6, <1>7 DEF Gate!Judge

\* lint, judged at once or, with file roles, by validate.
LEMMA LintKeeps ==
  ASSUME GateInv, Gate!Lint PROVE GateInv'
<1> DEFINE stray == \E x \in g_now.seen : Gate!Stray(x)
<1>1. /\ g_verdict = "none" /\ Gate!Step = "lint" /\ AtRest /\ UNCHANGED <<g_held, g_failing, g_silent>>
      /\ g_held' \cup g_failing' \cup g_silent' \subseteq GateFile \X Binding
      /\ g_now.next > Len(Gate!Walk)
  BY DEF Gate!Lint, Gate!Walked, Gate!Pass, AtRest, Gate!Board, Gate!Found, GateInv, Gate!TypeOK
<1>2. ASSUME ~stray PROVE Linted
  <2> SUFFICES ASSUME NEW f \in GateFile, Still(f), Card(f)
               PROVE  ~Gate!Stray([dir |-> g_file[f].dir, text |-> g_file[f].text])
    BY DEF Linted
  <2>1. PICK x \in g_now.seen : ReadAs(x, f)
    BY <1>1, HasRead DEF Still, InSight
  <2> QED BY <1>2, <2>1 DEF ReadAs, Still, Gate!Stray, Gate!HiddenWIP
<1>3. g_now \in GateState /\ FactsFit
  BY <1>1, StateTyped DEF GateInv
<1> HIDE DEF stray
<1>4. CASE /\ g_roles /\ g_verdict' = g_verdict
           /\ g_now' = [g_now EXCEPT !.pass = @ + 1, !.next = 0, !.seen = {}, !.stray = stray]
  <2>1. g_now.pass = 2 /\ g_roles /\ Gate!Steps[1] = "scan"
    BY <1>1, <1>4, StepOfPass DEF GateInv, Gate!Steps
  <2>2. ~Judged("validate")
    BY <2>1 DEF Judged
  <2>3. stray \in BOOLEAN
    BY DEF stray
  <2>4. ~stray => Linted
    BY <1>2 DEF stray
  <2> QED BY <1>1, <1>4, <2>2, <2>3, <2>4, PassKeeps
<1>5. CASE ~g_roles /\ Gate!Go /\ ~stray
  <2>1. g_now' = [g_now EXCEPT !.pass = @ + 1, !.next = 0, !.seen = {}, !.stray = g_now.stray]
    BY <1>3, <1>5 DEF Gate!Go, GateState
  <2>2. g_now.stray \in BOOLEAN /\ Linted
    BY <1>2, <1>3, <1>5 DEF GateState
  <2> QED BY <1>1, <1>3, <1>5, <2>1, <2>2, PassKeeps DEF Gate!Go, FactsFit
<1>6. CASE Gate!Answer("not-ready")
  BY <1>1, <1>6, AnswerKeeps
<1> QED BY <1>4, <1>5, <1>6 DEF Gate!Lint, Gate!Judge, stray

\* ReexecCheckedBindings: the bindings of the directory visited now have run.
LEMMA RunBindingsKeeps ==
  ASSUME GateInv, Gate!RunBindings PROVE GateInv'
<1> DEFINE d == Gate!Walk[g_now.next]
           here == {f \in Gate!In(d) : d \in g_now.listed \ {"storage"}}
           failed == \E f \in here : ~Gate!Hold(g_file[f].text.checked)
           new == UNION {{f} \X (g_file[f].text.checked \cap (g_passes \ Refused)) : f \in here}
<1>1. /\ g_verdict = "none" /\ Gate!Step = "bindings" /\ g_now.next \in 1..5
      /\ AtRest /\ g_failing' = g_failing /\ g_failing \subseteq GateFile \X Binding
      /\ g_silent' = g_silent /\ g_silent \subseteq GateFile \X Binding /\ InReach
      /\ g_held \subseteq GateFile \X Binding /\ g_passes \subseteq Binding
  BY TheWalk DEF Gate!RunBindings, Gate!Pass, AtRest, Gate!Board, Gate!Found, GateInv, Gate!TypeOK
<1>2. CASE Gate!Answer("unavailable") /\ g_held' = g_held
  BY <1>1, <1>2, AnswerKeeps
<1>3. CASE /\ \A f \in here : g_file[f].text.readable
           /\ g_now' = [g_now EXCEPT !.next = @ + 1, !.examined = @ \/ here # {},
                            !.failed = @ \/ failed]
           /\ g_held' = g_held \cup new /\ g_verdict' = g_verdict
  <2>1. /\ d \in Gate!Dirs /\ d # "none"
        /\ \A f \in here : f \in GateFile /\ g_file[f].dir = d /\ d # "storage"
    BY <1>1, TheWalk DEF Gate!In
  <2>2. new \subseteq GateFile \X Binding
    BY <1>1, <2>1
  <2>3. ASSUME NEW f \in here, ~failed
        PROVE  \A c \in g_file[f].text.checked : <<f, c>> \in g_held'
    BY <1>3, <2>3 DEF Gate!Hold
  <2>4. g_now \in GateState
    BY StateTyped DEF GateInv
  <2>5. failed \in BOOLEAN /\ (here # {}) \in BOOLEAN
    OBVIOUS
  <2>6. \A f \in GateFile : g_file[f].dir = d /\ InSight(f) => f \in here
    <3>1. \A f \in GateFile : g_file[f].dir = d /\ InSight(f) => d \in g_now.listed
      BY <1>1 DEF InReach, Gate!Known
    <3> QED BY <3>1 DEF Gate!In, InSight, Gate!Live
  <2> HIDE DEF d, here, failed, new
  <2>7. g_now' \in GateState
    <3>1. g_now.next + 1 \in 0..6 /\ (g_now.examined \/ here # {}) \in BOOLEAN
            /\ (g_now.failed \/ failed) \in BOOLEAN
      BY <1>1, <2>4, <2>5 DEF GateState
    <3> QED BY <1>3, <2>4, <3>1 DEF GateState
  <2>8. /\ g_now'.next = g_now.next + 1 /\ g_now'.seen = g_now.seen /\ g_now'.pass = g_now.pass
        /\ g_now'.stray = g_now.stray /\ g_now'.examined = (g_now.examined \/ here # {})
        /\ g_now'.failed = (g_now.failed \/ failed) /\ g_now'.listed = g_now.listed
    BY <1>3, <2>4 DEF GateState
  <2>9. Gate!TypeOK'
    BY <1>1, <1>3, <2>2, <2>7, PassTyped DEF GateInv
  <2>10. Gate!Steps' = Gate!Steps /\ Gate!Step' = Gate!Step
    BY <1>1, <2>8 DEF Gate!Steps, Gate!Step, AtRest
  <2>11. \A f \in GateFile : /\ (InSight(f)' <=> InSight(f)) /\ (Card(f)' <=> Card(f))
                         /\ (Still(f)' <=> Still(f)) /\ (Gate!Live(f)' <=> Gate!Live(f))
                         /\ \A x : ReadAs(x, f)' <=> ReadAs(x, f)
    BY <1>1 DEF AtRest, InSight, Still, Card, Gate!Live, ReadAs
  <2>12. PassFits'
    <3>1. ASSUME NEW f \in GateFile, InSight(f), Visited(f)'
          PROVE  /\ g_file[f].text.readable
                 /\ g_now'.failed \/ \A c \in g_file[f].text.checked : <<f, c>> \in g_held'
      <4>1. PICK i \in 1..5 : i < g_now.next + 1 /\ Gate!Walk[i] = g_file[f].dir
        BY <1>1, <2>8, <3>1 DEF Visited, AtRest
      <4>2. CASE i < g_now.next
        <5>1. Visited(f) /\ PassFits
          BY <1>1, <4>1, <4>2 DEF Visited, GateInv
        <5> QED BY <1>1, <1>3, <2>8, <3>1, <5>1 DEF PassFits
      <4>3. CASE i = g_now.next
        <5>1. f \in here
          BY <2>6, <3>1, <4>1, <4>3 DEF d, InSight, Gate!Live
        <5> QED BY <1>3, <2>3, <2>8, <5>1
      <4> QED BY <1>1, <4>1, <4>2, <4>3
    <3>2. ASSUME g_now'.examined, AllStill PROVE \E f \in GateFile : Gate!Live(f)
      <4>1. CASE g_now.examined
        BY <1>1, <3>2, <4>1 DEF GateInv, PassFits
      <4>2. CASE here # {}
        BY <2>1, <4>2 DEF Gate!Live
      <4> QED BY <2>8, <3>2, <4>1, <4>2
    <3>3. AllStill' <=> AllStill
      BY <1>1 DEF AllStill, AtRest
    <3>4. AllStill => \A x \in g_now.seen : /\ ReadAs(x, x.file) /\ Gate!Live(x.file)
                                        /\ Card(x.file) /\ x.file \in GateFile
      BY <1>1, <2>4 DEF GateInv, PassFits, GateState, Readings
    <3> QED BY <1>1, <2>8, <2>10, <2>11, <3>1, <3>2, <3>3, <3>4 DEF PassFits, AtRest
  <2>13. FactsFit'
    <3>1. FactsFit /\ \A s : Judged(s)' <=> Judged(s)
      BY <1>1, <2>8, <2>10 DEF GateInv, Judged
    <3>2. /\ Validated' <=> Validated
          /\ Probed' <=> Probed
          /\ Linted' <=> Linted
          /\ Queued' <=> Queued
      BY <1>1, <2>11 DEF AtRest, Validated, Probed, Linted, Queued, InQueue, AllStill,
                      Gate!Stray, Gate!HiddenWIP
    <3> QED BY <1>1, <2>8, <3>1, <3>2 DEF FactsFit, AtRest
  <2>14. InReach'
    BY <1>1, <2>8, ReachRests
  <2> QED
    BY <1>1, <1>3, <2>8, <2>9, <2>10, <2>12, <2>13, <2>14 DEF GateInv, Gate!ReadyIsMeasured
<1> QED BY <1>2, <1>3 DEF Gate!RunBindings

\* appendGateBindingStep: the answer "ready" comes after the last directory, and
\* then the facts of all passes are what ReadyIsMeasured asks.
LEMMA AppendKeeps ==
  ASSUME GateInv, Gate!AppendGateBindingStep PROVE GateInv'
<1>1. /\ g_verdict = "none" /\ Gate!Step = "bindings" /\ g_now.next > Len(Gate!Walk)
      /\ AtRest /\ g_held' = g_held /\ g_failing' = g_failing /\ g_silent' = g_silent
      /\ g_held' \cup g_failing' \cup g_silent' \subseteq GateFile \X Binding
      /\ Gate!TypeOK
  BY DEF Gate!AppendGateBindingStep, Gate!Walked, Gate!Pass, AtRest, Gate!Board, Gate!Found, GateInv,
         Gate!TypeOK
<1>2. CASE Gate!Answer("unavailable") \/ Gate!Answer("not-ready")
  BY <1>1, <1>2, AnswerKeeps
<1>3. CASE Gate!Answer("ready") /\ g_now.examined /\ ~g_now.failed
  <2>1. /\ Gate!TypeOK' /\ g_verdict' = "ready"
    BY <1>1, <1>3, StateTyped, PassTyped DEF Gate!Answer
  <2>2. Validated /\ Probed /\ Linted /\ Queued /\ PassFits
    BY <1>1, StepOfPass DEF GateInv, FactsFit
  <2>3. ASSUME NEW f \in GateFile, Gate!Live(f), g_stirred[f] # "yes"
        PROVE  /\ g_file[f].text.readable
               /\ g_file[f].text.card => g_file[f].text.valid
               /\ {f} \X g_file[f].text.checked \subseteq g_held
    <3>1. Visited(f)
      BY <1>1, <2>3, WalkedAll
    <3>2. /\ g_file[f].text.readable
          /\ \A c \in g_file[f].text.checked : <<f, c>> \in g_held
      BY <1>1, <1>3, <2>2, <2>3, <3>1 DEF PassFits, InSight
    <3> QED BY <2>2, <2>3, <3>2 DEF Validated, InSight, Card
  <2>4. ASSUME NEW f \in GateFile, Gate!Live(f), g_stirred[f] = "no", g_file[f].text.card
        PROVE  /\ ~Gate!Stray([dir |-> g_file[f].dir, text |-> g_file[f].text])
               /\ g_file[f].dir = "todo" =>
                    {f} \X g_file[f].text.open \subseteq g_failing \cup g_silent
    <3>1. Still(f) /\ Card(f)
      BY <2>3, <2>4 DEF Still, Card
    <3>2. g_file[f].dir = "todo" => \A c \in g_file[f].text.open : <<f, c>> \in g_failing \cup g_silent
      BY <2>2, <3>1 DEF Probed
    <3> QED BY <2>2, <3>1, <3>2 DEF Linted
  <2>5. ASSUME AllStill
        PROVE  LET queue == {f \in GateFile :
                               Gate!Live(f) /\ g_file[f].dir # "plan" /\ g_file[f].text.card}
               IN  /\ \E f \in GateFile : Gate!Live(f)
                   /\ queue = {} \/ \E f \in queue : g_file[f].text.bound
    <3>1. \E f \in GateFile : Gate!Live(f)
      BY <1>3, <2>2, <2>5 DEF PassFits
    <3>2. \A f \in GateFile : Gate!Live(f) => g_file[f].text.readable
      BY <2>3, <2>5 DEF AllStill
    <3> QED BY <2>2, <2>5, <3>1, <3>2 DEF Queued, InQueue, Card
  <2>6. Gate!ReadyIsMeasured'
    <3>1. UNCHANGED <<g_file, g_stirred, g_held, g_failing, g_silent>>
      BY <1>1 DEF AtRest
    <3>2. \A f \in GateFile : Gate!Live(f)' <=> Gate!Live(f)
      BY <3>1 DEF Gate!Live
    <3>3. \A x : Gate!Stray(x)' <=> Gate!Stray(x)
      BY DEF Gate!Stray, Gate!HiddenWIP
    <3> QED
      BY <2>3, <2>4, <2>5, <3>1, <3>2, <3>3 DEF Gate!ReadyIsMeasured, AllStill
  <2> QED BY <2>1, <2>6 DEF GateInv
<1> QED BY <1>2, <1>3 DEF Gate!AppendGateBindingStep

\* No step of the gate or of others breaks the invariant.
LEMMA GateSteps ==
  ASSUME GateParameters, GateInv, [Gate!Next]_(Gate!vars) PROVE GateInv'
<1>1. CASE Gate!Gate
  BY <1>1, ListTasksKeeps, FindCardsKeeps, ScanKeeps, ValidateKeeps, LintKeeps, PreflightKeeps, HiddenKeeps,
     RunBindingsKeeps, AppendKeeps DEF Gate!Gate
<1>2. CASE UNCHANGED Gate!vars
  BY <1>2 DEF Gate!vars, GateInv, PassFits, FactsFit, InReach, Gate!Known, InSight, Still, AllStill, Card, Visited,
     ReadAs, Validated, Probed, Linted, InQueue, Queued, Judged, Gate!TypeOK,
     Gate!ReadyIsMeasured, Gate!Steps, Gate!Step, Gate!Live, Gate!Stray, Gate!HiddenWIP
<1> QED BY <1>1, <1>2, OthersKeep DEF Gate!Next

LEMMA GateInvAlways ==
  ASSUME GateParameters PROVE Gate!Spec => []GateInv
<1>1. Gate!Init => GateInv
  BY GateBegins
<1>2. GateInv /\ [Gate!Next]_(Gate!vars) => GateInv'
  BY GateSteps
<1> QED BY <1>1, <1>2, PTL DEF Gate!Spec

\* A ready board was measured: whatever others do to the board and the worktree
\* while runGateWithPolicy and ReexecCheckedBindings work through it, without a
\* lock and with a walk of its own for each pass, the answer "ready" is true of
\* every file nobody touched, and, as far as its text goes, of every file only
\* moved onward into a directory that the walk under way knows.
THEOREM ReadyIsMeasuredAlways == Gate!Spec => []Gate!GateHolds
<1> USE GateAssumption
<1>1. GateInv => Gate!GateHolds
  BY DEF GateInv, Gate!GateHolds
<1> QED BY <1>1, GateInvAlways, PTL

\* It is so in LooseProtocols too, where the other protocols rest (runGateWithPolicy).
THEOREM GateHoldsAlways == Behaviour => []GateHolds
<1> USE GateAssumption
<1>1. GateInv => GateHolds
  BY DEF GateInv, GateHolds, Gate!GateHolds
<1>2. Begins => GateInv
  BY GateBegins DEF Begins
<1>3. GateInv /\ [Continues]_all => GateInv'
  <2>1. gate' = gate => Gate!vars' = Gate!vars
    BY DEF gate, Gate!vars
  <2>2. [Continues]_all => [Gate!Next]_(Gate!vars)
    BY <2>1 DEF Continues, all
  <2> QED BY <2>2, GateSteps
<1> QED BY <1>1, <1>2, <1>3, PTL DEF Behaviour

-----------------------------------------------------------------------------
(* The receipt of a gate (GateEvidence).                                   *)

\* The command's steps, and those from a step on.
Stages == <<"idle", "selected", "open", "started", "finished", "scanned", "head", "tree",
            "subject", "branch", "change", "bound">>
From(i) == {Stages[j] : j \in i..12}

Reading(base) ==
  [at : From(1), log : Log, switched : BOOLEAN, finished : 0..MaxTime,
   start : Evidence!Edges \cup {Evidence!NoLine},
   finish : Evidence!Edges \cup {Evidence!NoLine}, pass : BOOLEAN,
   head : 0..MaxCommits, subject : 0..MaxCommits, base : {base}, dated : 0..MaxTime]

\* Commits are numbered as they are made and no younger than now.
Numbered ==
  /\ \E n \in 1..MaxCommits : DOMAIN e_commits = 1..n
  /\ \A c \in DOMAIN e_commits : e_commits[c].dated <= e_clock

\* A complete, clean, passing run between two lines like this one ended at t or later.
Passed(edge, t) ==
  \E run \in e_runs : run.head = edge.head /\ run.id = edge.id /\ run.ended \in t..MaxTime

LogFits(l) ==
  LET x == e_log[l]
  IN  /\ x.start.run <= e_ci.run /\ x.at <= e_clock
      /\ x.finish # Evidence!NoLine => x.finish.run = x.start.run
      /\ x.result # Evidence!NoLine =>
           /\ x.result.run = x.start.run /\ x.finish # Evidence!NoLine
           /\ x.result.pass /\ x.start = x.finish /\ x.start.clean => Passed(x.start, x.at)

LogsFit ==
  /\ \A l \in Log : LogFits(l)
  /\ \A l, m \in Log :
       e_log[l].start # Evidence!NoLine /\ e_log[l].start.run = e_log[m].start.run => l = m
  /\ e_ci.at # "idle" =>
       LET x == e_log[e_ci.log]
       IN  /\ x.start # Evidence!NoLine /\ x.start.run = e_ci.run
           /\ x.result = Evidence!NoLine
           /\ (x.finish = Evidence!NoLine) = (e_ci.at = "testing")

Young(c) == e_commits[c].dated >= e_r.finished

ScanFits ==
  /\ e_r.at \in From(3) => e_r.finished <= e_clock
  /\ e_r.at \in {"open", "started", "finished"} => e_r.finished <= e_log[e_r.log].at
  /\ e_r.at \in From(4) =>
       /\ e_r.start # Evidence!NoLine /\ e_r.start.run <= e_ci.run
       /\ \A l \in Log : e_log[l].start.run = e_r.start.run => e_log[l].start = e_r.start
  /\ e_r.at = "finished" =>
       /\ e_r.finish # Evidence!NoLine /\ e_r.finish.run <= e_ci.run
       /\ \A l \in Log : e_log[l].start.run = e_r.finish.run => e_log[l].finish = e_r.finish
  /\ e_r.at \in From(6) /\ e_r.pass /\ e_r.start.clean => Passed(e_r.start, e_r.finished)

BindFits ==
  /\ e_r.at \in From(7) /\ ~e_r.switched => e_git.head = e_r.head \/ Young(e_git.head)
  /\ e_r.at \in From(8) => e_r.head = e_r.start.head
  /\ e_r.at \in From(9) =>
       /\ e_r.subject \in DOMAIN e_commits
       /\ ~e_r.switched => /\ e_r.subject = e_r.head \/ Young(e_r.subject)
                           /\ e_git.head = e_r.subject \/ Young(e_git.head)
  /\ e_r.at \in From(11) => e_r.pass /\ e_r.start.id \in Change
  /\ e_r.at = "bound" =>
       /\ e_r.start.clean
       /\ ~e_r.switched => /\ e_r.subject = e_r.start.head /\ e_r.dated < e_r.finished
                           /\ e_r.dated = e_commits[e_r.subject].dated

StoreFits ==
  \A block \in e_store \ e_mixed : block.subject \in DOMAIN e_commits /\ Evidence!Tested(block)

EvidenceInv ==
  /\ Evidence!TypeOK /\ e_r \in Reading(e_r.base)
  /\ Numbered /\ LogsFit /\ ScanFits /\ BindFits /\ StoreFits

LEMMA OnlyOne ==
  ASSUME NEW S, NEW n \in Nat, S \subseteq 1..n, Evidence!Cardinality(S) = 1
  PROVE  Evidence!Max(S) \in S
<1>0. IsFiniteSet(1..n)
  BY FS_Interval
<1>1. IsFiniteSet(S)
  BY <1>0, FS_Subset
<1>2. Cardinality(S) = 1
  BY DEF Evidence!Cardinality, Cardinality
<1>3. PICK x : S = {x}
  BY <1>1, <1>2, FS_Singleton
<1>4. x \in Nat
  BY <1>3
<1> QED BY <1>3, <1>4 DEF Evidence!Max

LEMMA HowMany ==
  ASSUME NEW n \in 1..MaxCommits, EvidenceParameters, DOMAIN e_commits = 1..n
  PROVE  Evidence!Cardinality(DOMAIN e_commits) = n
<1>1. n \in Nat /\ Cardinality(1..n) = n
  BY FS_Interval DEF EvidenceParameters
<1> QED BY <1>1 DEF Evidence!Cardinality, Cardinality

\* Of a commit range at most one Change-Id is known.
LEMMA ChangeKnown ==
  ASSUME Evidence!TypeOK, NEW n \in Nat, DOMAIN e_commits = 1..n
  PROVE  /\ \A b : Evidence!IdSince(b) \in Change \cup {"none"}
         /\ Evidence!BranchChangeID \in Change \cup {"none"}
<1>1. ASSUME NEW b PROVE Evidence!IdSince(b) \in Change \cup {"none"}
  <2> DEFINE declaring == {c \in Evidence!RangeMessages(b) : Evidence!Declared(c)}
  <2>1. Evidence!Line(e_git.head) \subseteq 1..n
    BY DEF Evidence!TypeOK, Evidence!Line
  <2>2. declaring \subseteq 1..n /\ \A c \in declaring : e_commits[c].id \in Change
    BY <2>1 DEF Evidence!RangeMessages, Evidence!Declared
  <2>3. CASE Evidence!Cardinality(declaring) = 1
    <3>1. Evidence!Max(declaring) \in declaring
      BY <2>2, <2>3, OnlyOne
    <3> QED BY <2>2, <2>3, <3>1 DEF Evidence!IdSince
  <2>4. CASE Evidence!Cardinality(declaring) # 1
    BY <2>4 DEF Evidence!IdSince
  <2> QED BY <2>3, <2>4
<1> QED BY <1>1 DEF Evidence!BranchChangeID


-----------------------------------------------------------------------------
LEMMA EvidenceBegins ==
  ASSUME EvidenceParameters, Evidence!Init PROVE EvidenceInv
<1>1. PICK t \in CommitTree, id \in Change :
        e_commits = [c \in {1, 2} |-> [line |-> 1..c, tree |-> t, dated |-> 0,
                                       id |-> IF c = 1 THEN "none" ELSE id]]
  BY DEF Evidence!Init
<1>2. DOMAIN e_commits = {1, 2} /\ {1, 2} = 1..2
  BY <1>1
<1>3. \A c \in {1, 2} : 1..c \subseteq {1, 2}
  OBVIOUS
<1>4. \A c \in DOMAIN e_commits :
        /\ e_commits[c] \in [line : SUBSET DOMAIN e_commits, tree : CommitTree,
                            id : Change \cup {"none"}, dated : 0..MaxTime]
        /\ e_commits[c].dated = 0
  BY <1>1, <1>2, <1>3 DEF EvidenceParameters
<1>5. Numbered
  BY <1>2, <1>4 DEF Numbered, EvidenceParameters, Evidence!Init
<1>6. PICK l \in Log : e_ci = [at |-> "idle", log |-> l, run |-> 0]
  BY DEF Evidence!Init
<1>7. (CHOOSE m \in Log : TRUE) \in Log
  OBVIOUS
<1>8. e_r \in Reading(e_r.base) /\ e_r.at = "idle" /\ e_r.switched = FALSE
  BY <1>7 DEF Reading, Evidence!Init, Evidence!Idle, EvidenceParameters, From, Stages
<1>9. \A m \in Log : e_log[m] = [start |-> Evidence!NoLine, finish |-> Evidence!NoLine,
                                 result |-> Evidence!NoLine, at |-> 0]
  BY DEF Evidence!Init
<1>10. LogsFit
  BY <1>6, <1>9 DEF LogsFit, LogFits, Evidence!Init, Evidence!NoLine
<1>11. ScanFits /\ BindFits /\ StoreFits
  BY <1>8 DEF ScanFits, BindFits, StoreFits, From, Stages, Evidence!Init
<1>12. Evidence!TypeOK
  <2>1. e_git \in [head : DOMAIN e_commits, origin : DOMAIN e_commits \cup {0},
                   local : DOMAIN e_commits \cup {0}, clean : BOOLEAN]
    BY <1>2 DEF Evidence!Init
  <2>2. DOMAIN e_commits \subseteq 1..MaxCommits
    BY <1>2 DEF EvidenceParameters
  <2>3. e_log \in [Log -> [start : Evidence!Edges \cup {Evidence!NoLine},
                          finish : Evidence!Edges \cup {Evidence!NoLine},
                          result : Evidence!Results \cup {Evidence!NoLine}, at : 0..MaxTime]]
    BY DEF Evidence!Init, EvidenceParameters
  <2>4. e_ci \in [at : {"idle", "testing", "ending"}, log : Log, run : 0..MaxRuns]
    BY <1>6 DEF EvidenceParameters
  <2> QED BY <1>4, <2>1, <2>2, <2>3, <2>4
          DEF Evidence!TypeOK, Evidence!Hash, Evidence!Init, EvidenceParameters
<1> QED BY <1>5, <1>8, <1>10, <1>11, <1>12 DEF EvidenceInv

-----------------------------------------------------------------------------
\* What the proof reads of the types.
LEMMA EvidenceTyped ==
  ASSUME EvidenceParameters, EvidenceInv
  PROVE  /\ \A l \in Log :
              /\ e_log[l] \in [start : Evidence!Edges \cup {Evidence!NoLine},
                              finish : Evidence!Edges \cup {Evidence!NoLine},
                              result : Evidence!Results \cup {Evidence!NoLine},
                              at : 0..MaxTime]
              /\ e_log[l].start.run \in Nat /\ e_log[l].finish.run \in Nat
              /\ (e_log[l].start = Evidence!NoLine) = (e_log[l].start.run = 0)
              /\ (e_log[l].finish = Evidence!NoLine) = (e_log[l].finish.run = 0)
         /\ e_ci \in [at : {"idle", "testing", "ending"}, log : Log, run : 0..MaxRuns]
         /\ e_ci.run \in Nat /\ e_clock \in Nat /\ e_r.finished \in Nat
         /\ e_r.start.run \in Nat /\ e_r.finish.run \in Nat
         /\ (e_r.start = Evidence!NoLine) = (e_r.start.run = 0)
         /\ (e_r.finish = Evidence!NoLine) = (e_r.finish.run = 0)
         /\ e_git.head \in DOMAIN e_commits
         /\ \A c \in DOMAIN e_commits : e_commits[c].dated \in Nat
<1>1. \A x \in Evidence!Edges \cup {Evidence!NoLine} :
        x.run \in Nat /\ (x = Evidence!NoLine) = (x.run = 0)
  BY DEF Evidence!Edges, Evidence!NoLine, EvidenceParameters
<1>2. \A l \in Log : e_log[l] \in [start : Evidence!Edges \cup {Evidence!NoLine},
                              finish : Evidence!Edges \cup {Evidence!NoLine},
                              result : Evidence!Results \cup {Evidence!NoLine},
                              at : 0..MaxTime]
  BY DEF EvidenceInv, Evidence!TypeOK
<1>3. \A l \in Log : /\ e_log[l].start \in Evidence!Edges \cup {Evidence!NoLine}
                     /\ e_log[l].finish \in Evidence!Edges \cup {Evidence!NoLine}
  BY <1>2
<1>4. /\ e_ci \in [at : {"idle", "testing", "ending"}, log : Log, run : 0..MaxRuns]
      /\ e_ci.run \in Nat /\ e_clock \in Nat /\ e_git.head \in DOMAIN e_commits
  BY DEF EvidenceInv, Evidence!TypeOK, EvidenceParameters
<1>5. \A c \in DOMAIN e_commits : e_commits[c].dated \in Nat
  BY DEF EvidenceInv, Evidence!TypeOK, EvidenceParameters
<1>6. /\ e_r.finished \in Nat /\ e_r.start \in Evidence!Edges \cup {Evidence!NoLine}
      /\ e_r.finish \in Evidence!Edges \cup {Evidence!NoLine}
  BY DEF EvidenceInv, Reading, EvidenceParameters
<1> QED BY <1>1, <1>2, <1>3, <1>4, <1>5, <1>6

LEMMA PeopleKeep ==
  ASSUME EvidenceParameters, EvidenceInv, Evidence!TypeOK', Numbered',
         UNCHANGED <<e_log, e_ci, e_calls, e_store, e_runs, e_mixed>>, e_clock <= e_clock',
         \/ e_r' = e_r
         \/ e_r.at # "idle" /\ e_r' = [e_r EXCEPT !.switched = TRUE],
         \A c \in DOMAIN e_commits : c \in DOMAIN e_commits' /\ e_commits'[c] = e_commits[c],
         ~e_r'.switched =>
           e_git'.head = e_git.head \/ e_commits'[e_git'.head].dated >= e_clock
  PROVE  EvidenceInv'
<1>1. /\ e_r \in Reading(e_r.base) /\ e_r' \in Reading(e_r'.base)
      /\ \A f \in {"at", "log", "finished", "start", "finish", "pass", "head", "subject",
                    "base", "dated"} : e_r'[f] = e_r[f]
      /\ e_r'.switched \in BOOLEAN /\ (e_r.switched => e_r'.switched)
  BY DEF EvidenceInv, Reading
<1>2. /\ e_r'.at = e_r.at /\ e_r'.log = e_r.log /\ e_r'.finished = e_r.finished
      /\ e_r'.start = e_r.start /\ e_r'.finish = e_r.finish /\ e_r'.pass = e_r.pass
      /\ e_r'.head = e_r.head /\ e_r'.subject = e_r.subject /\ e_r'.dated = e_r.dated
  BY <1>1
<1>3. e_clock \in Nat /\ e_clock' \in Nat
  BY DEF EvidenceInv, Evidence!TypeOK, EvidenceParameters
<1>4. LogsFit'
  <2>1. \A l \in Log : e_log[l].at \in Nat
    BY EvidenceTyped DEF EvidenceParameters
  <2> QED BY <1>3, <2>1 DEF EvidenceInv, LogsFit, LogFits, Passed
<1>5. ScanFits'
  BY <1>2, <1>3, EvidenceTyped DEF EvidenceInv, ScanFits, Passed, From
<1>6. BindFits'
  <2>1. e_r.at \in From(7) => e_r.finished <= e_clock
    BY DEF EvidenceInv, ScanFits, From, Stages
  <2>2. \A c \in DOMAIN e_commits : Young(c) => Young(c)'
    BY <1>2 DEF Young
  <2>3. \A c \in DOMAIN e_commits' : e_commits'[c].dated \in Nat
    BY DEF Evidence!TypeOK, EvidenceParameters
  <2>4. e_git'.head \in DOMAIN e_commits' /\ e_git.head \in DOMAIN e_commits
    BY DEF EvidenceInv, Evidence!TypeOK
  <2>5. e_r.at \in From(7) /\ ~e_r'.switched => e_git'.head = e_git.head \/ Young(e_git.head)'
    <3>1. e_r.finished \in Nat
      BY EvidenceTyped
    <3> QED BY <1>2, <1>3, <2>1, <2>3, <2>4, <3>1 DEF Young
  <2>6. BindFits
    BY DEF EvidenceInv
  <2>7. e_r.at \in From(9) => e_r.at \in From(7)
    BY DEF From, Stages
  <2>8. /\ e_r'.at \in From(7) /\ ~e_r'.switched => e_git'.head = e_r'.head \/ Young(e_git.head)'
        /\ e_r'.at \in From(8) => e_r'.head = e_r'.start.head
    BY <1>1, <1>2, <2>2, <2>4, <2>5, <2>6 DEF BindFits
  <2>9. e_r'.at \in From(9) =>
          /\ e_r'.subject \in DOMAIN e_commits'
          /\ ~e_r'.switched => /\ e_r'.subject = e_r'.head \/ Young(e_r.subject)'
                               /\ e_git'.head = e_r'.subject \/ Young(e_git.head)'
    BY <1>1, <1>2, <2>2, <2>4, <2>5, <2>6, <2>7 DEF BindFits
  <2>10. e_r.at = "bound" => e_r.at \in From(9)
    BY DEF From, Stages
  <2>11. e_r'.at = "bound" =>
           /\ e_r'.start.clean
           /\ ~e_r'.switched => /\ e_r'.subject = e_r'.start.head /\ e_r'.dated < e_r'.finished
                                /\ e_r'.dated = e_commits'[e_r'.subject].dated
    BY <1>1, <1>2, <2>6, <2>10 DEF BindFits
  <2> QED BY <1>2, <2>6, <2>8, <2>9, <2>11 DEF BindFits, From
<1>7. StoreFits'
  BY DEF EvidenceInv, StoreFits, Evidence!Tested
<1> QED BY <1>1, <1>4, <1>5, <1>6, <1>7 DEF EvidenceInv


LEMMA CommitKeeps ==
  ASSUME EvidenceParameters, EvidenceInv, NEW t \in CommitTree, NEW id \in Change \cup {"none"},
         NEW amend \in BOOLEAN, Evidence!Commit(t, id, amend)
  PROVE  EvidenceInv'
<1>1. PICK n \in 1..MaxCommits : DOMAIN e_commits = 1..n
  BY DEF EvidenceInv, Numbered
<1>2. n \in Nat /\ Evidence!Cardinality(DOMAIN e_commits) = n /\ n < MaxCommits
  BY <1>1, HowMany DEF Evidence!Commit, EvidenceParameters
<1>3. PICK c, made, below :
        /\ c = n + 1 /\ made = [line |-> below \cup {c}, tree |-> t, id |-> id, dated |-> e_clock]
        /\ below \subseteq Evidence!Line(e_git.head)
        /\ e_commits' = [d \in DOMAIN e_commits \cup {c} |-> IF d = c THEN made ELSE e_commits[d]]
        /\ e_git' = [e_git EXCEPT !.head = c, !.clean = TRUE]
  BY <1>2 DEF Evidence!Commit
<1>4. DOMAIN e_commits' = 1..(n + 1) /\ n + 1 \in 1..MaxCommits /\ c \notin DOMAIN e_commits
  BY <1>1, <1>2, <1>3 DEF EvidenceParameters
<1>5. /\ \A d \in DOMAIN e_commits : d \in DOMAIN e_commits' /\ e_commits'[d] = e_commits[d]
      /\ e_commits'[c] = made
  BY <1>3, <1>4
<1>6. /\ UNCHANGED <<e_clock, e_log, e_ci, e_calls, e_store, e_runs, e_mixed, e_r>>
      /\ e_moves' = e_moves + 1 /\ e_moves < MaxMoves
  BY DEF Evidence!Commit, Evidence!Moved, Evidence!Rest
<1>7. Evidence!TypeOK
  BY DEF EvidenceInv
<1>8. below \subseteq DOMAIN e_commits
  BY <1>3, <1>7 DEF Evidence!TypeOK, Evidence!Line
<1>9. \A d \in DOMAIN e_commits' :
        /\ e_commits'[d] \in [line : SUBSET DOMAIN e_commits', tree : CommitTree,
                             id : Change \cup {"none"}, dated : 0..MaxTime]
        /\ e_commits'[d].dated <= e_clock
  <2>1. \A d \in DOMAIN e_commits :
          /\ e_commits'[d] \in [line : SUBSET DOMAIN e_commits', tree : CommitTree,
                               id : Change \cup {"none"}, dated : 0..MaxTime]
          /\ e_commits'[d].dated <= e_clock
    <3> SUFFICES ASSUME NEW d \in DOMAIN e_commits
                 PROVE  /\ e_commits[d] \in [line : SUBSET DOMAIN e_commits', tree : CommitTree,
                                             id : Change \cup {"none"}, dated : 0..MaxTime]
                        /\ e_commits[d].dated <= e_clock
      BY <1>5
    <3>1. /\ e_commits[d] \in [line : SUBSET DOMAIN e_commits, tree : CommitTree,
                               id : Change \cup {"none"}, dated : 0..MaxTime]
          /\ e_commits[d].dated <= e_clock
      BY <1>7 DEF Evidence!TypeOK, EvidenceInv, Numbered
    <3>2. DOMAIN e_commits \subseteq DOMAIN e_commits'
      BY <1>5
    <3> QED BY <3>1, <3>2
  <2>2. /\ made \in [line : SUBSET DOMAIN e_commits', tree : CommitTree,
                     id : Change \cup {"none"}, dated : 0..MaxTime]
        /\ made.dated <= e_clock
    <3>1. e_clock \in 0..MaxTime
      BY <1>7 DEF Evidence!TypeOK
    <3>2. below \cup {c} \in SUBSET DOMAIN e_commits'
      BY <1>3, <1>8, <1>5
    <3> QED BY <1>3, <3>1, <3>2 DEF EvidenceParameters
  <2> QED BY <1>3, <1>5, <2>1, <2>2
<1>10. Numbered'
  BY <1>4, <1>6, <1>9 DEF Numbered
<1>11. e_git' \in [head : DOMAIN e_commits', origin : DOMAIN e_commits' \cup {0},
                  local : DOMAIN e_commits' \cup {0}, clean : BOOLEAN]
  <2>1. c \in DOMAIN e_commits' /\ DOMAIN e_commits \subseteq DOMAIN e_commits'
    BY <1>3, <1>5
  <2>2. e_git \in [head : DOMAIN e_commits, origin : DOMAIN e_commits \cup {0},
                  local : DOMAIN e_commits \cup {0}, clean : BOOLEAN]
    BY <1>7 DEF Evidence!TypeOK
  <2> QED BY <1>3, <2>1, <2>2
<1>12. Evidence!TypeOK'
  <2>1. DOMAIN e_commits' \subseteq 1..MaxCommits
    BY <1>4 DEF EvidenceParameters
  <2>2. e_moves' \in 0..MaxMoves
    BY <1>6, <1>7 DEF Evidence!TypeOK, EvidenceParameters
  <2> QED BY <1>6, <1>7, <1>9, <1>11, <2>1, <2>2 DEF Evidence!TypeOK, Evidence!Hash
<1>13. e_git'.head = c /\ e_commits'[c].dated = e_clock
  BY <1>3, <1>5, <1>7 DEF Evidence!TypeOK
<1>14. e_clock \in Nat
  BY EvidenceTyped
<1> QED BY <1>5, <1>6, <1>10, <1>12, <1>13, <1>14, PeopleKeep

LEMMA PeopleStep ==
  ASSUME EvidenceParameters, EvidenceInv, Evidence!People PROVE EvidenceInv'
<1>1. Evidence!TypeOK /\ e_clock \in Nat
  BY EvidenceTyped DEF EvidenceInv
<1>2. ASSUME NEW c \in DOMAIN e_commits, Evidence!Switch(c) PROVE EvidenceInv'
  <2>1. /\ UNCHANGED <<e_commits, e_clock, e_log, e_ci, e_calls, e_store, e_runs, e_mixed>>
        /\ e_moves' = e_moves + 1 /\ e_moves < MaxMoves
        /\ e_git' = [e_git EXCEPT !.head = c, !.clean = TRUE]
        /\ e_r' = IF e_r.at = "idle" THEN e_r ELSE [e_r EXCEPT !.switched = TRUE]
    BY <1>2 DEF Evidence!Switch, Evidence!Moved, Evidence!Rest
  <2>6. e_git' \in [head : DOMAIN e_commits, origin : DOMAIN e_commits \cup {0},
                   local : DOMAIN e_commits \cup {0}, clean : BOOLEAN]
    BY <1>1, <2>1 DEF Evidence!TypeOK
  <2>2. Evidence!TypeOK'
    BY <1>1, <2>1, <2>6 DEF Evidence!TypeOK, EvidenceParameters
  <2>3. Numbered'
    BY <2>1 DEF EvidenceInv, Numbered
  <2>4. CASE e_r.at # "idle"
    <3>1. e_r'.switched
      BY <2>1, <2>4 DEF EvidenceInv, Reading
    <3>2. /\ e_r.at # "idle" /\ e_r' = [e_r EXCEPT !.switched = TRUE]
          /\ \A d \in DOMAIN e_commits : d \in DOMAIN e_commits' /\ e_commits'[d] = e_commits[d]
          /\ e_clock <= e_clock'
          /\ UNCHANGED <<e_log, e_ci, e_calls, e_store, e_runs, e_mixed>>
      BY <1>1, <2>1, <2>4
    <3> QED BY <2>2, <2>3, <3>1, <3>2, PeopleKeep
  <2>5. CASE e_r.at = "idle"
    <3>1. e_r' = e_r
      BY <2>1, <2>5
    <3>2. LogsFit' /\ ScanFits' /\ BindFits' /\ StoreFits'
      BY <2>1, <2>5, <3>1 DEF EvidenceInv, LogsFit, LogFits, Passed, ScanFits, BindFits, StoreFits,
         Evidence!Tested, From, Stages
    <3> QED BY <2>2, <2>3, <3>1, <3>2 DEF EvidenceInv
  <2> QED BY <2>4, <2>5
<1>3. ASSUME NEW ref \in {"origin", "local"}, Evidence!Integrate(ref) PROVE EvidenceInv'
  <2>1. /\ UNCHANGED <<e_commits, e_clock, e_log, e_ci, e_calls, e_store, e_runs, e_mixed, e_r>>
        /\ e_moves' = e_moves + 1 /\ e_moves < MaxMoves
        /\ e_git' = [e_git EXCEPT ![ref] = e_git.head]
    BY <1>3 DEF Evidence!Integrate, Evidence!Moved, Evidence!Rest
  <2>2. /\ e_git' \in [head : DOMAIN e_commits, origin : DOMAIN e_commits \cup {0},
                       local : DOMAIN e_commits \cup {0}, clean : BOOLEAN]
        /\ e_git'.head = e_git.head
    BY <1>1, <2>1 DEF Evidence!TypeOK
  <2>3. Evidence!TypeOK'
    BY <1>1, <2>1, <2>2 DEF Evidence!TypeOK, EvidenceParameters
  <2>4. Numbered'
    BY <2>1 DEF EvidenceInv, Numbered
  <2> QED BY <1>1, <2>1, <2>2, <2>3, <2>4, PeopleKeep
<1>4. ASSUME Evidence!Edit PROVE EvidenceInv'
  <2>1. /\ UNCHANGED <<e_commits, e_clock, e_log, e_ci, e_calls, e_store, e_runs, e_mixed, e_r>>
        /\ e_moves' = e_moves + 1 /\ e_moves < MaxMoves
        /\ e_git' = [e_git EXCEPT !.clean = FALSE]
    BY <1>4 DEF Evidence!Edit, Evidence!Moved, Evidence!Rest
  <2>2. /\ e_git' \in [head : DOMAIN e_commits, origin : DOMAIN e_commits \cup {0},
                       local : DOMAIN e_commits \cup {0}, clean : BOOLEAN]
        /\ e_git'.head = e_git.head
    BY <1>1, <2>1 DEF Evidence!TypeOK
  <2>3. Evidence!TypeOK'
    BY <1>1, <2>1, <2>2 DEF Evidence!TypeOK, EvidenceParameters
  <2>4. Numbered'
    BY <2>1 DEF EvidenceInv, Numbered
  <2> QED BY <1>1, <2>1, <2>2, <2>3, <2>4, PeopleKeep
<1>5. ASSUME Evidence!Tick PROVE EvidenceInv'
  <2>1. /\ UNCHANGED <<e_commits, e_git, e_moves, e_log, e_ci, e_r, e_calls, e_store, e_runs,
                       e_mixed>>
        /\ e_clock' = e_clock + 1 /\ e_clock < MaxTime
    BY <1>5 DEF Evidence!Tick
  <2>2. Evidence!TypeOK'
    BY <1>1, <2>1 DEF Evidence!TypeOK, EvidenceParameters
  <2>3. Numbered'
    BY <1>1, <2>1, EvidenceTyped DEF EvidenceInv, Numbered
  <2> QED BY <1>1, <2>1, <2>2, <2>3, PeopleKeep
<1> QED BY <1>2, <1>3, <1>4, <1>5, CommitKeeps DEF Evidence!People


-----------------------------------------------------------------------------
\* What the CI run does leaves the commits and the command alone.
LEMMA CIKeeps ==
  ASSUME EvidenceParameters, EvidenceInv,
         UNCHANGED <<e_commits, e_git, e_clock, e_moves, e_r, e_calls, e_store, e_mixed>>,
         e_log' \in [Log -> [start : Evidence!Edges \cup {Evidence!NoLine},
                          finish : Evidence!Edges \cup {Evidence!NoLine},
                          result : Evidence!Results \cup {Evidence!NoLine}, at : 0..MaxTime]],
         e_ci' \in [at : {"idle", "testing", "ending"}, log : Log, run : 0..MaxRuns],
         e_ci.run <= e_ci'.run, e_runs \subseteq e_runs', LogsFit',
         \A l \in Log : e_log[l].at <= e_log'[l].at,
         \A l \in Log, i \in 1..e_ci.run :
           /\ e_log'[l].start.run = i => e_log[l].start = e_log'[l].start
           /\ e_log'[l].start.run = i /\ e_log[l].finish # Evidence!NoLine =>
                e_log[l].finish = e_log'[l].finish
  PROVE  EvidenceInv'
<1>4. /\ e_r.start.run \in Nat /\ e_r.finish.run \in Nat /\ e_ci.run \in Nat /\ e_ci'.run \in Nat
      /\ (e_r.start = Evidence!NoLine) = (e_r.start.run = 0) /\ e_r.log \in Log
      /\ (e_r.finish = Evidence!NoLine) = (e_r.finish.run = 0) /\ e_r.finished \in Nat
      /\ \A l \in Log : e_log[l].at \in Nat /\ e_log'[l].at \in Nat
  BY EvidenceTyped DEF EvidenceParameters, EvidenceInv, Reading
<1>5. ScanFits'
  <2>1. ScanFits
    BY DEF EvidenceInv
  <2>2. (e_r.at \in From(3) => e_r.finished <= e_clock)'
    BY <2>1 DEF ScanFits, From
  <2>3. (e_r.at \in {"open", "started", "finished"} => e_r.finished <= e_log[e_r.log].at)'
    BY <1>4, <2>1 DEF ScanFits
  <2>4. (e_r.at \in From(4) =>
           /\ e_r.start # Evidence!NoLine /\ e_r.start.run <= e_ci.run
           /\ \A l \in Log : e_log[l].start.run = e_r.start.run => e_log[l].start = e_r.start)'
    <3>1. SUFFICES ASSUME e_r.at \in From(4)
                   PROVE  /\ e_r.start # Evidence!NoLine /\ e_r.start.run <= e_ci'.run
                          /\ \A l \in Log : e_log'[l].start.run = e_r.start.run =>
                               e_log'[l].start = e_r.start
      BY DEF From
    <3>2. /\ e_r.start # Evidence!NoLine /\ e_r.start.run \in 1..e_ci.run
          /\ \A l \in Log : e_log[l].start.run = e_r.start.run => e_log[l].start = e_r.start
      BY <1>4, <2>1, <3>1 DEF ScanFits
    <3>3. \A l \in Log : e_log'[l].start.run = e_r.start.run => e_log[l].start = e_log'[l].start
      BY <3>2
    <3> QED BY <1>4, <3>2, <3>3
  <2>5. (e_r.at = "finished" =>
           /\ e_r.finish # Evidence!NoLine /\ e_r.finish.run <= e_ci.run
           /\ \A l \in Log : e_log[l].start.run = e_r.finish.run => e_log[l].finish = e_r.finish)'
    <3>1. SUFFICES ASSUME e_r.at = "finished"
                   PROVE  /\ e_r.finish # Evidence!NoLine /\ e_r.finish.run <= e_ci'.run
                          /\ \A l \in Log : e_log'[l].start.run = e_r.finish.run =>
                               e_log'[l].finish = e_r.finish
      OBVIOUS
    <3>2. /\ e_r.finish # Evidence!NoLine /\ e_r.finish.run \in 1..e_ci.run
          /\ \A l \in Log : e_log[l].start.run = e_r.finish.run => e_log[l].finish = e_r.finish
      BY <1>4, <2>1, <3>1 DEF ScanFits
    <3>3. \A l \in Log : e_log'[l].start.run = e_r.finish.run =>
            /\ e_log[l].start = e_log'[l].start
            /\ e_log[l].finish # Evidence!NoLine => e_log[l].finish = e_log'[l].finish
      BY <3>2
    <3> QED BY <1>4, <3>2, <3>3
  <2>6. (e_r.at \in From(6) /\ e_r.pass /\ e_r.start.clean => Passed(e_r.start, e_r.finished))'
    BY <2>1 DEF ScanFits, Passed, From
  <2> QED BY <2>2, <2>3, <2>4, <2>5, <2>6 DEF ScanFits
<1>1. Evidence!TypeOK'
  BY DEF EvidenceInv, Evidence!TypeOK, Evidence!Hash
<1>2. Numbered' /\ BindFits' /\ (e_r \in Reading(e_r.base))'
  BY DEF EvidenceInv, Numbered, BindFits, Young, Reading
<1>3. StoreFits'
  BY DEF EvidenceInv, StoreFits, Evidence!Tested
<1> QED BY <1>1, <1>2, <1>3, <1>5 DEF EvidenceInv

\* The line that a run writes with the state of git.
LEMMA EdgeTyped ==
  ASSUME EvidenceParameters, EvidenceInv, e_ci'.run \in 1..MaxRuns
  PROVE  Evidence!Edge \in Evidence!Edges /\ Evidence!Edge.run = e_ci'.run
<1>1. PICK n \in Nat : DOMAIN e_commits = 1..n
  BY DEF EvidenceInv, Numbered, EvidenceParameters
<1>2. Evidence!TypeOK
  BY DEF EvidenceInv
<1>3. Evidence!BranchChangeID \in Change \cup {"none"}
  BY <1>1, <1>2, ChangeKnown
<1>4. /\ e_git.head \in Evidence!Hash /\ e_git.clean \in BOOLEAN
      /\ e_commits[e_git.head].tree \in CommitTree
  BY <1>2 DEF Evidence!TypeOK
<1> QED BY <1>3, <1>4 DEF Evidence!Edge, Evidence!Edges

LEMMA StartRunKeeps ==
  ASSUME EvidenceParameters, EvidenceInv, NEW l \in Log, Evidence!StartRun(l)
  PROVE  EvidenceInv'
<1>1. /\ e_ci.at = "idle" /\ e_ci.run < MaxRuns
      /\ e_ci' = [at |-> "testing", log |-> l, run |-> e_ci.run + 1]
      /\ UNCHANGED <<e_commits, e_git, e_clock, e_moves, e_r, e_calls, e_store, e_mixed, e_runs>>
  BY DEF Evidence!StartRun, Evidence!CIRest
<1>2. e_ci.run \in Nat /\ e_ci'.run = e_ci.run + 1 /\ e_ci'.run \in 1..MaxRuns
  BY <1>1, EvidenceTyped DEF EvidenceParameters
<1>14. PICK edge \in Evidence!Edges :
         /\ edge.run = e_ci.run + 1
         /\ e_log' = [e_log EXCEPT ![l] = [start |-> edge, finish |-> Evidence!NoLine,
                                         result |-> Evidence!NoLine, at |-> e_clock]]
  BY <1>2, EdgeTyped DEF Evidence!StartRun
<1>3. PICK x : /\ x = [start |-> edge, finish |-> Evidence!NoLine, result |-> Evidence!NoLine,
                       at |-> e_clock]
               /\ edge.run = e_ci.run + 1
               /\ e_log' = [e_log EXCEPT ![l] = x]
  BY <1>14
<1>4. /\ x.start = edge /\ x.finish = Evidence!NoLine /\ x.result = Evidence!NoLine
      /\ x.at = e_clock /\ edge # Evidence!NoLine
  BY <1>2, <1>3 DEF Evidence!NoLine
<1>5. e_clock \in 0..MaxTime /\ e_log \in [Log -> [start : Evidence!Edges \cup {Evidence!NoLine},
                          finish : Evidence!Edges \cup {Evidence!NoLine},
                          result : Evidence!Results \cup {Evidence!NoLine}, at : 0..MaxTime]]
  BY DEF EvidenceInv, Evidence!TypeOK
<1>6. /\ \A m \in Log : e_log'[m] = IF m = l THEN x ELSE e_log[m]
      /\ e_log' \in [Log -> [start : Evidence!Edges \cup {Evidence!NoLine},
                          finish : Evidence!Edges \cup {Evidence!NoLine},
                          result : Evidence!Results \cup {Evidence!NoLine}, at : 0..MaxTime]]
  BY <1>3, <1>5
<1>7. LogsFit
  BY DEF EvidenceInv
<1>8. \A m \in Log : /\ e_log[m].start.run <= e_ci.run /\ e_log[m].start.run \in Nat
                     /\ e_log[m].at <= e_clock /\ LogFits(m)
  BY <1>7, EvidenceTyped DEF LogsFit, LogFits
<1>9. \A m \in Log : LogFits(m)'
  <2> SUFFICES ASSUME NEW m \in Log PROVE LogFits(m)'
    OBVIOUS
  <2>1. CASE m = l
    BY <1>1, <1>2, <1>3, <1>4, <1>5, <1>6, <2>1 DEF LogFits, EvidenceParameters
  <2>2. CASE m # l
    BY <1>1, <1>2, <1>6, <1>8, <2>2 DEF LogFits, Passed
  <2> QED BY <2>1, <2>2
<1>10. LogsFit'
  <2>1. \A m, k \in Log :
          e_log'[m].start # Evidence!NoLine /\ e_log'[m].start.run = e_log'[k].start.run => m = k
    BY <1>2, <1>3, <1>4, <1>6, <1>7, <1>8 DEF LogsFit
  <2>2. e_log'[l] = x /\ e_ci'.log = l /\ e_ci'.at = "testing"
    BY <1>1, <1>6
  <2> QED BY <1>1, <1>2, <1>3, <1>4, <1>9, <2>1, <2>2 DEF LogsFit
<1>11. e_ci' \in [at : {"idle", "testing", "ending"}, log : Log, run : 0..MaxRuns]
  BY <1>1, <1>2 DEF EvidenceParameters
<1>12. \A m \in Log : e_log[m].at <= e_log'[m].at
  BY <1>4, <1>5, <1>6, <1>8, EvidenceTyped DEF EvidenceParameters
<1>13. \A m \in Log, i \in 1..e_ci.run :
         /\ e_log'[m].start.run = i => e_log[m].start = e_log'[m].start
         /\ e_log'[m].start.run = i /\ e_log[m].finish # Evidence!NoLine =>
              e_log[m].finish = e_log'[m].finish
  BY <1>2, <1>3, <1>4, <1>6
<1> QED BY <1>1, <1>2, <1>6, <1>10, <1>11, <1>12, <1>13, CIKeeps

LEMMA RunOfLog ==
  ASSUME EvidenceInv, e_ci.at # "idle", EvidenceParameters
  PROVE  /\ e_ci.log \in Log /\ e_ci.run \in 1..MaxRuns
         /\ e_log[e_ci.log].start # Evidence!NoLine
         /\ e_log[e_ci.log].start.run = e_ci.run
         /\ e_log[e_ci.log].result = Evidence!NoLine
         /\ (e_log[e_ci.log].finish = Evidence!NoLine) = (e_ci.at = "testing")
<1>1. LogsFit
  BY DEF EvidenceInv
<1>2. /\ e_ci.log \in Log /\ e_ci.run \in Nat /\ e_ci.run <= MaxRuns
      /\ e_log[e_ci.log].start.run \in Nat
      /\ (e_log[e_ci.log].start = Evidence!NoLine) = (e_log[e_ci.log].start.run = 0)
  BY EvidenceTyped DEF EvidenceParameters
<1> QED BY <1>1, <1>2 DEF LogsFit, EvidenceParameters

LEMMA FinishRunKeeps ==
  ASSUME EvidenceParameters, EvidenceInv, Evidence!FinishRun PROVE EvidenceInv'
<1>1. /\ e_ci.at = "testing" /\ e_ci' = [e_ci EXCEPT !.at = "ending"]
      /\ UNCHANGED <<e_commits, e_git, e_clock, e_moves, e_r, e_calls, e_store, e_mixed, e_runs>>
  BY DEF Evidence!FinishRun, Evidence!CIRest
<1>2. PICK l \in Log : l = e_ci.log
  BY <1>1, RunOfLog
<1>3. /\ e_log[l].start # Evidence!NoLine /\ e_log[l].start.run = e_ci.run
      /\ e_log[l].result = Evidence!NoLine /\ e_log[l].finish = Evidence!NoLine
      /\ e_ci.run \in 1..MaxRuns
  BY <1>1, <1>2, RunOfLog
<1>4. /\ e_ci'.run = e_ci.run /\ e_ci'.log = l /\ e_ci'.at = "ending"
      /\ e_ci' \in [at : {"idle", "testing", "ending"}, log : Log, run : 0..MaxRuns]
  BY <1>1, <1>2, EvidenceTyped
<1>5. PICK edge \in Evidence!Edges :
        edge.run = e_ci.run /\ e_log' = [e_log EXCEPT ![l].finish = edge, ![l].at = e_clock]
  BY <1>2, <1>3, <1>4, EdgeTyped DEF Evidence!FinishRun
<1>6. e_clock \in 0..MaxTime /\ e_log \in [Log -> [start : Evidence!Edges \cup {Evidence!NoLine},
                          finish : Evidence!Edges \cup {Evidence!NoLine},
                          result : Evidence!Results \cup {Evidence!NoLine}, at : 0..MaxTime]]
  BY DEF EvidenceInv, Evidence!TypeOK
<1>7. PICK x : x = [[e_log[l] EXCEPT !.finish = edge] EXCEPT !.at = e_clock]
  OBVIOUS
<1>8. /\ x \in [start : Evidence!Edges \cup {Evidence!NoLine},
                finish : Evidence!Edges \cup {Evidence!NoLine},
                result : Evidence!Results \cup {Evidence!NoLine}, at : 0..MaxTime]
      /\ x.start = e_log[l].start /\ x.finish = edge /\ x.result = Evidence!NoLine
      /\ x.at = e_clock /\ edge # Evidence!NoLine
  <2>1. e_log[l] \in [start : Evidence!Edges \cup {Evidence!NoLine},
                     finish : Evidence!Edges \cup {Evidence!NoLine},
                     result : Evidence!Results \cup {Evidence!NoLine}, at : 0..MaxTime]
    BY <1>6
  <2>2. edge # Evidence!NoLine
    BY <1>3, <1>5 DEF Evidence!NoLine, EvidenceParameters
  <2> QED BY <1>3, <1>5, <1>6, <1>7, <2>1, <2>2
<1>9. /\ \A m \in Log : e_log'[m] = IF m = l THEN x ELSE e_log[m]
      /\ e_log' \in [Log -> [start : Evidence!Edges \cup {Evidence!NoLine},
                          finish : Evidence!Edges \cup {Evidence!NoLine},
                          result : Evidence!Results \cup {Evidence!NoLine}, at : 0..MaxTime]]
  <2>1. e_log' = [e_log EXCEPT ![l] = x]
    BY <1>5, <1>6, <1>7
  <2> QED BY <1>6, <1>8, <2>1
<1>10. LogsFit
  BY DEF EvidenceInv
<1>11. \A m \in Log : /\ e_log[m].start.run <= e_ci.run /\ e_log[m].start.run \in Nat
                      /\ e_log[m].at <= e_clock /\ LogFits(m)
  BY <1>10, EvidenceTyped DEF LogsFit, LogFits
<1>12. \A m \in Log : LogFits(m)'
  <2> SUFFICES ASSUME NEW m \in Log PROVE LogFits(m)'
    OBVIOUS
  <2>1. CASE m = l
    BY <1>1, <1>3, <1>4, <1>5, <1>6, <1>8, <1>9, <1>11, <2>1 DEF LogFits, EvidenceParameters
  <2>2. CASE m # l
    BY <1>1, <1>4, <1>9, <1>11, <2>2 DEF LogFits, Passed
  <2> QED BY <2>1, <2>2
<1>13. LogsFit'
  <2>1. \A m, k \in Log :
          e_log'[m].start # Evidence!NoLine /\ e_log'[m].start.run = e_log'[k].start.run => m = k
    BY <1>8, <1>9, <1>10 DEF LogsFit
  <2> QED BY <1>3, <1>4, <1>8, <1>9, <1>12, <2>1 DEF LogsFit
<1>14. \A m \in Log : e_log[m].at <= e_log'[m].at
  BY <1>8, <1>6, <1>9, <1>11, EvidenceTyped DEF EvidenceParameters
<1>15. \A m \in Log, i \in 1..e_ci.run :
         /\ e_log'[m].start.run = i => e_log[m].start = e_log'[m].start
         /\ e_log'[m].start.run = i /\ e_log[m].finish # Evidence!NoLine =>
              e_log[m].finish = e_log'[m].finish
  BY <1>3, <1>8, <1>9
<1>16. e_ci.run <= e_ci'.run
  BY <1>3, <1>4
<1> QED BY <1>1, <1>4, <1>9, <1>13, <1>14, <1>15, <1>16, CIKeeps

LEMMA EndRunKeeps ==
  ASSUME EvidenceParameters, EvidenceInv, NEW pass \in BOOLEAN, Evidence!EndRun(pass)
  PROVE  EvidenceInv'
<1>1. /\ e_ci.at = "ending" /\ e_ci' = [e_ci EXCEPT !.at = "idle"]
      /\ UNCHANGED <<e_commits, e_git, e_clock, e_moves, e_r, e_calls, e_store, e_mixed>>
  BY DEF Evidence!EndRun, Evidence!CIRest
<1>2. PICK l \in Log : l = e_ci.log
  BY <1>1, RunOfLog
<1>3. /\ e_log[l].start # Evidence!NoLine /\ e_log[l].start.run = e_ci.run
      /\ e_log[l].result = Evidence!NoLine /\ e_log[l].finish # Evidence!NoLine
      /\ e_ci.run \in 1..MaxRuns
  BY <1>1, <1>2, RunOfLog
<1>4. /\ e_ci'.run = e_ci.run /\ e_ci'.log = l /\ e_ci'.at = "idle"
      /\ e_ci' \in [at : {"idle", "testing", "ending"}, log : Log, run : 0..MaxRuns]
  BY <1>1, <1>2, EvidenceTyped
<1>5. PICK result : /\ result = [run |-> e_ci.run, pass |-> pass]
                    /\ e_log' = [e_log EXCEPT ![l].result = result, ![l].at = e_clock]
  BY <1>2 DEF Evidence!EndRun
<1>6. /\ e_clock \in 0..MaxTime /\ result \in Evidence!Results
      /\ e_log \in [Log -> [start : Evidence!Edges \cup {Evidence!NoLine},
                          finish : Evidence!Edges \cup {Evidence!NoLine},
                          result : Evidence!Results \cup {Evidence!NoLine}, at : 0..MaxTime]]
  BY <1>3, <1>5 DEF EvidenceInv, Evidence!TypeOK, Evidence!Results
<1>7. PICK x : x = [[e_log[l] EXCEPT !.result = result] EXCEPT !.at = e_clock]
  OBVIOUS
<1>8. /\ x \in [start : Evidence!Edges \cup {Evidence!NoLine},
                finish : Evidence!Edges \cup {Evidence!NoLine},
                result : Evidence!Results \cup {Evidence!NoLine}, at : 0..MaxTime]
      /\ x.start = e_log[l].start /\ x.finish = e_log[l].finish /\ x.result = result
      /\ x.at = e_clock
  <2>1. e_log[l] \in [start : Evidence!Edges \cup {Evidence!NoLine},
                     finish : Evidence!Edges \cup {Evidence!NoLine},
                     result : Evidence!Results \cup {Evidence!NoLine}, at : 0..MaxTime]
    BY <1>6
  <2> QED BY <1>6, <1>7, <2>1
<1>9. /\ \A m \in Log : e_log'[m] = IF m = l THEN x ELSE e_log[m]
      /\ e_log' \in [Log -> [start : Evidence!Edges \cup {Evidence!NoLine},
                          finish : Evidence!Edges \cup {Evidence!NoLine},
                          result : Evidence!Results \cup {Evidence!NoLine}, at : 0..MaxTime]]
  <2>1. e_log' = [e_log EXCEPT ![l] = x]
    BY <1>5, <1>6, <1>7
  <2> QED BY <1>6, <1>8, <2>1
<1>10. LogsFit
  BY DEF EvidenceInv
<1>11. \A m \in Log : /\ e_log[m].start.run <= e_ci.run /\ e_log[m].start.run \in Nat
                      /\ e_log[m].at <= e_clock /\ LogFits(m)
  BY <1>10, EvidenceTyped DEF LogsFit, LogFits
<1>12. /\ e_runs \subseteq e_runs'
       /\ pass /\ x.start = x.finish /\ x.start.clean =>
            [head |-> x.start.head, id |-> x.start.id, ended |-> e_clock] \in e_runs'
  BY <1>2, <1>8 DEF Evidence!EndRun
<1>13. \A m \in Log : LogFits(m)'
  <2> SUFFICES ASSUME NEW m \in Log PROVE LogFits(m)'
    OBVIOUS
  <2>1. CASE m = l
    <3>1. e_log[l].finish.run = e_ci.run
      BY <1>3, <1>11 DEF LogFits
    <3>2. pass /\ x.start = x.finish /\ x.start.clean => Passed(x.start, e_clock)'
      BY <1>1, <1>6, <1>12, EvidenceTyped DEF Passed
    <3>3. result.run = e_ci.run /\ result.pass = pass /\ e_ci.run \in Nat /\ e_clock \in Nat
      BY <1>3, <1>5, <1>6 DEF EvidenceParameters
    <3> QED BY <1>1, <1>3, <1>4, <1>8, <1>9, <2>1, <3>1, <3>2, <3>3 DEF LogFits, Passed
  <2>2. CASE m # l
    BY <1>1, <1>4, <1>9, <1>11, <1>12, <2>2 DEF LogFits, Passed
  <2> QED BY <2>1, <2>2
<1>14. LogsFit'
  <2>1. \A m, k \in Log :
          e_log'[m].start # Evidence!NoLine /\ e_log'[m].start.run = e_log'[k].start.run => m = k
    BY <1>8, <1>9, <1>10 DEF LogsFit
  <2> QED BY <1>4, <1>13, <2>1 DEF LogsFit
<1>15. \A m \in Log : e_log[m].at <= e_log'[m].at
  BY <1>8, <1>6, <1>9, <1>11, EvidenceTyped DEF EvidenceParameters
<1>16. \A m \in Log, i \in 1..e_ci.run :
         /\ e_log'[m].start.run = i => e_log[m].start = e_log'[m].start
         /\ e_log'[m].start.run = i /\ e_log[m].finish # Evidence!NoLine =>
              e_log[m].finish = e_log'[m].finish
  BY <1>8, <1>9
<1>17. e_ci.run <= e_ci'.run
  BY <1>3, <1>4
<1> QED BY <1>1, <1>4, <1>9, <1>12, <1>14, <1>15, <1>16, <1>17, CIKeeps

-----------------------------------------------------------------------------
\* The command.
LEMMA ReaderKeeps ==
  ASSUME EvidenceParameters, EvidenceInv, Evidence!CommandRest,
         (e_r \in Reading(e_r.base))', ScanFits', BindFits'
  PROVE  EvidenceInv'
<1>1. Evidence!TypeOK' /\ Numbered' /\ LogsFit' /\ StoreFits'
  BY DEF EvidenceInv, Evidence!TypeOK, Evidence!Hash, Evidence!CommandRest, Numbered, LogsFit,
     LogFits, Passed, StoreFits, Evidence!Tested
<1> QED BY <1>1 DEF EvidenceInv

LEMMA IdleFits ==
  ASSUME EvidenceParameters, EvidenceInv, e_r' = Evidence!Idle
  PROVE  (e_r \in Reading(e_r.base))' /\ ScanFits' /\ BindFits'
<1>1. PICK l : l = CHOOSE m \in Log : TRUE
  OBVIOUS
<1>2. l \in Log
  <2>1. e_ci.log \in Log
    BY EvidenceTyped
  <2> QED BY <1>1, <2>1
<1>3. e_r' = [at |-> "idle", log |-> l, switched |-> FALSE, finished |-> 0,
              start |-> Evidence!NoLine, finish |-> Evidence!NoLine, pass |-> FALSE,
              head |-> 0, subject |-> 0, base |-> 0, dated |-> 0]
  BY <1>1 DEF Evidence!Idle
<1>4. (e_r \in Reading(e_r.base))'
  BY <1>2, <1>3 DEF Reading, From, Stages, EvidenceParameters
<1>5. ScanFits' /\ BindFits'
  BY <1>3 DEF ScanFits, BindFits, From, Stages
<1> QED BY <1>4, <1>5

\* A check refuses.
LEMMA RefusalKeeps ==
  ASSUME EvidenceParameters, EvidenceInv, Evidence!CommandRest, e_r' = Evidence!Idle
  PROVE  EvidenceInv'
  BY IdleFits, ReaderKeeps

\* What has been read, field by field.
LEMMA ReadingTyped ==
  ASSUME EvidenceInv
  PROVE  /\ e_r \in Reading(e_r.base)
         /\ e_r.at \in From(1) /\ e_r.log \in Log /\ e_r.switched \in BOOLEAN
         /\ e_r.finished \in 0..MaxTime /\ e_r.pass \in BOOLEAN
         /\ e_r.start \in Evidence!Edges \cup {Evidence!NoLine}
         /\ e_r.finish \in Evidence!Edges \cup {Evidence!NoLine}
         /\ e_r.head \in 0..MaxCommits /\ e_r.subject \in 0..MaxCommits
         /\ e_r.dated \in 0..MaxTime
  BY DEF EvidenceInv, Reading

LEMMA SelectKeeps ==
  ASSUME EvidenceParameters, EvidenceInv, NEW l \in Log, Evidence!selectCILog(l)
  PROVE  EvidenceInv'
<1>1. /\ UNCHANGED <<e_commits, e_git, e_clock, e_moves, e_log, e_ci, e_store, e_runs, e_mixed>>
      /\ e_r' = [Evidence!Idle EXCEPT !.at = "selected", !.log = l]
      /\ e_calls' = e_calls + 1 /\ e_calls < MaxCalls
  BY DEF Evidence!selectCILog
<1>2. Evidence!TypeOK'
  BY <1>1 DEF EvidenceInv, Evidence!TypeOK, Evidence!Hash, EvidenceParameters
<1>3. Numbered' /\ LogsFit' /\ StoreFits'
  BY <1>1 DEF EvidenceInv, Numbered, LogsFit, LogFits, Passed, StoreFits, Evidence!Tested
<1>4. e_r' = [at |-> "selected", log |-> l, switched |-> FALSE, finished |-> 0,
              start |-> Evidence!NoLine, finish |-> Evidence!NoLine, pass |-> FALSE,
              head |-> 0, subject |-> 0, base |-> 0, dated |-> 0]
  BY <1>1 DEF Evidence!Idle
<1>5. (e_r \in Reading(e_r.base))'
  BY <1>4 DEF Reading, From, Stages, EvidenceParameters
<1>6. ScanFits' /\ BindFits'
  BY <1>4 DEF ScanFits, BindFits, From, Stages
<1> QED BY <1>2, <1>3, <1>5, <1>6 DEF EvidenceInv

\* The steps by name.
LEMMA StepNames ==
  /\ From(1) = {"idle", "selected", "open", "started", "finished", "scanned", "head", "tree",
                "subject", "branch", "change", "bound"}
  /\ From(3) = From(1) \ {"idle", "selected"}
  /\ From(4) = From(3) \ {"open"}
  /\ From(6) = From(4) \ {"started", "finished"}
  /\ From(7) = From(6) \ {"scanned"}
  /\ From(8) = From(7) \ {"head"}
  /\ From(9) = From(8) \ {"tree"}
  /\ From(11) = {"change", "bound"}
<1>1. /\ 1..12 = {1, 2, 3, 4, 5, 6, 7, 8, 9, 10, 11, 12}
      /\ 3..12 = {3, 4, 5, 6, 7, 8, 9, 10, 11, 12}
      /\ 4..12 = {4, 5, 6, 7, 8, 9, 10, 11, 12}
      /\ 6..12 = {6, 7, 8, 9, 10, 11, 12}
      /\ 7..12 = {7, 8, 9, 10, 11, 12}
      /\ 8..12 = {8, 9, 10, 11, 12}
      /\ 9..12 = {9, 10, 11, 12}
      /\ 11..12 = {11, 12}
  OBVIOUS
<1>2. /\ From(1) = {"idle", "selected", "open", "started", "finished", "scanned", "head", "tree",
                    "subject", "branch", "change", "bound"}
      /\ From(3) = {"open", "started", "finished", "scanned", "head", "tree", "subject", "branch",
                    "change", "bound"}
  BY <1>1 DEF From, Stages
<1>3. /\ From(4) = {"started", "finished", "scanned", "head", "tree", "subject", "branch",
                    "change", "bound"}
      /\ From(6) = {"scanned", "head", "tree", "subject", "branch", "change", "bound"}
      /\ From(7) = {"head", "tree", "subject", "branch", "change", "bound"}
  BY <1>1 DEF From, Stages
<1>4. /\ From(8) = {"tree", "subject", "branch", "change", "bound"}
      /\ From(9) = {"subject", "branch", "change", "bound"}
      /\ From(11) = {"change", "bound"}
  BY <1>1 DEF From, Stages
<1> QED BY <1>2, <1>3, <1>4

LEMMA ScanKeepsFits ==
  ASSUME EvidenceParameters, EvidenceInv,
         Evidence!Stat \/ Evidence!ReadStart \/ Evidence!ReadFinish \/ Evidence!ReadResult
  PROVE  EvidenceInv'
<1>1. Evidence!CommandRest
  BY DEF Evidence!Stat, Evidence!ReadStart, Evidence!ReadFinish, Evidence!ReadResult,
     Evidence!Goes
<1>2. SUFFICES ASSUME e_r' # Evidence!Idle PROVE EvidenceInv'
  BY <1>1, RefusalKeeps
<1>3. PICK l, x : l = e_r.log /\ x = e_log[l]
  OBVIOUS
<1>4. /\ l \in Log /\ LogFits(l) /\ LogsFit /\ ScanFits
      /\ x \in [start : Evidence!Edges \cup {Evidence!NoLine},
                finish : Evidence!Edges \cup {Evidence!NoLine},
                result : Evidence!Results \cup {Evidence!NoLine}, at : 0..MaxTime]
      /\ x.start.run \in Nat /\ x.finish.run \in Nat
      /\ (x.start = Evidence!NoLine) = (x.start.run = 0)
      /\ (x.finish = Evidence!NoLine) = (x.finish.run = 0)
  BY <1>3, EvidenceTyped, ReadingTyped DEF EvidenceInv, LogsFit
<1>5. UNCHANGED <<e_commits, e_git, e_clock, e_moves, e_log, e_ci, e_calls, e_store, e_runs,
                  e_mixed>>
  BY <1>1 DEF Evidence!CommandRest
<1>6. e_clock \in Nat /\ e_ci.run \in Nat /\ x.at \in Nat
  BY <1>4, EvidenceTyped DEF EvidenceParameters
<1>12. PICK base : base = e_r.base
  OBVIOUS
<1>11. PICK z \in Reading(base) : z = e_r
  BY <1>12, ReadingTyped
<1>13. /\ x.at \in 0..MaxTime /\ x.start \in Evidence!Edges \cup {Evidence!NoLine}
       /\ x.finish \in Evidence!Edges \cup {Evidence!NoLine}
  BY <1>4
<1>14. {"open", "started", "finished", "scanned"} \subseteq From(1)
  BY StepNames
<1>7. CASE Evidence!Stat
  <2>1. e_r.at = "selected" /\ e_r' = [[e_r EXCEPT !.finished = x.at] EXCEPT !.at = "open"]
    BY <1>2, <1>3, <1>7 DEF Evidence!Stat, Evidence!Goes
  <2>2. /\ e_r' \in Reading(e_r.base) /\ e_r'.base = e_r.base
        /\ e_r'.at = "open" /\ e_r'.finished = x.at /\ e_r'.log = l
    <3>1. PICK y : y = [[z EXCEPT !.finished = x.at] EXCEPT !.at = "open"]
      OBVIOUS
    <3>2. /\ y \in Reading(base) /\ y.base = base
          /\ y.at = "open" /\ y.finished = x.at /\ y.log = z.log
      BY <1>13, <1>14, <3>1 DEF Reading
    <3> QED BY <1>3, <1>12, <1>11, <2>1, <3>1, <3>2
  <2>3. ScanFits'
    BY <1>3, <1>4, <1>5, <1>6, <2>2 DEF ScanFits, LogFits, From, Stages
  <2>4. BindFits'
    BY <2>2 DEF BindFits, From, Stages
  <2> QED BY <1>1, <2>2, <2>3, <2>4, ReaderKeeps
<1>8. CASE Evidence!ReadStart
  <2>1. /\ e_r.at = "open" /\ x.start # Evidence!NoLine
        /\ e_r' = [[e_r EXCEPT !.start = x.start] EXCEPT !.at = "started"]
    BY <1>2, <1>3, <1>8 DEF Evidence!ReadStart, Evidence!Goes
  <2>2. /\ e_r' \in Reading(e_r.base) /\ e_r'.base = e_r.base
        /\ e_r'.at = "started" /\ e_r'.finished = e_r.finished /\ e_r'.log = l
        /\ e_r'.start = x.start
    <3>1. PICK y : y = [[z EXCEPT !.start = x.start] EXCEPT !.at = "started"]
      OBVIOUS
    <3>2. /\ y \in Reading(base) /\ y.base = base
          /\ y.at = "started" /\ y.finished = z.finished /\ y.log = z.log
          /\ y.start = x.start
      BY <1>13, <1>14, <3>1 DEF Reading
    <3> QED BY <1>3, <1>12, <1>11, <2>1, <3>1, <3>2
  <2>3. \A m \in Log : e_log[m].start.run = x.start.run => m = l
    BY <1>3, <1>4, <2>1 DEF LogsFit
  <2>4. e_r.finished <= e_clock /\ e_r.finished <= x.at
    BY <1>3, <1>4, <2>1 DEF ScanFits, From, Stages
  <2>5. ScanFits'
    BY <1>3, <1>4, <1>5, <2>1, <2>2, <2>3, <2>4 DEF ScanFits, LogFits, From, Stages
  <2>6. BindFits'
    BY <2>2 DEF BindFits, From, Stages
  <2> QED BY <1>1, <2>2, <2>5, <2>6, ReaderKeeps
<1>9. CASE Evidence!ReadFinish
  <2>1. /\ e_r.at = "started" /\ x.finish # Evidence!NoLine
        /\ e_r' = [[e_r EXCEPT !.finish = x.finish] EXCEPT !.at = "finished"]
    BY <1>2, <1>3, <1>9 DEF Evidence!ReadFinish, Evidence!Goes
  <2>2. /\ e_r' \in Reading(e_r.base) /\ e_r'.base = e_r.base
        /\ e_r'.at = "finished" /\ e_r'.finished = e_r.finished /\ e_r'.log = l
        /\ e_r'.start = e_r.start /\ e_r'.finish = x.finish
    <3>1. PICK y : y = [[z EXCEPT !.finish = x.finish] EXCEPT !.at = "finished"]
      OBVIOUS
    <3>2. /\ y \in Reading(base) /\ y.base = base
          /\ y.at = "finished" /\ y.finished = z.finished /\ y.log = z.log
          /\ y.start = z.start /\ y.finish = x.finish
      BY <1>13, <1>14, <3>1 DEF Reading
    <3> QED BY <1>3, <1>12, <1>11, <2>1, <3>1, <3>2
  <2>3. x.finish.run = x.start.run /\ x.finish.run <= e_ci.run /\ x.start # Evidence!NoLine
    BY <1>3, <1>4, <2>1 DEF LogFits
  <2>4. \A m \in Log : e_log[m].start.run = x.finish.run => m = l
    BY <1>3, <1>4, <2>3 DEF LogsFit
  <2>5. /\ e_r.finished <= e_clock /\ e_r.finished <= x.at
        /\ e_r.start # Evidence!NoLine /\ e_r.start.run <= e_ci.run
        /\ \A m \in Log : e_log[m].start.run = e_r.start.run => e_log[m].start = e_r.start
    BY <1>3, <1>4, <2>1 DEF ScanFits, From, Stages
  <2>6. ScanFits'
    BY <1>3, <1>4, <1>5, <2>1, <2>2, <2>3, <2>4, <2>5 DEF ScanFits, From, Stages
  <2>7. BindFits'
    BY <2>2 DEF BindFits, From, Stages
  <2> QED BY <1>1, <2>2, <2>6, <2>7, ReaderKeeps
<1>10. CASE Evidence!ReadResult
  <2>1. /\ e_r.at = "finished" /\ Evidence!ReceiptAgrees(x.result)
        /\ e_r' = [[e_r EXCEPT !.pass = x.result.pass] EXCEPT !.at = "scanned"]
    BY <1>2, <1>3, <1>10 DEF Evidence!ReadResult, Evidence!Goes
  <2>2. /\ x.result # Evidence!NoLine /\ x.result \in Evidence!Results
        /\ [e_r.start EXCEPT !.run = 0] = [e_r.finish EXCEPT !.run = 0]
        /\ e_r.start.run = e_r.finish.run /\ e_r.start.run = x.result.run
    BY <1>4, <2>1 DEF Evidence!ReceiptAgrees
  <2>3. x.result.pass \in BOOLEAN
    BY <2>2 DEF Evidence!Results
  <2>4. /\ e_r' \in Reading(e_r.base) /\ e_r'.base = e_r.base
        /\ e_r'.at = "scanned" /\ e_r'.finished = e_r.finished /\ e_r'.log = l
        /\ e_r'.start = e_r.start /\ e_r'.finish = e_r.finish /\ e_r'.pass = x.result.pass
    <3>1. PICK y : y = [[z EXCEPT !.pass = x.result.pass] EXCEPT !.at = "scanned"]
      OBVIOUS
    <3>2. /\ y \in Reading(base) /\ y.base = base
          /\ y.at = "scanned" /\ y.finished = z.finished /\ y.log = z.log
          /\ y.start = z.start /\ y.finish = z.finish /\ y.pass = x.result.pass
      BY <1>13, <1>14, <2>3, <3>1 DEF Reading
    <3> QED BY <1>3, <1>12, <1>11, <2>1, <3>1, <3>2
  <2>5. /\ e_r.finished <= e_clock /\ e_r.finished <= x.at
        /\ e_r.start # Evidence!NoLine /\ e_r.start.run <= e_ci.run
        /\ \A m \in Log : e_log[m].start.run = e_r.start.run => e_log[m].start = e_r.start
        /\ e_r.finish # Evidence!NoLine
        /\ \A m \in Log : e_log[m].start.run = e_r.finish.run => e_log[m].finish = e_r.finish
    BY <1>3, <1>4, <2>1 DEF ScanFits, From, Stages
  <2>6. x.result.run = x.start.run /\ x.finish # Evidence!NoLine
    BY <1>3, <1>4, <2>2 DEF LogFits
  <2>7. e_r.start = x.start /\ e_r.finish = x.finish
    BY <1>3, <1>4, <2>2, <2>5, <2>6
  <2>8. e_r.start = e_r.finish
    <3>1. PICK a \in Evidence!Edges, b \in Evidence!Edges : a = e_r.start /\ b = e_r.finish
      BY <2>5, ReadingTyped
    <3>2. [a EXCEPT !.run = 0] = [b EXCEPT !.run = 0] /\ a.run = b.run
      BY <2>2, <3>1
    <3> HIDE <3>1
    <3>3. /\ a \in [run : 1..MaxRuns, head : Evidence!Hash, tree : CommitTree,
                    id : Change \cup {"none"}, clean : BOOLEAN]
          /\ b \in [run : 1..MaxRuns, head : Evidence!Hash, tree : CommitTree,
                    id : Change \cup {"none"}, clean : BOOLEAN]
      BY DEF Evidence!Edges
    <3>4. /\ [a EXCEPT !.run = 0].head = a.head /\ [b EXCEPT !.run = 0].head = b.head
          /\ [a EXCEPT !.run = 0].tree = a.tree /\ [b EXCEPT !.run = 0].tree = b.tree
          /\ [a EXCEPT !.run = 0].id = a.id /\ [b EXCEPT !.run = 0].id = b.id
          /\ [a EXCEPT !.run = 0].clean = a.clean /\ [b EXCEPT !.run = 0].clean = b.clean
      BY <3>3
    <3>5. a.head = b.head /\ a.tree = b.tree /\ a.id = b.id /\ a.clean = b.clean
      BY <3>2, <3>4
    <3>6. a = b
      BY <3>2, <3>3, <3>5
    <3> QED BY <3>1, <3>6
  <2>9. x.result.pass /\ x.start.clean => Passed(e_r.start, e_r.finished)
    <3>1. x.result.pass /\ x.start.clean => Passed(x.start, x.at)
      BY <1>3, <1>4, <2>2, <2>7, <2>8 DEF LogFits
    <3>2. x.at..MaxTime \subseteq e_r.finished..MaxTime
      BY <1>6, <2>5, EvidenceTyped DEF EvidenceParameters
    <3> QED BY <2>7, <3>1, <3>2 DEF Passed
  <2>10. ScanFits'
    BY <1>5, <2>4, <2>5, <2>7, <2>9 DEF ScanFits, Passed, From, Stages
  <2>11. BindFits'
    BY <2>4 DEF BindFits, From, Stages
  <2> QED BY <1>1, <2>4, <2>10, <2>11, ReaderKeeps
<1> QED BY <1>7, <1>8, <1>9, <1>10


\* What a step of the binding does not touch.
Carried ==
  /\ e_r'.start = e_r.start /\ e_r'.pass = e_r.pass /\ e_r'.finished = e_r.finished
  /\ e_r'.switched = e_r.switched

LEMMA BindScanned ==
  ASSUME EvidenceParameters, EvidenceInv, Evidence!CommandRest, Carried,
         e_r.at \in From(6), e_r'.at \in From(7)
  PROVE  ScanFits'
  BY StepNames DEF EvidenceInv, ScanFits, Passed, Carried, Evidence!CommandRest

LEMMA BindKeeps ==
  ASSUME EvidenceParameters, EvidenceInv,
         \/ Evidence!BindHead \/ Evidence!BindTree \/ Evidence!BindSubject \/ Evidence!FindBase
         \/ Evidence!BindChange \/ Evidence!BindDate
  PROVE  EvidenceInv'
<1>1. Evidence!CommandRest
  BY DEF Evidence!BindHead, Evidence!BindTree, Evidence!BindSubject, Evidence!FindBase,
     Evidence!BindChange, Evidence!BindDate, Evidence!Goes
<1>2. SUFFICES ASSUME e_r' # Evidence!Idle PROVE EvidenceInv'
  BY <1>1, RefusalKeeps
<1>3. PICK base : base = e_r.base
  OBVIOUS
<1>4. PICK z \in Reading(base) : z = e_r
  BY <1>3, ReadingTyped
<1>5. /\ e_git.head \in 0..MaxCommits /\ e_commits[e_git.head].dated \in 0..MaxTime
      /\ From(6) \subseteq From(1)
  BY StepNames DEF EvidenceInv, Evidence!TypeOK, Evidence!Hash, EvidenceParameters
<1>6. /\ BindFits /\ UNCHANGED <<e_commits, e_git>> /\ e_git.head \in DOMAIN e_commits
      /\ From(7) \subseteq From(1)
  BY <1>1, StepNames DEF EvidenceInv, Evidence!CommandRest, Evidence!TypeOK
<1>13. /\ e_r.finished \in Nat /\ e_r.switched \in BOOLEAN
       /\ \A c \in DOMAIN e_commits : e_commits[c].dated \in Nat
  BY EvidenceTyped, ReadingTyped
<1>14. {"head", "tree", "subject", "branch", "change", "bound"} \subseteq From(1)
  BY StepNames
<1>7. CASE Evidence!BindHead
  <2>1. /\ e_r.at = "scanned" /\ e_r' = [[e_r EXCEPT !.head = e_git.head] EXCEPT !.at = "head"]
    BY <1>1, <1>2, <1>7 DEF Evidence!BindHead, Evidence!Goes
  <2>2. /\ e_r' \in Reading(e_r'.base) /\ e_r'.at = "head" /\ Carried
        /\ e_r'.head = e_git.head
    <3>1. PICK y : y = [[z EXCEPT !.head = e_git.head] EXCEPT !.at = "head"]
      OBVIOUS
    <3>2. /\ y \in Reading(base) /\ y.base = base /\ y.at = "head"
          /\ y.start = z.start /\ y.pass = z.pass /\ y.finished = z.finished
          /\ y.switched = z.switched
          /\ y.head = e_git.head
      BY <1>4, <1>5, <1>14, <3>1 DEF Reading
    <3> QED BY <1>3, <1>4, <2>1, <3>1, <3>2 DEF Carried
  <2>3. ScanFits'
    BY <1>1, <2>1, <2>2, BindScanned, StepNames
  <2>4. BindFits'
    BY <1>6, <2>1, <2>2, StepNames DEF BindFits
  <2> QED BY <1>1, <2>2, <2>3, <2>4, ReaderKeeps
<1>8. CASE Evidence!BindTree
  <2>1. /\ e_r.at = "head" /\ e_r' = [e_r EXCEPT !.at = "tree"]
        /\ e_r.head = e_r.start.head
    BY <1>1, <1>2, <1>8 DEF Evidence!BindTree, Evidence!Goes
  <2>2. /\ e_r' \in Reading(e_r'.base) /\ e_r'.at = "tree" /\ Carried
        /\ e_r'.head = e_r.head
    <3>1. PICK y : y = [z EXCEPT !.at = "tree"]
      OBVIOUS
    <3>2. /\ y \in Reading(base) /\ y.base = base /\ y.at = "tree"
          /\ y.start = z.start /\ y.pass = z.pass /\ y.finished = z.finished
          /\ y.switched = z.switched
          /\ y.head = z.head
      BY <1>4, <1>5, <1>14, <3>1 DEF Reading
    <3> QED BY <1>3, <1>4, <2>1, <3>1, <3>2 DEF Carried
  <2>3. ScanFits'
    BY <1>1, <2>1, <2>2, BindScanned, StepNames
  <2>4. BindFits'
    BY <1>6, <1>13, <2>1, <2>2, StepNames DEF BindFits, Young, Carried
  <2> QED BY <1>1, <2>2, <2>3, <2>4, ReaderKeeps
<1>9. CASE Evidence!BindSubject
  <2>1. /\ e_r.at = "tree" /\ e_r' = [[e_r EXCEPT !.subject = e_git.head] EXCEPT !.at = "subject"]
    BY <1>1, <1>2, <1>9 DEF Evidence!BindSubject, Evidence!Goes
  <2>2. /\ e_r' \in Reading(e_r'.base) /\ e_r'.at = "subject" /\ Carried
        /\ e_r'.head = e_r.head
        /\ e_r'.subject = e_git.head
    <3>1. PICK y : y = [[z EXCEPT !.subject = e_git.head] EXCEPT !.at = "subject"]
      OBVIOUS
    <3>2. /\ y \in Reading(base) /\ y.base = base /\ y.at = "subject"
          /\ y.start = z.start /\ y.pass = z.pass /\ y.finished = z.finished
          /\ y.switched = z.switched
          /\ y.head = z.head
          /\ y.subject = e_git.head
      BY <1>4, <1>5, <1>14, <3>1 DEF Reading
    <3> QED BY <1>3, <1>4, <2>1, <3>1, <3>2 DEF Carried
  <2>3. ScanFits'
    BY <1>1, <2>1, <2>2, BindScanned, StepNames
  <2>4. BindFits'
    BY <1>6, <1>13, <2>1, <2>2, StepNames DEF BindFits, Young, Carried
  <2> QED BY <1>1, <2>2, <2>3, <2>4, ReaderKeeps
<1>10. CASE Evidence!FindBase
  <2>1. /\ e_r.at = "subject"
        /\ e_r' = [[e_r EXCEPT !.base = Evidence!MergeBase(e_git[Evidence!SourceRef])]
                     EXCEPT !.at = "branch"]
    BY <1>1, <1>2, <1>10 DEF Evidence!FindBase, Evidence!Goes
  <2>2. /\ e_r' \in Reading(e_r'.base) /\ e_r'.at = "branch" /\ Carried
        /\ e_r'.head = e_r.head
        /\ e_r'.subject = e_r.subject
    <3>0. PICK m : m = Evidence!MergeBase(e_git[Evidence!SourceRef])
      OBVIOUS
    <3>1. PICK y : y = [[z EXCEPT !.base = m] EXCEPT !.at = "branch"]
      OBVIOUS
    <3>2. /\ y \in Reading(m) /\ y.base = m /\ y.at = "branch"
          /\ y.start = z.start /\ y.pass = z.pass /\ y.finished = z.finished
          /\ y.switched = z.switched
          /\ y.head = z.head
          /\ y.subject = z.subject
      BY <1>4, <1>5, <1>14, <3>1 DEF Reading
    <3> QED BY <1>3, <1>4, <3>0, <2>1, <3>1, <3>2 DEF Carried
  <2>3. ScanFits'
    BY <1>1, <2>1, <2>2, BindScanned, StepNames
  <2>4. BindFits'
    BY <1>6, <1>13, <2>1, <2>2, StepNames DEF BindFits, Young, Carried
  <2> QED BY <1>1, <2>2, <2>3, <2>4, ReaderKeeps
<1>11. CASE Evidence!BindChange
  <2>1. /\ e_r.at = "branch" /\ e_r' = [e_r EXCEPT !.at = "change"]
        /\ e_r.pass /\ e_r.start.id \in Change
    BY <1>1, <1>2, <1>11 DEF Evidence!BindChange, Evidence!Goes
  <2>2. /\ e_r' \in Reading(e_r'.base) /\ e_r'.at = "change" /\ Carried
        /\ e_r'.head = e_r.head
        /\ e_r'.subject = e_r.subject
    <3>1. PICK y : y = [z EXCEPT !.at = "change"]
      OBVIOUS
    <3>2. /\ y \in Reading(base) /\ y.base = base /\ y.at = "change"
          /\ y.start = z.start /\ y.pass = z.pass /\ y.finished = z.finished
          /\ y.switched = z.switched
          /\ y.head = z.head
          /\ y.subject = z.subject
      BY <1>4, <1>5, <1>14, <3>1 DEF Reading
    <3> QED BY <1>3, <1>4, <2>1, <3>1, <3>2 DEF Carried
  <2>3. ScanFits'
    BY <1>1, <2>1, <2>2, BindScanned, StepNames
  <2>4. BindFits'
    BY <1>6, <1>13, <2>1, <2>2, StepNames DEF BindFits, Young, Carried
  <2> QED BY <1>1, <2>2, <2>3, <2>4, ReaderKeeps
<1>12. CASE Evidence!BindDate
  <2>1. /\ e_r.at = "change" /\ e_r' = 
             [[e_r EXCEPT !.dated = e_commits[e_git.head].dated] EXCEPT !.at = "bound"]
        /\ e_r.finished > e_commits[e_git.head].dated /\ e_r.start.clean
    BY <1>1, <1>2, <1>12 DEF Evidence!BindDate, Evidence!Goes, Evidence!GatesTheCommit
  <2>2. /\ e_r' \in Reading(e_r'.base) /\ e_r'.at = "bound" /\ Carried
        /\ e_r'.head = e_r.head
        /\ e_r'.subject = e_r.subject
        /\ e_r'.dated = e_commits[e_git.head].dated
    <3>1. PICK y : y = [[z EXCEPT !.dated = e_commits[e_git.head].dated] EXCEPT !.at = "bound"]
      OBVIOUS
    <3>2. /\ y \in Reading(base) /\ y.base = base /\ y.at = "bound"
          /\ y.start = z.start /\ y.pass = z.pass /\ y.finished = z.finished
          /\ y.switched = z.switched
          /\ y.head = z.head
          /\ y.subject = z.subject
          /\ y.dated = e_commits[e_git.head].dated
      BY <1>4, <1>5, <1>14, <3>1 DEF Reading
    <3> QED BY <1>3, <1>4, <2>1, <3>1, <3>2 DEF Carried
  <2>3. ScanFits'
    BY <1>1, <2>1, <2>2, BindScanned, StepNames
  <2>4. BindFits'
    <3>1. ~e_r.switched => e_git.head = e_r.subject /\ e_r.subject = e_r.head
      BY <1>6, <1>13, <2>1, StepNames DEF BindFits, Young
    <3> QED BY <1>6, <1>13, <2>1, <2>2, <3>1, StepNames DEF BindFits, Young, Carried
  <2> QED BY <1>1, <2>2, <2>3, <2>4, ReaderKeeps
<1> QED BY <1>7, <1>8, <1>9, <1>10, <1>11, <1>12

LEMMA PublishKeepsEvidence ==
  ASSUME EvidenceParameters, EvidenceInv, Evidence!publishGateFile PROVE EvidenceInv'
<1>1. /\ e_r.at = "bound" /\ e_r' = Evidence!Idle
      /\ UNCHANGED <<e_commits, e_git, e_clock, e_moves, e_log, e_ci, e_calls, e_runs>>
  BY DEF Evidence!publishGateFile
<1>2. PICK b : b = Evidence!Block
  OBVIOUS
<1>3. /\ b.subject = e_r.subject /\ b.id = e_r.start.id /\ b.finished = e_r.finished
      /\ b.dated = e_r.dated
  BY <1>2 DEF Evidence!Block
<1>4. /\ e_store' = e_store \cup {b}
      /\ e_mixed' = IF e_r.switched THEN e_mixed \cup {b} ELSE e_mixed
  BY <1>2 DEF Evidence!publishGateFile
<1>5. BindFits /\ ScanFits /\ Evidence!TypeOK
  BY DEF EvidenceInv
<1>6. /\ e_r.subject \in DOMAIN e_commits /\ e_r.start.id \in Change
      /\ e_r.pass /\ e_r.start.clean
      /\ ~e_r.switched => /\ e_r.subject = e_r.start.head /\ e_r.dated < e_r.finished
                          /\ e_r.dated = e_commits[e_r.subject].dated
  BY <1>1, <1>5, StepNames DEF BindFits
<1>7. Passed(e_r.start, e_r.finished)
  BY <1>1, <1>5, <1>6, StepNames DEF ScanFits
<1>8. b \in Evidence!Blocks
  <2>1. e_r.subject \in Evidence!Hash
    BY <1>5, <1>6 DEF Evidence!TypeOK
  <2>2. e_r.finished \in 0..MaxTime /\ e_r.dated \in 0..MaxTime
    BY ReadingTyped
  <2> QED BY <1>2, <1>6, <2>1, <2>2 DEF Evidence!Block, Evidence!Blocks
<1>9. Evidence!TypeOK'
  BY <1>1, <1>4, <1>5, <1>8 DEF Evidence!TypeOK, Evidence!Hash
<1>10. Numbered' /\ LogsFit'
  BY <1>1 DEF EvidenceInv, Numbered, LogsFit, LogFits, Passed
<1>11. ~e_r.switched => Evidence!Tested(b)
  BY <1>3, <1>6, <1>7, ReadingTyped DEF Passed, Evidence!Tested, EvidenceParameters
<1>12. StoreFits'
  <2>1. \A block \in e_store \ e_mixed :
          block.subject \in DOMAIN e_commits /\ Evidence!Tested(block)
    BY DEF EvidenceInv, StoreFits
  <2>2. \A block : Evidence!Tested(block)' <=> Evidence!Tested(block)
    BY <1>1 DEF Evidence!Tested
  <2> QED BY <1>1, <1>3, <1>4, <1>6, <1>11, <2>1, <2>2 DEF StoreFits
<1> QED BY <1>1, <1>9, <1>10, <1>12, IdleFits DEF EvidenceInv

-----------------------------------------------------------------------------
\* No step of people, of the CI run or of the command breaks the invariant.
LEMMA EvidenceSteps ==
  ASSUME EvidenceParameters, EvidenceInv, [Evidence!Next]_(Evidence!vars) PROVE EvidenceInv'
<1>1. CASE Evidence!CI
  BY <1>1, StartRunKeeps, FinishRunKeeps, EndRunKeeps DEF Evidence!CI
<1>2. CASE Evidence!Command
  BY <1>2, SelectKeeps, ScanKeepsFits, BindKeeps, PublishKeepsEvidence DEF Evidence!Command
<1>3. CASE UNCHANGED Evidence!vars
  <2>1. UNCHANGED e_r /\ Evidence!CommandRest
    BY <1>3 DEF Evidence!vars, Evidence!CommandRest
  <2>2. (e_r \in Reading(e_r.base))' /\ ScanFits' /\ BindFits'
    BY <2>1 DEF Evidence!CommandRest, EvidenceInv, ScanFits, Passed, BindFits, Young, From
  <2> QED BY <2>1, <2>2, ReaderKeeps
<1> QED BY <1>1, <1>2, <1>3, PeopleStep DEF Evidence!Next

LEMMA EvidenceInvHolds ==
  ASSUME EvidenceInv PROVE Evidence!EvidenceHolds
<1>1. SUFFICES ASSUME NEW block \in e_store \ e_mixed, NEW c \in DOMAIN e_commits,
                      NEW quoted, quoted = [block EXCEPT !.subject = c],
                      Evidence!CheckGateEvidence(quoted) = "verified", quoted \notin e_mixed
               PROVE  Evidence!Tested(quoted)
  BY DEF EvidenceInv, Evidence!EvidenceHolds, Evidence!VerifiedIsTested
<1>2. quoted \in e_store
  BY <1>1 DEF Evidence!CheckGateEvidence, Evidence!Filed
<1> QED BY <1>1, <1>2 DEF EvidenceInv, StoreFits

\* A verified receipt names a tested commit: whatever people commit, amend,
\* integrate and check out and CI runs write while `task gate-evidence` reads the
\* log in pieces and git in separate calls (ScanCILog, bindGateEvidence,
\* verifyEvidenceReceipt).
THEOREM VerifiedIsTestedAlways == Evidence!Spec => []Evidence!EvidenceHolds
<1> USE EvidenceAssumption
<1>1. Evidence!Init => EvidenceInv
  BY EvidenceBegins
<1>2. EvidenceInv /\ [Evidence!Next]_(Evidence!vars) => EvidenceInv'
  BY EvidenceSteps
<1>3. EvidenceInv => Evidence!EvidenceHolds
  BY EvidenceInvHolds
<1> QED BY <1>1, <1>2, <1>3, PTL DEF Evidence!Spec

\* It is so in LooseProtocols too, where the other protocols rest
\* (bindGateEvidence, ScanCILog).
THEOREM EvidenceHoldsAlways == Behaviour => []EvidenceHolds
<1> USE EvidenceAssumption
<1>1. EvidenceInv => EvidenceHolds
  BY EvidenceInvHolds DEF EvidenceHolds
<1>2. Begins => EvidenceInv
  BY EvidenceBegins DEF Begins
<1>3. EvidenceInv /\ [Continues]_all => EvidenceInv'
  <2>1. evidence' = evidence => Evidence!vars' = Evidence!vars
    BY DEF evidence, Evidence!vars
  <2>2. [Continues]_all => [Evidence!Next]_(Evidence!vars)
    BY <2>1 DEF Continues, all
  <2> QED BY <2>2, EvidenceSteps
<1> QED BY <1>1, <1>2, <1>3, PTL DEF Behaviour

-----------------------------------------------------------------------------
(* The capture of a board (BoardCapture).  The conjuncts of CaptureInv say  *)
(* what each part of the reader's record is worth: the bound index, what   *)
(* the first observation met (FirstFits), the moment the second one began  *)
(* (ThenFits), what it has got so far (GotFits, QueueFits), the directory  *)
(* it is in (HeadFits) and what it checks at the end (EndFits).            *)

Fields ==
  {"at", "pass", "source", "bound", "listed", "fd", "depth", "ids", "queue", "before", "names",
   "child", "identity", "file", "data", "policy", "got", "first"}

\* A file system: a change time for each inode, a directory only at the board's "d".
Sound(nodes) ==
  /\ DOMAIN nodes \subseteq Nat /\ Capture!Root \in DOMAIN nodes
  /\ nodes[Capture!Root].kind = "dir"
  /\ \A i \in DOMAIN nodes :
       /\ DOMAIN nodes[i] = {"kind", "ctime", "data", "kids"}
       /\ nodes[i].kind \in {"file", "dir"} /\ nodes[i].ctime \in Nat
       /\ nodes[i].kind = "dir" => nodes[i].data = Capture!Some
       /\ \A n \in DOMAIN nodes[i].kids :
            /\ n \in Capture!Name
            /\ nodes[i].kids[n] \in DOMAIN nodes /\ nodes[i].kids[n] # Capture!Root
            /\ nodes[nodes[i].kids[n]].kind = "dir" => i = Capture!Root /\ n = "d"

Disk ==
  /\ Sound(c_node) /\ c_acts \in Nat
  /\ Capture!PolicyDir \in DOMAIN c_node
  /\ \A i \in DOMAIN c_node : i < Capture!FirstFree + c_acts /\ c_node[i].ctime <= c_acts
  /\ c_index.id \in 0..c_acts /\ IsFiniteSet(c_index.paths)
  /\ \A old \in c_index.former : old.id \in 0..c_acts /\ IsFiniteSet(old.paths)

Pair(id) == id \in Nat \X Nat

\* An identity that somebody had in these files, now or before.
Met(nodes, id) == Pair(id) /\ id[1] \in DOMAIN nodes /\ id[2] <= nodes[id[1]].ctime

\* The entry of a file as it stands there.
Genuine(entry, nodes) ==
  LET id == entry.identity
  IN  /\ Pair(id) /\ id[1] \in DOMAIN nodes /\ id[2] = nodes[id[1]].ctime
      /\ entry.kind = nodes[id[1]].kind /\ entry.data = nodes[id[1]].data

AtChild == c_r.at \in {"open", "read", "check", "restat"}
InListing == c_r.at = "stat" \/ AtChild
InDirectory == c_r.at \in {"before", "list"} \/ InListing

ReaderTyped ==
  /\ DOMAIN c_r = Fields /\ DOMAIN c_then = {"node", "paths", "policy", "swapped"}
  /\ c_then.swapped \in BOOLEAN
  /\ c_r.pass \in 0..2 /\ c_r.fd \in DOMAIN c_node /\ c_r.file \in DOMAIN c_node
  /\ c_r.source \in {"worktree", "index"}
  /\ Met(c_node, c_r.identity)
  /\ DOMAIN c_r.names \subseteq Capture!Name /\ c_r.child \in Capture!Name
  /\ IsFiniteSet(DOMAIN c_r.got) /\ IsFiniteSet(c_r.listed) /\ IsFiniteSet(DOMAIN c_r.first)
  /\ c_r.at \in {"read", "check"} =>
       c_r.file = c_r.identity[1] /\ c_node[c_r.file].kind = "file"
  /\ c_r.at = "check" /\ c_node[c_r.file].ctime = c_r.identity[2] =>
       c_r.data = c_node[c_r.file].data
  /\ c_r.pass = 0 \/ c_r.at \notin {"policy", "verify policy"}
  /\ c_r.pass = 0 => c_r.at \in {"policy", "stat", "open", "read", "check", "verify policy",
                                "restat", "failed"}
  /\ c_r.pass = 2 => c_r.at \notin {"bind", "listing"}

\* The first pass: the policy that will be bound is the one that was looked up.
PolicyFits ==
  /\ c_r.pass = 0 /\ c_r.at \notin {"policy", "failed"} =>
       /\ c_r.fd = Capture!PolicyDir
       /\ c_r.names = [n \in {"policy"} |-> "file"] /\ (c_r.at # "stat" => c_r.child = "policy")
  /\ c_r.pass = 0 /\ c_r.at \in {"open", "read", "check"} =>
       (c_node[c_r.identity[1]].ctime = c_r.identity[2] =>
          c_node[c_r.identity[1]].data = c_then.policy)
  /\ c_r.pass = 0 /\ c_r.at \in {"verify policy", "restat"} => c_r.data = c_then.policy
  /\ c_r.pass # 0 => c_r.policy = c_then.policy

IndexFits ==
  c_r.pass # 0 /\ c_r.at # "bind" /\ ~c_then.swapped =>
    /\ c_r.bound \in Nat /\ c_r.bound <= c_index.id
    /\ c_r.at \notin {"listing", "failed"} /\ c_r.bound = c_index.id => c_r.listed = c_index.paths

Second == c_r.pass = 2 /\ c_r.at # "root"

FirstFits ==
  /\ c_r.pass # 2 => \A p \in DOMAIN c_r.got : Met(c_node, c_r.got[p].identity)
  /\ c_r.pass = 2 /\ c_r.at = "root" =>
       \A p \in DOMAIN c_r.first : Met(c_node, c_r.first[p].identity)

\* What was there when the second observation began.
ThenFits ==
  /\ Sound(c_then.node)
  /\ \A i \in DOMAIN c_then.node :
       /\ i \in DOMAIN c_node /\ c_then.node[i].ctime <= c_node[i].ctime
       /\ c_then.node[i].ctime = c_node[i].ctime => c_then.node[i] = c_node[i]
  /\ \A p \in DOMAIN c_r.first : Met(c_then.node, c_r.first[p].identity)
  /\ ~c_then.swapped /\ c_r.bound = c_index.id => c_then.paths = c_index.paths

Top(n) == Append(<< >>, n)
Sub(n) == Append(<<"d">>, n)

\* What the second observation has got.
GotFits ==
  /\ \A p \in DOMAIN c_r.got :
       /\ p \in DOMAIN c_r.first /\ c_r.got[p] = c_r.first[p]
       /\ Genuine(c_r.got[p], c_then.node) /\ c_r.got[p].identity[1] # Capture!Root
       /\ \E n \in Capture!Name : p = Top(n) \/ p = Sub(n)
       /\ c_r.got[p].kind = "dir" => p = <<"d">>
  /\ << >> \in DOMAIN c_r.ids
  /\ c_r.ids[<< >>] = <<Capture!Root, c_then.node[Capture!Root].ctime>>

SubKnown == <<"d">> \in DOMAIN c_r.got /\ c_r.got[<<"d">>].kind = "dir"

\* The entries under a path are those of the directory i.
Complete(path, i) ==
  \A n \in Capture!Name :
    /\ Append(path, n) \in DOMAIN c_r.got <=> n \in DOMAIN c_then.node[i].kids
    /\ Append(path, n) \in DOMAIN c_r.got =>
         c_r.got[Append(path, n)].identity[1] = c_then.node[i].kids[n]

Untouched(path) == \A n \in Capture!Name : Append(path, n) \notin DOMAIN c_r.got

QueueFits ==
  /\ SubKnown => <<"d">> \in DOMAIN c_r.ids /\ c_r.ids[<<"d">>] = c_r.got[<<"d">>].identity
  /\ \/ c_r.queue = <<<< >>>> /\ ~SubKnown /\ Untouched(<<"d">>)
     \/ c_r.queue = <<<< >>, <<"d">>>> /\ SubKnown /\ Untouched(<<"d">>)
     \/ c_r.queue = <<<<"d">>>> /\ SubKnown /\ Complete(<< >>, Capture!Root)
     \/ c_r.queue = << >> /\ Complete(<< >>, Capture!Root)
        /\ (SubKnown => Complete(<<"d">>, c_r.ids[<<"d">>][1]))
        /\ (~SubKnown => Untouched(<<"d">>))

Here == Head(c_r.queue)
Dir == c_r.ids[Here][1]
Unmoved == c_node[Dir].ctime = c_r.ids[Here][2]

\* The directory being listed, as long as it is what it was.
HeadFits ==
  /\ c_r.at \in {"chain", "rechain"} \/ InDirectory => c_r.queue # << >>
  /\ c_r.at \in {"chain", "rechain"} => c_r.depth \in 0..Len(Here)
  /\ c_r.at \in {"chain", "before", "list"} \/ (c_r.at = "next" /\ c_r.queue # << >>) =>
       Untouched(Here)
  /\ InDirectory => c_r.fd = Dir
  /\ InListing => \A n \in DOMAIN c_r.names : Append(Here, n) \notin DOMAIN c_r.got
  /\ InListing /\ Unmoved =>
       \A n \in Capture!Name :
         /\ Append(Here, n) \in DOMAIN c_r.got =>
              /\ n \in DOMAIN c_then.node[Dir].kids
              /\ c_r.got[Append(Here, n)].identity[1] = c_then.node[Dir].kids[n]
         /\ n \in DOMAIN c_then.node[Dir].kids =>
              Append(Here, n) \in DOMAIN c_r.got \/ n \in DOMAIN c_r.names
  /\ AtChild => c_r.child \in DOMAIN c_r.names
  /\ AtChild /\ Unmoved =>
       /\ c_r.child \in DOMAIN c_then.node[Dir].kids
       /\ c_r.identity[1] = c_then.node[Dir].kids[c_r.child]
  /\ c_r.at = "rechain" /\ Unmoved => Complete(Here, Dir)
  /\ c_r.at = "restat" /\ Met(c_then.node, c_r.identity) =>
       Genuine([kind |-> "file", data |-> c_r.data, identity |-> c_r.identity], c_then.node)
  /\ c_r.at = "missing" => c_r.queue = << >>

EndFits ==
  /\ c_r.source = "worktree" /\ c_r.at \in {"relist", "rebind", "done"} =>
       c_r.pass = 2 /\ Capture!Captured = Capture!Tree(c_then.node)
  /\ c_r.at = "done" => c_r.bound = c_index.id

CaptureInv ==
  /\ Capture!TypeOK /\ Disk /\ ReaderTyped /\ PolicyFits /\ IndexFits /\ FirstFits /\ EndFits
  /\ Second => ThenFits /\ GotFits /\ QueueFits /\ HeadFits

\* What an act of others does, whichever it is.
Moved ==
  /\ c_acts' = c_acts + 1 /\ UNCHANGED <<c_r, c_then>> /\ c_r.at \notin {"done", "failed"}
  /\ c_acts' <= CaptureActs
  /\ Sound(c_node') /\ DOMAIN c_node \subseteq DOMAIN c_node'
  /\ \A i \in DOMAIN c_node :
       \/ c_node'[i] = c_node[i]
       \/ c_node'[i].ctime = c_acts + 1 /\ c_node'[i].kind = c_node[i].kind
  /\ \A i \in DOMAIN c_node' : i < Capture!FirstFree + c_acts' /\ c_node'[i].ctime <= c_acts'
  /\ \/ c_index' = c_index
     \/ /\ c_index'.id = c_acts + 1 /\ IsFiniteSet(c_index'.paths)
        /\ \A old \in c_index'.former : old.id \in 0..c_acts /\ IsFiniteSet(old.paths)

InodeFields == {"kind", "ctime", "data", "kids"}

\* An inode that another takes the place of in the files nodes.
InodeFits(nodes, i, inode) ==
  /\ DOMAIN inode = InodeFields /\ inode.ctime = c_acts + 1 /\ inode.kind \in {"file", "dir"}
  /\ inode.kind = "dir" => inode.data = Capture!Some
  /\ \A n \in DOMAIN inode.kids :
       /\ n \in Capture!Name /\ inode.kids[n] \in DOMAIN nodes /\ inode.kids[n] # Capture!Root
       /\ nodes[inode.kids[n]].kind = "dir" => i = Capture!Root /\ n = "d"

LEMMA Replaced ==
  ASSUME Disk, NEW nodes, Sound(nodes), NEW i \in DOMAIN nodes, NEW inode, InodeFits(nodes, i,
      inode),
         inode.kind = nodes[i].kind, NEW new, new = [nodes EXCEPT ![i] = inode]
  PROVE  /\ Sound(new) /\ DOMAIN new = DOMAIN nodes
         /\ \A j \in DOMAIN nodes : new[j].kind = nodes[j].kind
BY DEF Disk, Sound, InodeFits, InodeFields

LEMMA TouchedFits ==
  ASSUME Disk, NEW i \in DOMAIN c_node PROVE InodeFits(c_node, i, Capture!Touched(i)) /\
     Capture!Touched(i).kind = c_node[i].kind /\ Capture!Touched(i).kids = c_node[i].kids
BY DEF Disk, Sound, InodeFits, InodeFields, Capture!Touched

LEMMA EditMoves ==
  ASSUME CaptureParameters, CaptureInv, NEW i \in DOMAIN c_node, Capture!Edit(i) PROVE Moved
<1>1. Disk /\ Sound(c_node) /\ c_acts \in Nat /\ CaptureActs \in Nat
  BY DEF CaptureInv, Disk, CaptureParameters
<1>2. PICK inode : inode = Capture!File(c_acts + 1, IF c_node[i].data = Capture!Some
                                THEN Capture!Other ELSE Capture!Some)
  OBVIOUS
<1>3. InodeFits(c_node, i, inode) /\ inode.kind = "file"
  BY <1>1, <1>2 DEF InodeFits, InodeFields, Capture!File
<1>4. c_node[i].kind = "file" /\ c_node' = [c_node EXCEPT ![i] = inode] /\ c_index' = c_index
  BY <1>2 DEF Capture!Edit
<1>5. /\ Sound(c_node') /\ DOMAIN c_node' = DOMAIN c_node
      /\ \A j \in DOMAIN c_node : c_node'[j].kind = c_node[j].kind
  BY <1>1, <1>3, <1>4, Replaced
<1>6. inode.ctime = c_acts + 1
  BY <1>3 DEF InodeFits
<1>7. \A j \in DOMAIN c_node : c_node'[j] = c_node[j] \/ c_node'[j].ctime = c_acts + 1
  BY <1>4, <1>6
<1>8. /\ c_acts' = c_acts + 1 /\ UNCHANGED <<c_r, c_then>> /\ c_r.at \notin {"done", "failed"}
      /\ c_acts' <= CaptureActs
  BY <1>1 DEF Capture!Edit, Capture!Acts, Capture!Writes, CaptureInv, Capture!TypeOK
<1>9. \A j \in DOMAIN c_node' : j < Capture!FirstFree + c_acts' /\ c_node'[j].ctime <= c_acts'
  BY <1>1, <1>5, <1>7, <1>8 DEF Disk, Sound, Capture!FirstFree
<1> QED BY <1>4, <1>5, <1>7, <1>8, <1>9 DEF Moved

LEMMA AppearMoves ==
  ASSUME CaptureParameters, CaptureInv, NEW i \in DOMAIN c_node, NEW n \in Capture!Name, NEW new,
         DOMAIN new = InodeFields, new.ctime = c_acts + 1, new.kids = << >>,
         new.kind \in {"file", "dir"},
         new.kind = "dir" => new.data = Capture!Some /\ i = Capture!Root /\ n = "d",
         Capture!Appear(i, n, new)
  PROVE  Moved
<1>1. Disk /\ Sound(c_node) /\ c_acts \in Nat /\ CaptureActs \in Nat
  BY DEF CaptureInv, Disk, CaptureParameters
<1>2. PICK next : next = Capture!FirstFree + c_acts
  OBVIOUS
<1>3. next \in Nat /\ next \notin DOMAIN c_node /\ next # Capture!Root
  BY <1>1, <1>2 DEF Disk, Sound, Capture!FirstFree, Capture!Root
<1>4. PICK whole : whole = [j \in DOMAIN c_node \cup {next} |-> IF j =
    next THEN new ELSE c_node[j]]
  OBVIOUS
<1>5. Sound(whole)
  BY <1>1, <1>3, <1>4 DEF Sound, InodeFields
<1>6. PICK inode : inode = [Capture!Touched(i) EXCEPT !.kids = Capture!Put(Capture!Kids(i), n,
    next)]
  OBVIOUS
<1>7. InodeFits(whole, i, inode) /\ inode.kind = c_node[i].kind
  <2>1. /\ DOMAIN inode = InodeFields /\ inode.ctime = c_acts + 1 /\ inode.kind = c_node[i].kind
        /\ inode.data = c_node[i].data
        /\ inode.kids = [m \in DOMAIN c_node[i].kids \cup {n} |-> IF m = n THEN next
                                                              ELSE c_node[i].kids[m]]
    BY <1>1, <1>6 DEF Sound, Capture!Touched, Capture!Put, Capture!Kids, InodeFields
  <2>2. whole[next] = new /\ next \in DOMAIN whole
    BY <1>4
  <2>3. \A j \in DOMAIN c_node : whole[j] = c_node[j] /\ j \in DOMAIN whole
    BY <1>3, <1>4
  <2>4. /\ inode.kind \in {"file", "dir"} /\ (inode.kind = "dir" => inode.data = Capture!Some)
        /\ \A m \in DOMAIN c_node[i].kids :
            /\ m \in Capture!Name
            /\ c_node[i].kids[m] \in DOMAIN c_node /\ c_node[i].kids[m] # Capture!Root
            /\ c_node[c_node[i].kids[m]].kind = "dir" => i = Capture!Root /\ m = "d"
    BY <1>1, <2>1 DEF Sound
  <2>5. ASSUME NEW m \in DOMAIN inode.kids
        PROVE  /\ m \in Capture!Name /\ inode.kids[m] \in DOMAIN whole
               /\ inode.kids[m] # Capture!Root
               /\ whole[inode.kids[m]].kind = "dir" => i = Capture!Root /\ m = "d"
    <3>1. CASE m = n
      BY <1>3, <2>1, <2>2, <3>1
    <3>2. CASE m # n
      BY <2>1, <2>3, <2>4, <3>2
    <3> QED BY <3>1, <3>2
  <2> QED BY <2>1, <2>4, <2>5 DEF InodeFits
<1>8. c_node' = [whole EXCEPT ![i] = inode]
  <2>1. c_node' = Capture!Put([c_node EXCEPT ![i] = inode], next, new)
    BY <1>2, <1>6 DEF Capture!Appear
  <2> QED BY <1>3, <1>4, <2>1 DEF Capture!Put
<1>9. i \in DOMAIN whole /\ whole[i] = c_node[i] /\ DOMAIN whole = DOMAIN c_node \cup {next}
  BY <1>3, <1>4
<1>10. /\ Sound(c_node') /\ DOMAIN c_node' = DOMAIN whole
       /\ \A j \in DOMAIN whole : c_node'[j].kind = whole[j].kind
  BY <1>1, <1>5, <1>7, <1>8, <1>9, Replaced
<1>11. inode.ctime = c_acts + 1
  BY <1>7 DEF InodeFits
<1>12. \A j \in DOMAIN c_node : /\ c_node'[j] = c_node[j] \/ c_node'[j].ctime = c_acts + 1
                                /\ c_node'[j].kind = c_node[j].kind
  BY <1>3, <1>4, <1>8, <1>9, <1>10, <1>11
<1>13. c_node'[next].ctime = c_acts + 1
  BY <1>3, <1>4, <1>8
<1>14. /\ c_acts' = c_acts + 1 /\ UNCHANGED <<c_r, c_then>> /\ c_r.at \notin {"done", "failed"}
      /\ c_acts' <= CaptureActs /\ c_index' = c_index
  BY <1>1 DEF Capture!Appear, Capture!Acts, Capture!Writes, CaptureInv, Capture!TypeOK
<1>15. \A j \in DOMAIN c_node' : j < Capture!FirstFree + c_acts' /\ c_node'[j].ctime <= c_acts'
  <2>1. \A j \in DOMAIN c_node : /\ j \in Nat /\ j < Capture!FirstFree + c_acts
                                /\ c_node[j].ctime \in Nat /\ c_node[j].ctime <= c_acts
    BY <1>1 DEF Disk, Sound
  <2>2. ASSUME NEW j \in DOMAIN c_node
        PROVE  j < Capture!FirstFree + c_acts' /\ c_node'[j].ctime <= c_acts'
    BY <1>1, <1>12, <1>14, <2>1 DEF Capture!FirstFree
  <2>3. next < Capture!FirstFree + c_acts' /\ c_node'[next].ctime <= c_acts'
    BY <1>1, <1>2, <1>13, <1>14 DEF Capture!FirstFree
  <2> QED BY <1>9, <1>10, <2>2, <2>3
<1> QED BY <1>9, <1>10, <1>12, <1>14, <1>15 DEF Moved

LEMMA DirectoryFits ==
  ASSUME Disk, NEW i \in DOMAIN c_node, NEW kids,
         \A m \in DOMAIN kids :
            /\ m \in Capture!Name /\ kids[m] \in DOMAIN c_node /\ kids[m] # Capture!Root
            /\ c_node[kids[m]].kind = "dir" => i = Capture!Root /\ m = "d"
  PROVE  LET inode == [Capture!Touched(i) EXCEPT !.kids = kids]
         IN  InodeFits(c_node, i, inode) /\ inode.kind = c_node[i].kind
<1>1. InodeFits(c_node, i, Capture!Touched(i)) /\ Capture!Touched(i).kind = c_node[i].kind
  BY TouchedFits
<1> QED BY <1>1 DEF InodeFits, InodeFields

\* A directory gets other entries and an inode is touched.
LEMMA RenameMoves ==
  ASSUME CaptureParameters, CaptureInv, NEW i \in DOMAIN c_node, NEW k \in DOMAIN c_node,
         NEW inode, InodeFits(c_node, i, inode), inode.kind = c_node[i].kind,
         NEW touched, InodeFits(c_node, k, touched), touched.kind = c_node[k].kind,
         Capture!Acts, c_index' = c_index,
         c_node' = [c_node EXCEPT ![i] = inode, ![k] = touched]
  PROVE  Moved
<1>1. Disk /\ Sound(c_node) /\ c_acts \in Nat /\ CaptureActs \in Nat
  BY DEF CaptureInv, Disk, CaptureParameters
<1>4. PICK half : half = [c_node EXCEPT ![i] = inode]
  OBVIOUS
<1>5. /\ Sound(half) /\ DOMAIN half = DOMAIN c_node
      /\ \A j \in DOMAIN c_node : half[j].kind = c_node[j].kind
  BY <1>1, <1>4, Replaced
<1>6. InodeFits(half, k, touched) /\ touched.kind = half[k].kind
  BY <1>5 DEF InodeFits
<1>7. c_node' = [half EXCEPT ![k] = touched]
  BY <1>4
<1>8. /\ Sound(c_node') /\ DOMAIN c_node' = DOMAIN c_node
      /\ \A j \in DOMAIN c_node : c_node'[j].kind = c_node[j].kind
  <2>1. /\ Sound(c_node') /\ DOMAIN c_node' = DOMAIN half
        /\ \A j \in DOMAIN half : c_node'[j].kind = half[j].kind
    <3>1. k \in DOMAIN half
      BY <1>5
    <3>3. InodeFits(half, k, touched) /\ touched.kind = half[k].kind
      BY <1>6
    <3>4. c_node' = [half EXCEPT ![k] = touched]
      BY <1>7
    <3>5. PICK new : new = c_node'
      OBVIOUS
    <3>6. new = [half EXCEPT ![k] = touched]
      BY <3>4, <3>5
    <3>7. /\ Sound(new) /\ DOMAIN new = DOMAIN half
          /\ \A j \in DOMAIN half : new[j].kind = half[j].kind
      BY <1>1, <1>5, <3>1, <3>3, <3>6, Replaced
    <3> QED BY <3>5, <3>7
  <2> QED BY <1>5, <2>1
<1>9. inode.ctime = c_acts + 1 /\ touched.ctime = c_acts + 1
  BY DEF InodeFits
<1>10. \A j \in DOMAIN c_node : c_node'[j] = c_node[j] \/ c_node'[j].ctime = c_acts + 1
  BY <1>4, <1>7, <1>9
<1>11. /\ c_acts' = c_acts + 1 /\ UNCHANGED <<c_r, c_then>> /\ c_r.at \notin {"done", "failed"}
       /\ c_acts' <= CaptureActs
  BY <1>1 DEF Capture!Acts, Capture!Writes, CaptureInv, Capture!TypeOK
<1>12. \A j \in DOMAIN c_node' : j < Capture!FirstFree + c_acts' /\ c_node'[j].ctime <= c_acts'
  BY <1>1, <1>8, <1>10, <1>11 DEF Disk, Sound, Capture!FirstFree
<1> QED BY <1>8, <1>10, <1>11, <1>12 DEF Moved

LEMMA VanishMoves ==
  ASSUME CaptureParameters, CaptureInv, NEW i \in DOMAIN c_node, NEW n, Capture!Vanish(i, n)
  PROVE Moved
<1>1. Sound(c_node)
  BY DEF CaptureInv, Disk
<1>2. PICK kids : kids = Capture!Drop(Capture!Kids(i), n)
  OBVIOUS
<1>3. /\ Capture!Acts /\ c_index' = c_index /\ n \in DOMAIN c_node[i].kids
      /\ c_node' = [c_node EXCEPT ![i] = [Capture!Touched(i) EXCEPT !.kids = kids],
                                  ![c_node[i].kids[n]] = Capture!Touched(c_node[i].kids[n])]
  BY <1>2 DEF Capture!Vanish, Capture!Kids
<1>4. \A m \in DOMAIN kids : m \in DOMAIN c_node[i].kids /\ kids[m] = c_node[i].kids[m]
  BY <1>2 DEF Capture!Drop, Capture!Kids
<1>5. \A m \in DOMAIN kids :
            /\ m \in Capture!Name /\ kids[m] \in DOMAIN c_node /\ kids[m] # Capture!Root
            /\ c_node[kids[m]].kind = "dir" => i = Capture!Root /\ m = "d"
  BY <1>1, <1>4 DEF Sound
<1>6. c_node[i].kids[n] \in DOMAIN c_node
  BY <1>1, <1>3 DEF Sound
<1>7. PICK inode, touched : /\ inode = [Capture!Touched(i) EXCEPT !.kids = kids]
                            /\ touched = Capture!Touched(c_node[i].kids[n])
  OBVIOUS
<1>8. c_node' = [c_node EXCEPT ![i] = inode, ![c_node[i].kids[n]] = touched]
  BY <1>3, <1>7
<1>9. InodeFits(c_node, i, inode) /\ inode.kind = c_node[i].kind
  BY <1>5, <1>7, DirectoryFits DEF CaptureInv
<1>10. InodeFits(c_node, c_node[i].kids[n], touched)
    /\ touched.kind = c_node[c_node[i].kids[n]].kind
  BY <1>6, <1>7, TouchedFits DEF CaptureInv
<1> QED BY <1>3, <1>6, <1>8, <1>9, <1>10, RenameMoves

LEMMA ReturnMoves ==
  ASSUME CaptureParameters, CaptureInv, NEW i \in DOMAIN c_node, NEW n \in {"b", "d"},
         NEW old \in DOMAIN c_node \ {Capture!Root, Capture!PolicyDir}, Capture!Return(i, n, old)
  PROVE  Moved
<1>1. Sound(c_node)
  BY DEF CaptureInv, Disk
<1>2. PICK kids : kids = Capture!Put(Capture!Kids(i), n, old)
  OBVIOUS
<1>3. /\ Capture!Acts /\ c_index' = c_index
      /\ (c_node[old].kind = "dir") = (n = "d") /\ (n = "d" => i = Capture!Root)
      /\ c_node' = [c_node EXCEPT ![i] = [Capture!Touched(i) EXCEPT !.kids = kids],
                                  ![old] = Capture!Touched(old)]
  BY <1>2 DEF Capture!Return, Capture!IsDir
<1>4. \A m \in DOMAIN kids : \/ m = n /\ kids[m] = old
                             \/ m \in DOMAIN c_node[i].kids /\ kids[m] = c_node[i].kids[m]
  BY <1>2 DEF Capture!Put, Capture!Kids
<1>5. \A m \in DOMAIN kids :
            /\ m \in Capture!Name /\ kids[m] \in DOMAIN c_node /\ kids[m] # Capture!Root
            /\ c_node[kids[m]].kind = "dir" => i = Capture!Root /\ m = "d"
  <2> TAKE m \in DOMAIN kids
  <2>1. CASE m = n /\ kids[m] = old
    <3>1. c_node[old].kind = "dir" => n = "d"
      BY <1>3
    <3> QED BY <1>3, <2>1, <3>1 DEF Capture!Name
  <2>2. CASE m \in DOMAIN c_node[i].kids /\ kids[m] = c_node[i].kids[m]
    BY <1>1, <2>2 DEF Sound
  <2>3. \/ m = n /\ kids[m] = old
        \/ m \in DOMAIN c_node[i].kids /\ kids[m] = c_node[i].kids[m]
    BY <1>4
  <2> QED BY <2>1, <2>2, <2>3
<1>6. old \in DOMAIN c_node
  OBVIOUS
<1>7. PICK inode, touched : /\ inode = [Capture!Touched(i) EXCEPT !.kids = kids]
                            /\ touched = Capture!Touched(old)
  OBVIOUS
<1>8. c_node' = [c_node EXCEPT ![i] = inode, ![old] = touched]
  BY <1>3, <1>7
<1>9. InodeFits(c_node, i, inode) /\ inode.kind = c_node[i].kind
  BY <1>5, <1>7, DirectoryFits DEF CaptureInv
<1>10. InodeFits(c_node, old, touched) /\ touched.kind = c_node[old].kind
  BY <1>6, <1>7, TouchedFits DEF CaptureInv
<1>11. Capture!Acts /\ c_index' = c_index
  BY <1>3
<1> QED BY <1>6, <1>8, <1>9, <1>10, <1>11, RenameMoves

LEMMA StageMoves ==
  ASSUME CaptureParameters, CaptureInv, NEW paths, IsFiniteSet(paths),
      Capture!StageInIndex(paths) PROVE Moved
<1>1. Disk /\ Sound(c_node) /\ c_acts \in Nat /\ CaptureActs \in Nat
  BY DEF CaptureInv, Disk, CaptureParameters
<1>2. /\ c_acts' = c_acts + 1 /\ UNCHANGED <<c_r, c_then>> /\ c_r.at \notin {"done", "failed"}
      /\ c_acts' <= CaptureActs /\ c_node' = c_node
  BY <1>1 DEF Capture!StageInIndex, Capture!Acts, Capture!Writes, CaptureInv, Capture!TypeOK
<1>3. /\ c_index'.id = c_acts + 1 /\ c_index'.paths = paths
      /\ c_index'.former = c_index.former \cup {Capture!Index}
  BY DEF Capture!StageInIndex
<1>5. \A old \in c_index'.former : old.id \in 0..c_acts /\ IsFiniteSet(old.paths)
  <2>1. Capture!Index.id = c_index.id /\ Capture!Index.paths = c_index.paths
    BY DEF Capture!Index
  <2> QED BY <1>1, <1>3, <2>1 DEF Disk
<1>4. \A j \in DOMAIN c_node' : j < Capture!FirstFree + c_acts' /\ c_node'[j].ctime <= c_acts'
  BY <1>1, <1>2 DEF Disk, Sound, Capture!FirstFree
<1> QED BY <1>1, <1>2, <1>3, <1>4, <1>5 DEF Moved

LEMMA WriteMoves ==
  ASSUME CaptureParameters, CaptureInv, Capture!Write,
         ~\E old \in c_index.former : Capture!PutIndexBack(old)
  PROVE  Moved
<1>1. Disk /\ Capture!Root \in DOMAIN c_node /\ Capture!PolicyDir \in DOMAIN c_node
    /\ c_acts \in Nat
  BY DEF CaptureInv, Disk, Sound
<1>2. ASSUME NEW x PROVE LET new == Capture!File(c_acts + 1, x)
                         IN  /\ DOMAIN new = InodeFields /\ new.ctime = c_acts + 1
                             /\ new.kids = << >> /\ new.kind = "file"
  BY DEF Capture!File, InodeFields
<1>3. LET new == Capture!Dir(c_acts + 1, << >>)
      IN  /\ DOMAIN new = InodeFields /\ new.ctime = c_acts + 1 /\ new.kids = << >>
          /\ new.kind = "dir" /\ new.data = Capture!Some
  BY DEF Capture!Dir, InodeFields
<1>4. "b" \in Capture!Name /\ "d" \in Capture!Name /\ "policy" \in Capture!Name
  BY DEF Capture!Name
<1>5. CASE \E i \in DOMAIN c_node : Capture!Edit(i)
  BY <1>5, EditMoves
<1>6. CASE \E i \in {Capture!Root, Capture!PolicyDir}, n \in {"b", "policy"}, x \in CaptureData :
             Capture!Appear(i, n, Capture!File(c_acts + 1, x))
  <2>1. PICK i \in {Capture!Root, Capture!PolicyDir}, n \in {"b", "policy"}, x \in CaptureData :
             Capture!Appear(i, n, Capture!File(c_acts + 1, x))
    BY <1>6
  <2>2. PICK new : new = Capture!File(c_acts + 1, x)
    OBVIOUS
  <2>3. /\ DOMAIN new = InodeFields /\ new.ctime = c_acts + 1
        /\ new.kids = << >> /\ new.kind = "file"
    BY <1>2, <2>2
  <2>4. i \in DOMAIN c_node /\ n \in Capture!Name /\ Capture!Appear(i, n, new)
    BY <1>1, <1>4, <2>1, <2>2
  <2> QED BY <2>3, <2>4, AppearMoves
<1>7. CASE \E i \in DOMAIN c_node \ {Capture!Root, Capture!PolicyDir} :
             Capture!Appear(i, "b", Capture!File(c_acts + 1, Capture!Some))
  <2>1. PICK i \in DOMAIN c_node : Capture!Appear(i, "b", Capture!File(c_acts + 1, Capture!Some))
    BY <1>7
  <2>2. PICK new : new = Capture!File(c_acts + 1, Capture!Some)
    OBVIOUS
  <2>3. /\ DOMAIN new = InodeFields /\ new.ctime = c_acts + 1
        /\ new.kids = << >> /\ new.kind = "file"
    BY <1>2, <2>2
  <2> QED BY <1>4, <2>1, <2>2, <2>3, AppearMoves
<1>8. CASE Capture!Appear(Capture!Root, "d", Capture!Dir(c_acts + 1, << >>))
  <2>2. PICK new : new = Capture!Dir(c_acts + 1, << >>)
    OBVIOUS
  <2>3. /\ DOMAIN new = InodeFields /\ new.ctime = c_acts + 1
        /\ new.kids = << >> /\ new.kind = "dir" /\ new.data = Capture!Some
    BY <1>3, <2>2
  <2> QED BY <1>1, <1>4, <1>8, <2>2, <2>3, AppearMoves
<1>9. CASE \E i \in DOMAIN c_node, n \in Capture!Name : Capture!Vanish(i, n)
  BY <1>9, VanishMoves
<1>10. CASE \E i \in DOMAIN c_node, n \in {"b", "d"},
              old \in DOMAIN c_node \ {Capture!Root, Capture!PolicyDir} : Capture!Return(i, n,
                  old)
  BY <1>10, ReturnMoves
<1>11. CASE \E paths \in {{<<"a">>}, {<<"a">>, <<"d", "b">>}} : Capture!StageInIndex(paths)
  <2>1. IsFiniteSet({<<"a">>}) /\ IsFiniteSet({<<"a">>, <<"d", "b">>})
    <3>1. IsFiniteSet({}) /\ IsFiniteSet({<<"a">>})
      BY FS_EmptySet, FS_Singleton
    <3>2. {<<"a">>, <<"d", "b">>} = {<<"a">>} \cup {<<"d", "b">>}
      OBVIOUS
    <3> QED BY <3>1, <3>2, FS_AddElement
  <2> QED BY <1>11, <2>1, StageMoves
<1> QED BY <1>5, <1>6, <1>7, <1>8, <1>9, <1>10, <1>11 DEF Capture!Write

LEMMA MetStays ==
  ASSUME Disk, Moved, NEW id, Met(c_node, id) PROVE Met(c_node, id)'
<1>1. id[1] \in DOMAIN c_node /\ id[1] \in DOMAIN c_node' /\ id[2] <= c_node[id[1]].ctime
    /\ Pair(id)
  BY DEF Met, Moved
<1>2. id[2] \in Nat /\ c_node[id[1]].ctime \in Nat /\ c_node[id[1]].ctime <= c_acts
    /\ c_acts \in Nat
  BY <1>1 DEF Disk, Sound, Pair
<1>3. c_node'[id[1]] = c_node[id[1]] \/ c_node'[id[1]].ctime = c_acts + 1
  BY <1>1 DEF Moved
<1>4. id[2] <= c_node'[id[1]].ctime
  BY <1>1, <1>2, <1>3
<1> QED BY <1>1, <1>4 DEF Met

\* An inode that still has the time of an identity is what it was.
LEMMA SameTimeSame ==
  ASSUME Disk, Moved, NEW i \in DOMAIN c_node, c_node'[i].ctime <= c_node[i].ctime
  PROVE  c_node'[i] = c_node[i]
<1>1. c_node[i].ctime \in Nat /\ c_node[i].ctime <= c_acts /\ c_acts \in Nat
  BY DEF Disk, Sound
<1>2. c_node'[i] = c_node[i] \/ c_node'[i].ctime = c_acts + 1
  BY DEF Moved
<1> QED BY <1>1, <1>2

\* The directory at the head of the queue is the one of the second observation.
LEMMA HereKnown ==
  ASSUME Sound(c_then.node), ThenFits, GotFits, QueueFits, c_r.queue # << >>
  PROVE  /\ Here \in {<< >>, <<"d">>} /\ Dir \in DOMAIN c_then.node /\ Dir \in DOMAIN c_node
         /\ c_r.ids[Here] = <<Dir, c_then.node[Dir].ctime>>
         /\ c_then.node[Dir].ctime <= c_node[Dir].ctime
         /\ Unmoved => c_node[Dir] = c_then.node[Dir]
         /\ Here = << >> => Dir = Capture!Root
         /\ Here = <<"d">> => Dir # Capture!Root
<1>1. /\ Head(<<<< >>>>) = << >> /\ Head(<<<< >>, <<"d">>>>) = << >>
         /\ Head(<<<<"d">>>>) = <<"d">>
  OBVIOUS
<1>2. \/ Here = << >>
      \/ Here = <<"d">> /\ SubKnown
  BY <1>1 DEF Here, QueueFits
<1>3. CASE Here = << >>
  <2>1. /\ c_r.ids[Here] = <<Capture!Root, c_then.node[Capture!Root].ctime>> /\ Dir = Capture!Root
    BY <1>3 DEF GotFits, Dir
  <2>2. << >> # <<"d">>
    OBVIOUS
  <2> QED BY <1>3, <2>1, <2>2 DEF Sound, ThenFits, Unmoved, Capture!Root
<1>4. CASE Here = <<"d">> /\ SubKnown
  <2>1. c_r.ids[Here] = c_r.got[<<"d">>].identity /\ <<"d">> \in DOMAIN c_r.got
    BY <1>4 DEF QueueFits, SubKnown
  <2>2. /\ Genuine(c_r.got[<<"d">>], c_then.node) /\ c_r.got[<<"d">>].identity[1] # Capture!Root
    BY <2>1 DEF GotFits
  <2>3. PICK id : id = c_r.got[<<"d">>].identity
    OBVIOUS
  <2>4. /\ id \in Nat \X Nat /\ id[1] \in DOMAIN c_then.node /\ id[2] = c_then.node[id[1]].ctime
        /\ id[1] # Capture!Root /\ Dir = id[1]
    BY <2>1, <2>2, <2>3 DEF Genuine, Pair, Dir
  <2>5. id = <<id[1], id[2]>>
    BY <2>4
  <2>6. << >> # <<"d">>
    OBVIOUS
  <2>7. /\ id[1] \in DOMAIN c_node /\ c_then.node[id[1]].ctime <= c_node[id[1]].ctime
        /\ c_then.node[id[1]].ctime = c_node[id[1]].ctime => c_then.node[id[1]] = c_node[id[1]]
    BY <2>4 DEF ThenFits
  <2>8. Unmoved => c_node[Dir].ctime = id[2]
    BY <2>1, <2>3 DEF Unmoved
  <2> QED BY <1>4, <2>1, <2>3, <2>4, <2>5, <2>6, <2>7, <2>8
<1> QED BY <1>2, <1>3, <1>4

LEMMA MovedKeeps ==
  ASSUME CaptureParameters, CaptureInv, Moved PROVE CaptureInv'
<1>1. /\ c_acts' = c_acts + 1 /\ c_acts \in Nat /\ c_r' = c_r /\ c_then' = c_then
      /\ c_r.at \notin {"done", "failed"} /\ DOMAIN c_node \subseteq DOMAIN c_node'
      /\ Disk /\ Sound(c_node) /\ Sound(c_node')
  BY DEF Moved, CaptureInv, Disk
<1>2. Disk'
  BY <1>1 DEF Disk, Moved
<1>3. Capture!TypeOK'
  <2>1. c_acts' \in 0..CaptureActs
    BY <1>1 DEF Moved, CaptureParameters
  <2>2. \A i \in DOMAIN c_node' : \A n \in DOMAIN c_node'[i].kids :
         c_node'[i].kids[n] \in DOMAIN c_node'
    BY <1>1 DEF Sound
  <2> QED BY <1>1, <2>1, <2>2 DEF Capture!TypeOK, Capture!Kids, CaptureInv
<1>4. ASSUME NEW i \in DOMAIN c_node PROVE c_node'[i].kind = c_node[i].kind
  BY <1>4 DEF Moved
<1>5. ASSUME NEW id, Met(c_node, id) PROVE Met(c_node', id) /\
             (c_node'[id[1]].ctime = id[2] => c_node'[id[1]] = c_node[id[1]])
  <2>1. Met(c_node', id)
    BY <1>1, <1>5, MetStays DEF Met, Pair
  <2>2. id[1] \in DOMAIN c_node /\ id[2] <= c_node[id[1]].ctime
    BY <1>5 DEF Met
  <2>3. c_node'[id[1]].ctime = id[2] => c_node'[id[1]] = c_node[id[1]]
    BY <1>1, <2>2, SameTimeSame
  <2> QED BY <2>1, <2>3
<1>6. ReaderTyped'
  <2>1. ReaderTyped
    BY DEF CaptureInv
  <2>2. Met(c_node', c_r.identity) /\
             (c_node'[c_r.identity[1]].ctime = c_r.identity[2] =>
                c_node'[c_r.identity[1]] = c_node[c_r.identity[1]])
    BY <1>5, <2>1 DEF ReaderTyped
  <2>3. c_r.fd \in DOMAIN c_node' /\ c_r.file \in DOMAIN c_node'
    BY <1>1, <2>1 DEF ReaderTyped
  <2>4. c_r.at \in {"read", "check"} =>
       c_r.file = c_r.identity[1] /\ c_node'[c_r.file].kind = "file"
    BY <1>4, <2>1 DEF ReaderTyped
  <2>5. c_r.at = "check" /\ c_node'[c_r.file].ctime = c_r.identity[2] =>
       c_r.data = c_node'[c_r.file].data
    BY <2>1, <2>2 DEF ReaderTyped
  <2> QED BY <1>1, <2>1, <2>2, <2>3, <2>4, <2>5 DEF ReaderTyped
<1>7. PolicyFits'
  <2>1. Met(c_node, c_r.identity)
    BY DEF CaptureInv, ReaderTyped
  <2>2. c_node'[c_r.identity[1]].ctime = c_r.identity[2] =>
           c_node'[c_r.identity[1]] = c_node[c_r.identity[1]]
    BY <1>5, <2>1
  <2> QED BY <1>1, <2>2 DEF PolicyFits, CaptureInv
<1>8. c_index' = c_index \/ c_index'.id > c_index.id
  BY <1>1 DEF Moved, Disk
<1>9. IndexFits'
  <2>1. IndexFits /\ c_index.id \in Nat /\ c_index'.id \in Nat
    BY <1>1, <1>2 DEF Disk, CaptureInv
  <2> QED BY <1>1, <1>8, <2>1 DEF IndexFits
<1>10. FirstFits'
  BY <1>1, <1>5 DEF FirstFits, CaptureInv
<1>11. EndFits'
  BY <1>1 DEF EndFits, CaptureInv, Capture!Captured
<1>12. ASSUME Second PROVE ThenFits' /\ GotFits' /\ QueueFits' /\ HeadFits'
  <2>1. ThenFits /\ GotFits /\ QueueFits /\ HeadFits /\ IndexFits /\ Sound(c_then.node)
    BY <1>12 DEF CaptureInv, ThenFits
  <2>2. ThenFits'
    <3>1. ASSUME NEW i \in DOMAIN c_then.node
          PROVE  /\ i \in DOMAIN c_node' /\ c_then.node[i].ctime <= c_node'[i].ctime
                 /\ c_then.node[i].ctime = c_node'[i].ctime => c_then.node[i] = c_node'[i]
      <4>1. /\ i \in DOMAIN c_node /\ c_then.node[i].ctime <= c_node[i].ctime
            /\ c_then.node[i].ctime = c_node[i].ctime => c_then.node[i] = c_node[i]
        BY <2>1 DEF ThenFits
      <4>2. c_then.node[i].ctime \in Nat /\ c_node[i].ctime \in Nat /\ c_node[i].ctime <= c_acts
        BY <1>1, <2>1, <4>1 DEF Disk, Sound
      <4>3. c_node'[i] = c_node[i] \/ c_node'[i].ctime = c_acts + 1
        BY <4>1 DEF Moved
      <4> QED BY <1>1, <4>1, <4>2, <4>3
    <3>2. ~c_then.swapped /\ c_r.bound = c_index'.id => c_then.paths = c_index'.paths
      <4> SUFFICES ASSUME ~c_then.swapped
                   PROVE  c_r.bound = c_index'.id => c_then.paths = c_index'.paths
        OBVIOUS
      <4>1. c_r.bound \in Nat /\ c_r.bound <= c_index.id /\ c_index.id \in Nat
            /\ c_index'.id \in Nat
        <5>1. c_r.pass # 0 /\ c_r.at # "bind"
          <6>1. c_r.pass = 2 => c_r.at \notin {"bind", "listing"}
            BY DEF ReaderTyped, CaptureInv
          <6> QED BY <1>12, <6>1 DEF Second
        <5> QED BY <1>1, <1>2, <2>1, <5>1 DEF Disk, IndexFits
      <4> QED BY <1>8, <2>1, <4>1 DEF ThenFits
    <3> QED BY <1>1, <2>1, <3>1, <3>2 DEF ThenFits
  <2>3. GotFits' /\ QueueFits'
    BY <1>1, <2>1 DEF GotFits, QueueFits, SubKnown, Untouched, Complete
  <2>4. HeadFits'
    <3>1. c_r.queue # << >> => (Unmoved' => Unmoved)
      <4>1. SUFFICES ASSUME c_r.queue # << >>, Unmoved' PROVE Unmoved
        OBVIOUS
      <4>2. /\ Dir \in DOMAIN c_node /\ c_r.ids[Here] = <<Dir, c_then.node[Dir].ctime>>
            /\ c_then.node[Dir].ctime <= c_node[Dir].ctime
        BY <2>1, <4>1, HereKnown
      <4>3. c_node'[Dir].ctime = c_then.node[Dir].ctime
        BY <1>1, <4>1, <4>2 DEF Unmoved, Here, Dir
      <4>4. c_node'[Dir] = c_node[Dir]
        BY <1>1, <4>2, <4>3, SameTimeSame
      <4> QED BY <4>2, <4>3, <4>4 DEF Unmoved
    <3>2. Here' = Here /\ Dir' = Dir
      BY <1>1 DEF Here, Dir
    <3> QED BY <1>1, <2>1, <3>1, <3>2 DEF HeadFits, InListing, AtChild, InDirectory, Untouched,
        Complete
  <2> QED BY <2>2, <2>3, <2>4
<1> QED BY <1>1, <1>2, <1>3, <1>6, <1>7, <1>9, <1>10, <1>11, <1>12 DEF CaptureInv, Second

\* An index put back takes from the reader what it knows of the index, no more.
LEMMA PutBackKeeps ==
  ASSUME CaptureParameters, CaptureInv, NEW old \in c_index.former,
         Capture!PutIndexBack(old)
  PROVE  CaptureInv'
<1>1. /\ c_acts' = c_acts + 1 /\ c_acts \in Nat /\ CaptureActs \in Nat /\ c_acts' <= CaptureActs
      /\ c_r' = c_r /\ c_node' = c_node /\ c_r.at \notin {"done", "failed"}
      /\ Disk /\ Sound(c_node) /\ ReaderTyped
  BY DEF Capture!PutIndexBack, Capture!Writes, CaptureInv, Capture!TypeOK, Disk,
         CaptureParameters
<1>2. /\ DOMAIN c_then' = DOMAIN c_then /\ c_then'.node = c_then.node
      /\ c_then'.policy = c_then.policy /\ c_then'.swapped \in BOOLEAN
      /\ c_r.pass # 0 => c_then'.swapped = TRUE
  <2>1. c_then' = [c_then EXCEPT !.swapped = IF c_r.pass > 0 THEN TRUE ELSE @]
    BY DEF Capture!PutIndexBack
  <2>2. c_then.swapped \in BOOLEAN
    BY <1>1 DEF ReaderTyped
  <2>3. c_r.pass # 0 => c_r.pass > 0
    BY DEF CaptureInv, Capture!TypeOK
  <2>4. DOMAIN c_then = {"node", "paths", "policy", "swapped"}
    BY <1>1 DEF ReaderTyped
  <2> QED BY <2>1, <2>2, <2>3, <2>4
<1>3. Disk'
  <2>1. /\ c_index'.id = old.id /\ c_index'.paths = old.paths
        /\ c_index'.former = c_index.former \cup {Capture!Index}
    BY DEF Capture!PutIndexBack
  <2>2. Capture!Index.id = c_index.id /\ Capture!Index.paths = c_index.paths
    BY DEF Capture!Index
  <2>3. \A i \in DOMAIN c_node : i < Capture!FirstFree + c_acts' /\ c_node[i].ctime <= c_acts'
    BY <1>1 DEF Disk, Sound, Capture!FirstFree
  <2>4. c_acts' \in Nat /\ 0..c_acts \subseteq 0..c_acts'
    BY <1>1
  <2> QED BY <1>1, <2>1, <2>2, <2>3, <2>4 DEF Disk
<1>4. Capture!TypeOK'
  <2>1. c_acts' \in 0..CaptureActs
    BY <1>1
  <2> QED BY <1>1, <2>1 DEF Capture!TypeOK, Capture!Kids, CaptureInv
<1>5. ReaderTyped'
  BY <1>1, <1>2 DEF ReaderTyped, Met
<1>6. PolicyFits' /\ FirstFits' /\ EndFits'
  <2>1. Capture!Captured' = Capture!Captured
    BY <1>1 DEF Capture!Captured
  <2>2. EndFits'
    BY <1>1, <1>2, <2>1 DEF EndFits, CaptureInv
  <2> QED BY <1>1, <1>2, <2>2 DEF PolicyFits, FirstFits, Met, CaptureInv
<1>7. IndexFits'
  BY <1>1, <1>2 DEF IndexFits
<1>8. ASSUME Second PROVE (ThenFits /\ GotFits /\ QueueFits /\ HeadFits)'
  <2>1. ThenFits /\ GotFits /\ QueueFits /\ HeadFits /\ c_r.pass # 0
    BY <1>8 DEF CaptureInv, Second
  <2>2. ThenFits'
    <3>1. c_then'.swapped = TRUE
      BY <1>2, <2>1
    <3>2. \A p \in DOMAIN c_r.first : Met(c_then'.node, c_r.first[p].identity)
      BY <1>2, <2>1 DEF ThenFits
    <3> QED BY <1>1, <1>2, <2>1, <3>1, <3>2 DEF ThenFits
  <2>3. GotFits' /\ QueueFits'
    <3>1. GotFits'
      BY <1>1, <1>2, <2>1 DEF GotFits, Genuine
    <3>2. \A path : Untouched(path)' <=> Untouched(path)
      BY <1>1 DEF Untouched
    <3>3. \A path, i : Complete(path, i)' <=> Complete(path, i)
      BY <1>1, <1>2 DEF Complete
    <3>4. Complete(<< >>, Capture!Root)' <=> Complete(<< >>, Capture!Root)
      BY <3>3
    <3>5. Complete(<<"d">>, c_r.ids[<<"d">>][1])' <=> Complete(<<"d">>, c_r.ids[<<"d">>][1])
      BY <1>1, <1>2 DEF Complete
    <3>6. Untouched(<<"d">>)' <=> Untouched(<<"d">>)
      BY <3>2
    <3> QED BY <1>1, <2>1, <3>1, <3>4, <3>5, <3>6 DEF QueueFits, SubKnown
  <2>4. HeadFits'
    <3>1. Here' = Here /\ Dir' = Dir
      BY <1>1 DEF Here, Dir
    <3>2. Untouched(Here)' <=> Untouched(Here)
      BY <1>1, <3>1 DEF Untouched
    <3>3. Complete(Here, Dir)' <=> Complete(Here, Dir)
      BY <1>1, <1>2, <3>1 DEF Complete
    <3>4. Unmoved' <=> Unmoved
      BY <1>1, <1>2, <3>1 DEF Unmoved
    <3> QED BY <1>1, <1>2, <2>1, <3>1, <3>2, <3>3, <3>4
         DEF HeadFits, InListing, AtChild, InDirectory, Met, Genuine
  <2> QED BY <2>2, <2>3, <2>4
<1> QED BY <1>1, <1>3, <1>4, <1>5, <1>6, <1>7, <1>8 DEF CaptureInv, Second

DiskRests == UNCHANGED <<c_node, c_index, c_acts>>

LEMMA ReadKeeps ==
  ASSUME CaptureInv, DiskRests, ReaderTyped', PolicyFits', IndexFits', FirstFits', EndFits',
         Second' => (ThenFits /\ GotFits /\ QueueFits /\ HeadFits)'
  PROVE  CaptureInv'
<1>1. Disk'
  BY DEF Disk, DiskRests, CaptureInv
<1>2. Capture!TypeOK'
  <2>1. Capture!TypeOK /\ c_node' = c_node /\ c_acts' = c_acts
    BY DEF CaptureInv, DiskRests
  <2>2. c_r'.pass \in 0..2 /\ c_r'.fd \in DOMAIN c_node' /\ c_r'.file \in DOMAIN c_node'
    BY DEF ReaderTyped
  <2> QED BY <2>1, <2>2 DEF Capture!TypeOK, Capture!Kids
<1> QED BY <1>1, <1>2 DEF CaptureInv

LEMMA GotStays ==
  ASSUME GotFits, QueueFits, c_then' = c_then, c_r'.got = c_r.got, c_r'.ids = c_r.ids,
         c_r'.queue = c_r.queue, c_r'.first = c_r.first
  PROVE  GotFits' /\ QueueFits'
<1>1. GotFits'
  BY DEF GotFits, Genuine
<1>2. SubKnown' <=> SubKnown
  BY DEF SubKnown
<1>3. ASSUME NEW path PROVE Untouched(path)' <=> Untouched(path)
  BY DEF Untouched
<1>4. ASSUME NEW path, NEW i PROVE Complete(path, i)' <=> Complete(path, i)
  BY DEF Complete
<1>5. Untouched(<<"d">>)' <=> Untouched(<<"d">>)
  BY <1>3
<1>6. Complete(<< >>, Capture!Root)' <=> Complete(<< >>, Capture!Root)
  BY <1>4
<1>7. Complete(<<"d">>, c_r.ids[<<"d">>][1])' <=> Complete(<<"d">>, c_r.ids[<<"d">>][1])
  BY DEF Complete
<1> QED BY <1>1, <1>2, <1>5, <1>6, <1>7 DEF QueueFits

\* While the policy is read.
LEMMA EarlyKeeps ==
  ASSUME CaptureInv, DiskRests, c_r.pass = 0, c_r'.pass = 0, c_r'.got = c_r.got,
         c_r'.at \notin {"relist", "rebind", "done"}, ReaderTyped', PolicyFits'
  PROVE  CaptureInv'
<1>1. IndexFits' /\ EndFits' /\ ~Second'
  BY DEF IndexFits, EndFits, Second
<1>2. FirstFits'
  BY DEF FirstFits, CaptureInv, DiskRests, Met
<1> QED BY <1>1, <1>2, ReadKeeps

Walk == {"chain", "rechain", "next", "before", "list", "stat", "open", "read", "check", "restat",
         "missing"}

\* While the board is walked.
LEMMA WalkKeeps ==
  ASSUME CaptureInv, DiskRests, c_then' = c_then, c_r.pass # 0, c_r'.pass = c_r.pass,
         c_r.at \in Walk, c_r'.at \in Walk,
         c_r'.first = c_r.first, c_r'.bound = c_r.bound, c_r'.listed = c_r.listed,
         c_r'.policy = c_r.policy, ReaderTyped',
         c_r.pass = 1 => \A p \in DOMAIN c_r'.got : Met(c_node, c_r'.got[p].identity),
         Second => (GotFits /\ QueueFits /\ HeadFits)'
  PROVE  CaptureInv'
<1>1. PolicyFits'
  BY DEF PolicyFits, CaptureInv
<1>2. IndexFits'
  BY DEF IndexFits, CaptureInv, DiskRests, Walk
<1>3. FirstFits'
  <2>1. c_r.pass \in 0..2
    BY DEF CaptureInv, ReaderTyped
  <2>2. c_r'.pass # 2 => c_r.pass = 1
    BY <2>1
  <2>3. c_r'.at # "root"
    BY DEF Walk
  <2> QED BY <2>2, <2>3 DEF FirstFits, DiskRests, Met
<1>4. EndFits'
  BY DEF EndFits, Walk
<1>5. Second' => Second /\ ThenFits'
  <2>1. Second' => Second
    BY DEF Second, Walk
  <2>2. Second => ThenFits
    BY DEF CaptureInv
  <2>3. ThenFits => ThenFits'
    BY DEF ThenFits, DiskRests
  <2> QED BY <2>1, <2>2, <2>3
<1> QED BY <1>1, <1>2, <1>3, <1>4, <1>5, ReadKeeps

\* ... without a new entry.
LEMMA GlanceKeeps ==
  ASSUME CaptureInv, DiskRests, c_then' = c_then, c_r.pass # 0, c_r'.pass = c_r.pass,
         c_r.at \in Walk, c_r'.at \in Walk,
         c_r'.first = c_r.first, c_r'.bound = c_r.bound, c_r'.listed = c_r.listed,
         c_r'.policy = c_r.policy, c_r'.got = c_r.got, c_r'.ids = c_r.ids, c_r'.queue = c_r.queue,
         ReaderTyped', Second => HeadFits'
  PROVE  CaptureInv'
<1>1. c_r.pass = 1 => \A p \in DOMAIN c_r'.got : Met(c_node, c_r'.got[p].identity)
  BY DEF CaptureInv, FirstFits
<1>2. Second => GotFits' /\ QueueFits'
  BY GotStays DEF CaptureInv
<1> QED BY <1>1, <1>2, WalkKeeps

LEMMA FailKeeps ==
  ASSUME CaptureInv, DiskRests, c_then' = c_then, Capture!Fails, c_r.at \notin {"bind", "root",
      "listing"}
  PROVE  CaptureInv'
<1>1. /\ DOMAIN c_r' = Fields /\ c_r'.at = "failed" /\ c_r'.pass = c_r.pass /\ c_r'.fd = c_r.fd
      /\ c_r'.file = c_r.file /\ c_r'.source = c_r.source /\ c_r'.identity = c_r.identity
      /\ c_r'.names = c_r.names /\ c_r'.child = c_r.child /\ c_r'.got = c_r.got
      /\ c_r'.listed = c_r.listed /\ c_r'.first = c_r.first /\ c_r'.bound = c_r.bound
      /\ c_r'.policy = c_r.policy /\ c_r'.ids = c_r.ids /\ c_r'.queue = c_r.queue
  BY DEF CaptureInv, ReaderTyped, Fields, Capture!Fails
<1>2. ReaderTyped'
  BY <1>1 DEF CaptureInv, ReaderTyped, DiskRests, Met
<1>3. PolicyFits'
  BY <1>1 DEF PolicyFits, CaptureInv
<1>4. IndexFits'
  BY <1>1 DEF IndexFits, CaptureInv, DiskRests
<1>5. FirstFits'
  BY <1>1 DEF FirstFits, CaptureInv, DiskRests, Met
<1>6. EndFits'
  BY <1>1 DEF EndFits
<1>7. Second' => Second /\ ThenFits' /\ GotFits' /\ QueueFits'
  <2>1. Second' => Second
    BY <1>1 DEF Second
  <2>2. Second => ThenFits /\ GotFits /\ QueueFits
    BY DEF CaptureInv
  <2>3. ThenFits => ThenFits'
    BY <1>1 DEF ThenFits, DiskRests
  <2>4. GotFits /\ QueueFits => GotFits' /\ QueueFits'
    BY <1>1, GotStays
  <2> QED BY <2>1, <2>2, <2>3, <2>4
<1>8. HeadFits'
  BY <1>1 DEF HeadFits, InDirectory, InListing, AtChild
<1> QED BY <1>2, <1>3, <1>4, <1>5, <1>6, <1>7, <1>8, ReadKeeps

LEMMA OpenPolicyKeeps ==
  ASSUME CaptureInv, Capture!OpenPolicyDir PROVE CaptureInv'
<1>1. c_r.at = "policy" /\ DiskRests /\ c_then' = c_then /\ ReaderTyped
  BY DEF Capture!OpenPolicyDir, Capture!At, Capture!Reads, DiskRests, CaptureInv
<1>2. c_r.pass = 0
  BY <1>1 DEF ReaderTyped
<1>3. /\ DOMAIN c_r' = Fields /\ c_r'.at = "stat" /\ c_r'.pass = c_r.pass
      /\ c_r'.fd = Capture!PolicyDir
      /\ c_r'.file = c_r.file /\ c_r'.source = c_r.source /\ c_r'.identity = c_r.identity
      /\ c_r'.names = [n \in {"policy"} |-> "file"] /\ c_r'.child = c_r.child
         /\ c_r'.got = c_r.got
      /\ c_r'.listed = c_r.listed /\ c_r'.first = c_r.first
  BY <1>1 DEF ReaderTyped, Fields, Capture!OpenPolicyDir
<1>4. ReaderTyped'
  <2>1. Capture!PolicyDir \in DOMAIN c_node /\ DOMAIN c_r'.names \subseteq Capture!Name
    BY <1>3 DEF CaptureInv, Disk, Capture!Name
  <2> QED BY <1>1, <1>2, <1>3, <2>1 DEF ReaderTyped, DiskRests, Met
<1>5. PolicyFits'
  BY <1>2, <1>3 DEF PolicyFits
<1> QED BY <1>1, <1>2, <1>3, <1>4, <1>5, EarlyKeeps

LEMMA VerifyPolicyKeeps ==
  ASSUME CaptureInv, Capture!VerifyPolicyPath PROVE CaptureInv'
<1>1. c_r.at = "verify policy" /\ DiskRests /\ c_then' = c_then /\ ReaderTyped
  BY DEF Capture!VerifyPolicyPath, Capture!At, Capture!Reads, DiskRests, CaptureInv
<1>2. c_r.pass = 0
  BY <1>1 DEF ReaderTyped
<1>3. CASE Capture!Fails
  BY <1>1, <1>3, FailKeeps
<1>4. CASE Capture!Goes("restat")
  <2>1. /\ DOMAIN c_r' = Fields /\ c_r'.at = "restat" /\ c_r'.pass = c_r.pass
        /\ c_r'.fd = c_r.fd /\ c_r'.data = c_r.data
        /\ c_r'.file = c_r.file /\ c_r'.source = c_r.source /\ c_r'.identity = c_r.identity
        /\ c_r'.names = c_r.names /\ c_r'.child = c_r.child /\ c_r'.got = c_r.got
        /\ c_r'.listed = c_r.listed /\ c_r'.first = c_r.first
    BY <1>1, <1>4 DEF ReaderTyped, Fields, Capture!Goes
  <2>2. ReaderTyped'
    BY <1>1, <1>2, <2>1 DEF ReaderTyped, DiskRests, Met
  <2>3. PolicyFits'
    BY <1>1, <1>2, <2>1 DEF PolicyFits, CaptureInv
  <2> QED BY <1>1, <1>2, <2>1, <2>2, <2>3, EarlyKeeps
<1> QED BY <1>3, <1>4 DEF Capture!VerifyPolicyPath

LEMMA BindIndexKeeps ==
  ASSUME CaptureInv, Capture!Bind PROVE CaptureInv'
<1>1. c_r.at = "bind" /\ DiskRests /\ c_then' = c_then /\ ReaderTyped
  BY DEF Capture!Bind, Capture!At, Capture!Reads, DiskRests, CaptureInv
<1>2. c_r.pass = 1
  BY <1>1 DEF ReaderTyped
<1>3. /\ DOMAIN c_r' = Fields /\ c_r'.at = "listing" /\ c_r'.pass = c_r.pass
      /\ c_r'.fd = c_r.fd /\ c_r'.data = c_r.data /\ c_r'.policy = c_r.policy
      /\ c_r'.file = c_r.file /\ c_r'.source = c_r.source /\ c_r'.identity = c_r.identity
      /\ c_r'.names = c_r.names /\ c_r'.child = c_r.child /\ c_r'.got = c_r.got
      /\ c_r'.listed = c_r.listed /\ c_r'.first = c_r.first /\ c_r'.bound = c_index.id
  BY <1>1 DEF ReaderTyped, Fields, Capture!Bind
<1>4. ReaderTyped'
  BY <1>1, <1>2, <1>3 DEF ReaderTyped, DiskRests, Met
<1>5. PolicyFits' /\ EndFits' /\ ~Second'
  BY <1>1, <1>2, <1>3 DEF PolicyFits, EndFits, Second, CaptureInv
<1>6. IndexFits'
  <2>1. c_index.id \in Nat
    BY DEF CaptureInv, Disk
  <2> QED BY <1>1, <1>3, <2>1 DEF IndexFits, DiskRests
<1>7. FirstFits'
  BY <1>1, <1>2, <1>3 DEF FirstFits, CaptureInv, DiskRests, Met
<1> QED BY <1>1, <1>4, <1>5, <1>6, <1>7, ReadKeeps

LEMMA ListIndexKeeps ==
  ASSUME CaptureInv, Capture!ListIndex PROVE CaptureInv'
<1>1. c_r.at = "listing" /\ DiskRests /\ c_then' = c_then /\ ReaderTyped
  BY DEF Capture!ListIndex, Capture!At, Capture!Reads, DiskRests, CaptureInv
<1>2. c_r.pass = 1
  BY <1>1 DEF ReaderTyped
<1>3. /\ DOMAIN c_r' = Fields /\ c_r'.pass = c_r.pass
      /\ c_r'.at = IF c_r.source = "index" THEN "relist" ELSE "root"
      /\ c_r'.fd = c_r.fd /\ c_r'.data = c_r.data /\ c_r'.policy = c_r.policy
      /\ c_r'.file = c_r.file /\ c_r'.source = c_r.source /\ c_r'.identity = c_r.identity
      /\ c_r'.names = c_r.names /\ c_r'.child = c_r.child /\ c_r'.got = c_r.got
      /\ c_r'.listed = c_index.paths /\ c_r'.first = c_r.first /\ c_r'.bound = c_r.bound
  BY <1>1 DEF ReaderTyped, Fields, Capture!ListIndex
<1>4. ReaderTyped'
  <2>1. IsFiniteSet(c_index.paths)
    BY DEF CaptureInv, Disk
  <2>2. c_r'.at \in {"relist", "root"}
    BY <1>3
  <2> QED BY <1>1, <1>2, <1>3, <2>1, <2>2 DEF ReaderTyped, DiskRests, Met
<1>5. PolicyFits' /\ EndFits' /\ ~Second'
  BY <1>1, <1>2, <1>3 DEF PolicyFits, EndFits, Second, CaptureInv
<1>6. IndexFits'
  <2>1. ~c_then.swapped => c_r.bound \in Nat /\ c_r.bound <= c_index.id
    BY <1>1, <1>2 DEF CaptureInv, IndexFits
  <2> QED BY <1>1, <1>3, <2>1 DEF IndexFits, DiskRests
<1>7. FirstFits'
  BY <1>1, <1>2, <1>3 DEF FirstFits, CaptureInv, DiskRests, Met
<1> QED BY <1>1, <1>4, <1>5, <1>6, <1>7, ReadKeeps

LEMMA Queues ==
  /\ Head(<<<< >>>>) = << >> /\ Tail(<<<< >>>>) = << >>
  /\ Head(<<<< >>, <<"d">>>>) = << >> /\ Tail(<<<< >>, <<"d">>>>) = <<<<"d">>>>
  /\ Head(<<<<"d">>>>) = <<"d">> /\ Tail(<<<<"d">>>>) = << >>
  /\ <<<< >>>> # << >> /\ <<<< >>, <<"d">>>> # << >> /\ <<<<"d">>>> # << >> /\ << >> # <<"d">>
<1>1. Head(<<<< >>>>) = << >> /\ Tail(<<<< >>>>) = << >>
  OBVIOUS
<1>2. Head(<<<< >>, <<"d">>>>) = << >>
  OBVIOUS
<1>3. Tail(<<<< >>, <<"d">>>>) = <<<<"d">>>>
  OBVIOUS
<1>4. Head(<<<<"d">>>>) = <<"d">> /\ Tail(<<<<"d">>>>) = << >>
  OBVIOUS
<1>5. Len(<<<< >>>>) = 1 /\ Len(<<<< >>, <<"d">>>>) = 2 /\ Len(<<<<"d">>>>) = 1
    /\ Len(<<"d">>) = 1
      /\ Len(<< >>) = 0
  OBVIOUS
<1> QED BY <1>1, <1>2, <1>3, <1>4, <1>5

LEMMA Whole ==
  /\ SubSeq(<<"d">>, 1, 1) = <<"d">> /\ SubSeq(<< >>, 1, 0) = << >>
  /\ Len(<< >>) = 0 /\ Len(<<"d">>) = 1
<1>1. <<"d">> \in Seq({"d"}) /\ Len(<<"d">>) = 1 /\ <<"d">>[1] = "d"
  OBVIOUS
<1>2. SubSeq(<<"d">>, 1, 1) \in Seq({"d"}) /\ Len(SubSeq(<<"d">>, 1, 1)) = 1
  BY <1>1
<1>3. SubSeq(<<"d">>, 1, 1)[1] = "d"
  BY <1>1
<1>4. \A i \in 1..Len(SubSeq(<<"d">>, 1, 1)) : SubSeq(<<"d">>, 1, 1)[i] = <<"d">>[i]
  <2> TAKE i \in 1..Len(SubSeq(<<"d">>, 1, 1))
  <2>1. i = 1
    BY <1>2
  <2> QED BY <2>1, <1>1, <1>3
<1>5. SubSeq(<<"d">>, 1, 1) = <<"d">>
  BY <1>1, <1>2, <1>4, SeqEqual
<1>6. SubSeq(<< >>, 1, 0) = << >>
  OBVIOUS
<1>7. Len(<< >>) = 0
  OBVIOUS
<1> QED BY <1>1, <1>5, <1>6, <1>7

LEMMA BeginPassKeeps ==
  ASSUME CaptureInv, Capture!BeginPass PROVE CaptureInv'
<1>1. /\ c_r.at = "root" /\ DiskRests /\ ReaderTyped /\ Disk /\ Sound(c_node)
      /\ c_r.pass \in {1, 2}
  BY DEF Capture!BeginPass, Capture!At, DiskRests, CaptureInv, Disk, ReaderTyped
<1>2. /\ DOMAIN c_r' = Fields /\ c_r'.at = "chain" /\ c_r'.pass = c_r.pass
      /\ c_r'.fd = Capture!Root /\ c_r'.data = c_r.data /\ c_r'.policy = c_r.policy
      /\ c_r'.file = c_r.file /\ c_r'.source = c_r.source /\ c_r'.identity = c_r.identity
      /\ c_r'.names = c_r.names /\ c_r'.child = c_r.child /\ c_r'.got = << >>
      /\ c_r'.listed = c_r.listed /\ c_r'.first = c_r.first /\ c_r'.bound = c_r.bound
      /\ c_r'.depth = 0 /\ c_r'.ids = [p \in {<< >>} |-> Capture!Identity(Capture!Root)]
      /\ c_r'.queue = <<<< >>>>
  BY <1>1 DEF ReaderTyped, Fields, Capture!BeginPass
<1>3. /\ DOMAIN c_then' = DOMAIN c_then /\ c_then'.policy = c_then.policy
      /\ c_then'.swapped = c_then.swapped
      /\ c_r.pass = 2 => c_then'.node = c_node /\ c_then'.paths = c_index.paths
  BY <1>1 DEF ReaderTyped, Capture!BeginPass
<1>4. DOMAIN << >> = {} /\ IsFiniteSet({})
  BY FS_EmptySet
<1>5. Capture!Root \in DOMAIN c_node
  BY <1>1 DEF Sound
<1>6. ReaderTyped'
  BY <1>1, <1>2, <1>3, <1>4, <1>5 DEF ReaderTyped, DiskRests, Met
<1>7. PolicyFits' /\ EndFits'
  BY <1>1, <1>2, <1>3 DEF PolicyFits, EndFits, CaptureInv
<1>8. IndexFits'
  BY <1>1, <1>2, <1>3 DEF IndexFits, DiskRests, CaptureInv
<1>9. FirstFits'
  BY <1>1, <1>2, <1>4 DEF FirstFits
<1>10. ASSUME c_r.pass = 2 PROVE (ThenFits /\ GotFits /\ QueueFits /\ HeadFits)'
  <2>1. ThenFits'
    <3>1. \A p \in DOMAIN c_r.first : Met(c_node, c_r.first[p].identity)
      BY <1>1, <1>10 DEF CaptureInv, FirstFits
    <3>2. \A i \in DOMAIN c_node : c_node[i].ctime \in Nat
      BY <1>1 DEF Sound
    <3> QED BY <1>1, <1>2, <1>3, <1>10, <3>1, <3>2 DEF ThenFits, DiskRests
  <2>2. GotFits'
    <3>1. /\ << >> \in DOMAIN c_r'.ids
          /\ c_r'.ids[<< >>] = <<Capture!Root, c_node[Capture!Root].ctime>>
      BY <1>2 DEF Capture!Identity
    <3> QED BY <1>2, <1>3, <1>4, <1>10, <3>1 DEF GotFits
  <2>3. ~SubKnown' /\ \A path : Untouched(path)'
    BY <1>2, <1>4 DEF SubKnown, Untouched
  <2>4. QueueFits'
    BY <1>2, <2>3 DEF QueueFits
  <2>5. HeadFits'
    <3>1. Here' = << >> /\ <<<< >>>> # << >> /\ 0 \in 0..Len(<< >>)
      BY <1>2, Queues DEF Here
    <3>2. ~InDirectory' /\ ~InListing' /\ ~AtChild'
      BY <1>2 DEF InDirectory, InListing, AtChild
    <3>3. Untouched(Here)'
      BY <1>2, <1>4 DEF Untouched
    <3> QED BY <1>2, <3>1, <3>2, <3>3 DEF HeadFits
  <2> QED BY <2>1, <2>2, <2>4, <2>5
<1> QED BY <1>1, <1>2, <1>6, <1>7, <1>8, <1>9, <1>10, ReadKeeps DEF Second

\* The next directory of a queue that fits.
LEMMA NextInQueue ==
  ASSUME GotFits, QueueFits, c_r.queue # << >>, Complete(Here, Dir), c_then' = c_then,
         c_r'.queue = Tail(c_r.queue), c_r'.got = c_r.got, c_r'.ids = c_r.ids
  PROVE  QueueFits' /\ (c_r'.queue # << >> => Untouched(Here)')
<1>1. SubKnown' <=> SubKnown
  BY DEF SubKnown
<1>2. ASSUME NEW path PROVE Untouched(path)' <=> Untouched(path)
  BY DEF Untouched
<1>3. Complete(<< >>, Capture!Root)' <=> Complete(<< >>, Capture!Root)
  BY DEF Complete
<1>4. Complete(<<"d">>, c_r.ids[<<"d">>][1])' <=> Complete(<<"d">>, c_r.ids[<<"d">>][1])
  BY DEF Complete
<1>5. SubKnown => <<"d">> \in DOMAIN c_r.ids /\ c_r.ids[<<"d">>] = c_r.got[<<"d">>].identity
  BY DEF QueueFits
<1>6. c_r.ids[<< >>][1] = Capture!Root
  BY DEF GotFits
<1>7. CASE c_r.queue = <<<< >>>> /\ ~SubKnown /\ Untouched(<<"d">>)
  <2>1. Here = << >> /\ c_r'.queue = << >>
    BY <1>7, Queues DEF Here
  <2>2. Complete(<< >>, Capture!Root)
    BY <1>6, <2>1 DEF Dir
  <2> QED BY <1>1, <1>2, <1>3, <1>7, <2>1, <2>2 DEF QueueFits
<1>8. CASE c_r.queue = <<<< >>, <<"d">>>> /\ SubKnown /\ Untouched(<<"d">>)
  <2>1. Here = << >> /\ c_r'.queue = <<<<"d">>>> /\ Here' = <<"d">>
    BY <1>8, Queues DEF Here
  <2>2. Complete(<< >>, Capture!Root)
    BY <1>6, <2>1 DEF Dir
  <2>3. Untouched(Here)'
    BY <1>8, <2>1 DEF Untouched
  <2>4. SubKnown' => (<<"d">> \in DOMAIN c_r.ids /\ c_r.ids[<<"d">>] = c_r.got[<<"d">>].identity)'
    BY <1>1, <1>5
  <2> QED BY <1>1, <1>3, <1>8, <2>1, <2>2, <2>3, <2>4 DEF QueueFits
<1>9. CASE c_r.queue = <<<<"d">>>> /\ SubKnown /\ Complete(<< >>, Capture!Root)
  <2>1. Here = <<"d">> /\ c_r'.queue = << >>
    BY <1>9, Queues DEF Here
  <2>2. Complete(<<"d">>, c_r.ids[<<"d">>][1])
    BY <2>1 DEF Dir
  <2>4. SubKnown' => (<<"d">> \in DOMAIN c_r.ids /\ c_r.ids[<<"d">>] = c_r.got[<<"d">>].identity)'
    BY <1>1, <1>5
  <2>5. c_r'.ids[<<"d">>][1] = c_r.ids[<<"d">>][1]
    OBVIOUS
  <2> QED BY <1>1, <1>3, <1>4, <1>9, <2>1, <2>2, <2>4, <2>5 DEF QueueFits
<1> QED BY <1>7, <1>8, <1>9 DEF QueueFits

LEMMA ChainKeeps ==
  ASSUME CaptureInv, Capture!Chain PROVE CaptureInv'
<1>1. /\ c_r.at \in {"chain", "rechain"} /\ c_r.at \in Walk
      /\ DiskRests /\ c_then' = c_then /\ ReaderTyped /\ Disk
      /\ Sound(c_node) /\ c_r.pass # 0 /\ c_r.fd \in DOMAIN c_node
  BY DEF Capture!Chain, Capture!Reads, DiskRests, CaptureInv, Disk, ReaderTyped, Walk
<1>2. CASE Capture!Fails
  BY <1>1, <1>2, FailKeeps
<1>3. Second => /\ ThenFits /\ GotFits /\ QueueFits /\ HeadFits /\ c_r.queue # << >>
    /\ Sound(c_then.node)
                /\ Here \in {<< >>, <<"d">>} /\ c_r.ids[Here] = <<Dir, c_then.node[Dir].ctime>>
                /\ Dir \in DOMAIN c_node
  <2>1. Second => ThenFits /\ GotFits /\ QueueFits /\ HeadFits /\ c_r.queue # << >>
    BY <1>1 DEF CaptureInv, HeadFits
  <2> QED BY <2>1, HereKnown DEF ThenFits
<1>4. ASSUME Second, SubSeq(Here, 1, c_r.depth) = Here,
             Capture!Identity(c_r.fd) = c_r.ids[SubSeq(Here, 1, c_r.depth)]
      PROVE  c_r.fd = Dir /\ Unmoved
  <2>1. <<c_r.fd, c_node[c_r.fd].ctime>> = c_r.ids[Here]
    BY <1>4 DEF Capture!Identity
  <2>2. <<c_r.fd, c_node[c_r.fd].ctime>> = <<Dir, c_then.node[Dir].ctime>>
    BY <1>3, <1>4, <2>1
  <2>3. c_r.fd = Dir
    BY <2>2
  <2>4. c_r.ids[Here][2] = c_node[c_r.fd].ctime
    BY <2>1
  <2> QED BY <2>3, <2>4 DEF Unmoved
<1>5. c_r.depth = Len(Here) /\ Second => SubSeq(Here, 1, c_r.depth) = Here
  BY <1>3, Whole
<1>6. CASE /\ Capture!Identity(c_r.fd) = c_r.ids[SubSeq(Here, 1, c_r.depth)]
              /\ c_r.depth = Len(Here)
           /\ c_r.at = "chain" /\ Capture!Goes("before")
  <2>1. /\ DOMAIN c_r' = Fields /\ c_r'.at = "before" /\ c_r'.pass = c_r.pass
      /\ c_r'.fd = c_r.fd /\ c_r'.data = c_r.data /\ c_r'.policy = c_r.policy
      /\ c_r'.file = c_r.file /\ c_r'.source = c_r.source /\ c_r'.identity = c_r.identity
      /\ c_r'.names = c_r.names /\ c_r'.child = c_r.child /\ c_r'.got = c_r.got
      /\ c_r'.listed = c_r.listed /\ c_r'.first = c_r.first /\ c_r'.bound = c_r.bound
      /\ c_r'.ids = c_r.ids /\ c_r'.queue = c_r.queue
    BY <1>1, <1>6 DEF ReaderTyped, Fields, Capture!Goes
  <2>2. ReaderTyped'
    BY <1>1, <2>1 DEF ReaderTyped, DiskRests, Met
  <2>3. Second => HeadFits'
    <3> HAVE Second
    <3>1. Here' = Here /\ Dir' = Dir /\ (Untouched(Here) => Untouched(Here)')
      BY <2>1 DEF Here, Dir, Untouched
    <3>2. c_r.fd = Dir
      BY <1>4, <1>5, <1>6
    <3>3. Untouched(Here)' /\ c_r.queue # << >>
      BY <1>3, <1>6, <3>1 DEF HeadFits
    <3> QED BY <2>1, <3>1, <3>2, <3>3 DEF HeadFits, InDirectory, InListing, AtChild
  <2>4. c_r'.at \in Walk
    BY <2>1 DEF Walk
  <2> QED BY <1>1, <2>1, <2>2, <2>3, <2>4, GlanceKeeps
<1>7. CASE /\ Capture!Identity(c_r.fd) = c_r.ids[SubSeq(Here, 1, c_r.depth)]
              /\ c_r.depth = Len(Here)
           /\ c_r.at = "rechain" /\ c_r' = [c_r EXCEPT !.at = "next", !.queue = Tail(@)]
  <2>1. /\ DOMAIN c_r' = Fields /\ c_r'.at = "next" /\ c_r'.pass = c_r.pass
      /\ c_r'.fd = c_r.fd /\ c_r'.data = c_r.data /\ c_r'.policy = c_r.policy
      /\ c_r'.file = c_r.file /\ c_r'.source = c_r.source /\ c_r'.identity = c_r.identity
      /\ c_r'.names = c_r.names /\ c_r'.child = c_r.child /\ c_r'.got = c_r.got
      /\ c_r'.listed = c_r.listed /\ c_r'.first = c_r.first /\ c_r'.bound = c_r.bound
      /\ c_r'.ids = c_r.ids /\ c_r'.queue = Tail(c_r.queue)
    BY <1>1, <1>7 DEF ReaderTyped, Fields
  <2>2. ReaderTyped'
    BY <1>1, <2>1 DEF ReaderTyped, DiskRests, Met
  <2>3. Second => GotFits' /\ QueueFits' /\ HeadFits'
    <3> HAVE Second
    <3>1. Complete(Here, Dir)
      BY <1>3, <1>4, <1>5, <1>7 DEF HeadFits
    <3>2. QueueFits' /\ (c_r'.queue # << >> => Untouched(Here)')
      BY <1>1, <1>3, <2>1, <3>1, NextInQueue
    <3>3. GotFits'
      BY <1>1, <1>3, <2>1 DEF GotFits, Genuine
    <3>4. HeadFits'
      BY <2>1, <3>2 DEF HeadFits, InDirectory, InListing, AtChild
    <3> QED BY <3>2, <3>3, <3>4
  <2>4. c_r'.at \in Walk
    BY <2>1 DEF Walk
  <2>5. c_r.pass = 1 => \A p \in DOMAIN c_r'.got : Met(c_node, c_r'.got[p].identity)
    BY <2>1 DEF CaptureInv, FirstFits
  <2> QED BY <1>1, <2>1, <2>2, <2>3, <2>4, <2>5, WalkKeeps
<1>8. CASE /\ c_r.depth # Len(Here)
           /\ LET n == Here[c_r.depth + 1]
              IN  /\ n \in DOMAIN Capture!Kids(c_r.fd)
                  /\ c_r' = [c_r EXCEPT !.fd = Capture!Kids(c_r.fd)[n], !.depth = @ + 1]
  <2>0. PICK n : /\ n \in DOMAIN Capture!Kids(c_r.fd)
                 /\ c_r' = [c_r EXCEPT !.fd = Capture!Kids(c_r.fd)[n], !.depth = @ + 1]
    BY <1>8
  <2>1. /\ DOMAIN c_r' = Fields /\ c_r'.at = c_r.at /\ c_r'.pass = c_r.pass
      /\ c_r'.fd = Capture!Kids(c_r.fd)[n] /\ c_r'.data = c_r.data /\ c_r'.policy = c_r.policy
      /\ c_r'.file = c_r.file /\ c_r'.source = c_r.source /\ c_r'.identity = c_r.identity
      /\ c_r'.names = c_r.names /\ c_r'.child = c_r.child /\ c_r'.got = c_r.got
      /\ c_r'.listed = c_r.listed /\ c_r'.first = c_r.first /\ c_r'.bound = c_r.bound
      /\ c_r'.ids = c_r.ids /\ c_r'.queue = c_r.queue /\ c_r'.depth = c_r.depth + 1
    BY <1>1, <2>0 DEF ReaderTyped, Fields
  <2>2. ReaderTyped'
    <3>1. c_r'.fd \in DOMAIN c_node
      BY <1>1, <2>0, <2>1 DEF Sound, Capture!Kids
    <3> QED BY <1>1, <2>1, <3>1 DEF ReaderTyped, DiskRests, Met
  <2>3. Second => HeadFits'
    <3> HAVE Second
    <3>1. /\ Here' = Here /\ Dir' = Dir /\ (Untouched(Here) => Untouched(Here)')
          /\ (Complete(Here, Dir) => Complete(Here, Dir)') /\ (Unmoved' => Unmoved)
      BY <1>1, <2>1 DEF Here, Dir, Untouched, Complete, Unmoved, DiskRests
    <3>2. c_r'.depth \in 0..Len(Here)
      <4>1. c_r.depth \in 0..Len(Here) /\ Len(Here) \in Nat
        BY <1>1, <1>3, Whole DEF HeadFits
      <4> QED BY <1>8, <2>1, <4>1
    <3>3. HeadFits /\ c_r.queue # << >>
      BY <1>3
    <3> QED BY <1>1, <2>1, <3>1, <3>2, <3>3 DEF HeadFits, InDirectory, InListing, AtChild
  <2>4. c_r'.at \in Walk
    BY <1>1, <2>1
  <2> QED BY <1>1, <2>1, <2>2, <2>3, <2>4, GlanceKeeps
<1> QED BY <1>1, <1>2, <1>6, <1>7, <1>8 DEF Capture!Chain, Here, Capture!At

LEMMA Paths ==
  /\ \A n, m : Append(<< >>, n) = Append(<< >>, m) => n = m
  /\ \A n, m : Append(<<"d">>, n) = Append(<<"d">>, m) => n = m
  /\ \A n, m : Append(<< >>, n) # Append(<<"d">>, m)
  /\ \A n : Append(<<"d">>, n) # << >> /\ Append(<<"d">>, n) # <<"d">> /\ Append(<< >>, n) # << >>
  /\ Append(<< >>, "d") = <<"d">>
<1>1. \A n, m : Append(<<"d">>, n) = Append(<<"d">>, m) => n = m
  <2> TAKE n, m
  <2>1. <<"d">> \in Seq({"d", n, m}) /\ n \in {"d", n, m} /\ m \in {"d", n, m}
    OBVIOUS
  <2>2. Append(<<"d">>, n)[2] = n /\ Append(<<"d">>, m)[2] = m
    BY <2>1
  <2> QED BY <2>2
<1>2. \A n : Len(Append(<<"d">>, n)) = 2 /\ Len(Append(<< >>, n)) = 1
  <2> TAKE n
  <2>1. <<"d">> \in Seq({"d", n}) /\ n \in {"d", n} /\ << >> \in Seq({"d", n})
    OBVIOUS
  <2>2. Len(Append(<<"d">>, n)) = 2
    BY <2>1
  <2>3. Len(Append(<< >>, n)) = 1
    BY <2>1
  <2> QED BY <2>2, <2>3
<1>3. Len(<< >>) = 0 /\ Len(<<"d">>) = 1
  OBVIOUS
<1>4. \A n, m : Append(<< >>, n) # Append(<<"d">>, m)
  <2> SUFFICES ASSUME NEW n, NEW m, Append(<< >>, n) = Append(<<"d">>, m) PROVE FALSE
    OBVIOUS
  <2> QED BY <1>2
<1>5. \A n : Append(<< >>, n) = <<n>>
  OBVIOUS
<1>6. \A n : Append(<<"d">>, n) # << >> /\ Append(<<"d">>, n) # <<"d">>
    /\ Append(<< >>, n) # << >>
  BY <1>2, <1>3
<1>7. \A n, m : Append(<< >>, n) = Append(<< >>, m) => n = m
  BY <1>5
<1> QED BY <1>1, <1>4, <1>5, <1>6, <1>7

LEMMA QueuedSub == Append(<<<< >>>>, <<"d">>) = <<<< >>, <<"d">>>>
<1>1. PICK a, b : a = << >> /\ b = <<"d">>
  OBVIOUS
<1>2. <<a>> \in Seq({a, b}) /\ b \in {a, b} /\ <<a, b>> \in Seq({a, b})
  OBVIOUS
<1>3. /\ Append(<<a>>, b) \in Seq({a, b}) /\ Len(Append(<<a>>, b)) = 2
      /\ Append(<<a>>, b)[1] = a /\ Append(<<a>>, b)[2] = b
  BY <1>2
<1>4. Len(<<a, b>>) = 2 /\ <<a, b>>[1] = a /\ <<a, b>>[2] = b
  OBVIOUS
<1>5. \A i \in 1..Len(Append(<<a>>, b)) : Append(<<a>>, b)[i] = <<a, b>>[i]
  <2> TAKE i \in 1..Len(Append(<<a>>, b))
  <2>1. i = 1 \/ i = 2
    BY <1>3
  <2> QED BY <2>1, <1>3, <1>4
<1>6. Append(<<a>>, b) = <<a, b>>
  <2>1. \A s, t \in Seq({a, b}) : Len(s) = Len(t) /\ (\A i \in 1..Len(s) : s[i] = t[i]) => s = t
    BY SeqEqual
  <2> QED BY <1>2, <1>3, <1>4, <1>5, <2>1
<1> QED BY <1>6, <1>1

\* What every step of the walk may rely on.
LEMMA InWalk ==
  ASSUME CaptureInv, c_r.pass # 0
  PROVE  /\ ReaderTyped /\ Disk /\ Sound(c_node)
         /\ Second => ThenFits /\ GotFits /\ QueueFits /\ HeadFits /\ Sound(c_then.node)
         /\ Second /\ c_r.queue # << >> =>
              /\ Here \in {<< >>, <<"d">>} /\ c_r.ids[Here] = <<Dir, c_then.node[Dir].ctime>>
              /\ Dir \in DOMAIN c_node /\ Dir \in DOMAIN c_then.node
              /\ Unmoved => c_node[Dir] = c_then.node[Dir]
              /\ Here = << >> => Dir = Capture!Root
              /\ Here = <<"d">> => Dir # Capture!Root
<1>1. ReaderTyped /\ Disk /\ Sound(c_node)
  BY DEF CaptureInv, Disk
<1>2. Second => ThenFits /\ GotFits /\ QueueFits /\ HeadFits /\ Sound(c_then.node)
  BY DEF CaptureInv, ThenFits
<1> QED BY <1>1, <1>2, HereKnown

LEMMA NextKeeps ==
  ASSUME CaptureInv, Capture!NextDirectory PROVE CaptureInv'
<1>1. /\ c_r.at = "next" /\ c_r.at \in Walk /\ DiskRests /\ c_then' = c_then
      /\ c_r.pass # 0 /\ ReaderTyped /\ Disk /\ Sound(c_node)
      /\ Second => HeadFits
  BY DEF Capture!NextDirectory, Capture!Reads, Capture!At, DiskRests, CaptureInv, Disk,
      ReaderTyped, Walk
<1>2. /\ DOMAIN c_r' = Fields /\ c_r'.pass = c_r.pass
      /\ c_r.queue # << >> => c_r'.at = "chain" /\ c_r'.fd = Capture!Root /\ c_r'.depth = 0
      /\ c_r.queue = << >> => c_r'.at = "missing" /\ c_r'.fd = c_r.fd /\ c_r'.depth = c_r.depth
      /\ c_r'.data = c_r.data /\ c_r'.policy = c_r.policy
      /\ c_r'.file = c_r.file /\ c_r'.source = c_r.source /\ c_r'.identity = c_r.identity
      /\ c_r'.names = c_r.names /\ c_r'.child = c_r.child /\ c_r'.got = c_r.got
      /\ c_r'.listed = c_r.listed /\ c_r'.first = c_r.first /\ c_r'.bound = c_r.bound
      /\ c_r'.ids = c_r.ids /\ c_r'.queue = c_r.queue
  BY <1>1 DEF ReaderTyped, Fields, Capture!NextDirectory
<1>3. c_r'.at \in {"chain", "missing"} /\ c_r'.at \in Walk
  BY <1>2 DEF Walk
<1>4. ReaderTyped'
  <2>1. c_r'.fd \in DOMAIN c_node
    BY <1>1, <1>2 DEF ReaderTyped, Sound
  <2> QED BY <1>1, <1>2, <1>3, <2>1 DEF ReaderTyped, DiskRests, Met
<1>5. Second => HeadFits'
  <2> HAVE Second
  <2>1. Here' = Here /\ (Untouched(Here) => Untouched(Here)')
    BY <1>2 DEF Here, Untouched
  <2>2. HeadFits
    BY <1>1
  <2>3. c_r.queue # << >> => Here \in {<< >>, <<"d">>}
    BY <1>1, InWalk
  <2>4. c_r.queue # << >> => 0 \in 0..Len(Here)
    BY <2>3, Whole
  <2> QED BY <1>1, <1>2, <1>3, <2>1, <2>2, <2>4 DEF HeadFits, InDirectory, InListing, AtChild
<1> QED BY <1>1, <1>2, <1>3, <1>4, <1>5, GlanceKeeps

LEMMA BeforeKeeps ==
  ASSUME CaptureInv, Capture!BeforeListing PROVE CaptureInv'
<1>1. /\ c_r.at = "before" /\ c_r.at \in Walk /\ DiskRests /\ c_then' = c_then
      /\ c_r.pass # 0 /\ ReaderTyped /\ Disk /\ Sound(c_node)
      /\ Second => HeadFits
  BY DEF Capture!BeforeListing, Capture!Reads, Capture!At, DiskRests, CaptureInv, Disk,
      ReaderTyped, Walk
<1>2. /\ DOMAIN c_r' = Fields /\ c_r'.pass = c_r.pass
      /\ c_r'.at = "list" /\ c_r'.fd = c_r.fd
      /\ c_r'.data = c_r.data /\ c_r'.policy = c_r.policy
      /\ c_r'.file = c_r.file /\ c_r'.source = c_r.source /\ c_r'.identity = c_r.identity
      /\ c_r'.names = c_r.names /\ c_r'.child = c_r.child /\ c_r'.got = c_r.got
      /\ c_r'.listed = c_r.listed /\ c_r'.first = c_r.first /\ c_r'.bound = c_r.bound
      /\ c_r'.ids = c_r.ids /\ c_r'.queue = c_r.queue
  BY <1>1 DEF ReaderTyped, Fields, Capture!BeforeListing
<1>3. c_r'.at \in Walk
  BY <1>2 DEF Walk
<1>4. ReaderTyped'
  BY <1>1, <1>2 DEF ReaderTyped, DiskRests, Met
<1>5. Second => HeadFits'
  <2> HAVE Second
  <2>1. Here' = Here /\ Dir' = Dir /\ (Untouched(Here) => Untouched(Here)')
    BY <1>2 DEF Here, Dir, Untouched
  <2>2. HeadFits
    BY <1>1
  <2> QED BY <1>1, <1>2, <2>1, <2>2 DEF HeadFits, InDirectory, InListing, AtChild
<1> QED BY <1>1, <1>2, <1>3, <1>4, <1>5, GlanceKeeps

LEMMA ListKeeps ==
  ASSUME CaptureInv, Capture!ListDirectory PROVE CaptureInv'
<1>1. /\ c_r.at = "list" /\ c_r.at \in Walk /\ DiskRests /\ c_then' = c_then
      /\ c_r.pass # 0 /\ ReaderTyped /\ Disk /\ Sound(c_node)
      /\ Second => HeadFits /\ ThenFits
  BY DEF Capture!ListDirectory, Capture!Reads, Capture!At, DiskRests, CaptureInv, Disk,
      ReaderTyped, Walk
<1>2. /\ DOMAIN c_r' = Fields /\ c_r'.pass = c_r.pass
      /\ c_r'.at = "stat" /\ c_r'.fd = c_r.fd
      /\ c_r'.data = c_r.data /\ c_r'.policy = c_r.policy
      /\ c_r'.file = c_r.file /\ c_r'.source = c_r.source /\ c_r'.identity = c_r.identity
      /\ DOMAIN c_r'.names = DOMAIN c_node[c_r.fd].kids /\ c_r'.child = c_r.child
         /\ c_r'.got = c_r.got
      /\ c_r'.listed = c_r.listed /\ c_r'.first = c_r.first /\ c_r'.bound = c_r.bound
      /\ c_r'.ids = c_r.ids /\ c_r'.queue = c_r.queue
  BY <1>1 DEF ReaderTyped, Fields, Capture!ListDirectory, Capture!Kids
<1>3. c_r'.at \in Walk
  BY <1>2 DEF Walk
<1>4. ReaderTyped'
  <2>1. DOMAIN c_r'.names \subseteq Capture!Name
    BY <1>1, <1>2 DEF ReaderTyped, Sound
  <2> QED BY <1>1, <1>2, <2>1 DEF ReaderTyped, DiskRests, Met
<1>5. Second => HeadFits'
  <2> HAVE Second
  <2>1. Here' = Here /\ Dir' = Dir /\ (Unmoved' => Unmoved)
    BY <1>1, <1>2 DEF Here, Dir, Unmoved, DiskRests
  <2>2. HeadFits /\ c_r.queue # << >> /\ Untouched(Here) /\ c_r.fd = Dir
    BY <1>1 DEF HeadFits, InDirectory
  <2>3. Unmoved => c_node[Dir] = c_then.node[Dir]
    BY <1>1, <2>2, InWalk
  <2>4. \A n \in DOMAIN c_r'.names : Append(Here, n) \notin DOMAIN c_r.got
    BY <1>4, <2>2 DEF Untouched, ReaderTyped
  <2>5. \A n \in Capture!Name : Append(Here, n) \notin DOMAIN c_r.got
    BY <2>2 DEF Untouched
  <2>6. Unmoved => \A n \in DOMAIN c_then.node[Dir].kids : n \in DOMAIN c_r'.names
    BY <1>2, <2>2, <2>3
  <2> QED BY <1>1, <1>2, <2>1, <2>2, <2>4, <2>5, <2>6
      DEF HeadFits, InDirectory, InListing, AtChild
<1> QED BY <1>1, <1>2, <1>3, <1>4, <1>5, GlanceKeeps

LEMMA StatKeeps ==
  ASSUME CaptureInv, Capture!StatChild PROVE CaptureInv'
<1>1. /\ c_r.at = "stat" /\ c_r.at \in Walk /\ DiskRests /\ ReaderTyped /\ Disk /\ Sound(c_node)
      /\ c_r.pass # 0 => c_then' = c_then
  BY DEF Capture!StatChild, Capture!Reads, Capture!At, DiskRests, CaptureInv, Disk, ReaderTyped,
      Walk
<1>2. CASE c_r.names # << >> /\ \E n \in DOMAIN c_r.names :
             /\ Capture!Here(n)
             /\ c_r' = [c_r EXCEPT !.at = "open", !.child = n,
                                   !.identity = Capture!Identity(Capture!Kids(c_r.fd)[n])]
  <2>1. PICK n \in DOMAIN c_r.names :
             /\ Capture!Here(n)
             /\ c_r' = [c_r EXCEPT !.at = "open", !.child = n,
                                   !.identity = Capture!Identity(Capture!Kids(c_r.fd)[n])]
    BY <1>2
  <2>2. PICK i : i = c_node[c_r.fd].kids[n]
    OBVIOUS
  <2>3. /\ n \in DOMAIN c_node[c_r.fd].kids /\ i \in DOMAIN c_node
        /\ Capture!Identity(Capture!Kids(c_r.fd)[n]) = <<i, c_node[i].ctime>>
    BY <1>1, <2>1, <2>2 DEF Capture!Here, Capture!Kids, Capture!Identity, ReaderTyped, Sound
  <2>4. /\ DOMAIN c_r' = Fields /\ c_r'.pass = c_r.pass
        /\ c_r'.at = "open" /\ c_r'.fd = c_r.fd
        /\ c_r'.data = c_r.data /\ c_r'.policy = c_r.policy
        /\ c_r'.file = c_r.file /\ c_r'.source = c_r.source
           /\ c_r'.identity = <<i, c_node[i].ctime>>
        /\ c_r'.names = c_r.names /\ c_r'.child = n /\ c_r'.got = c_r.got
        /\ c_r'.listed = c_r.listed /\ c_r'.first = c_r.first /\ c_r'.bound = c_r.bound
        /\ c_r'.ids = c_r.ids /\ c_r'.queue = c_r.queue
    BY <1>1, <2>1, <2>3 DEF ReaderTyped, Fields
  <2>5. Met(c_node, c_r'.identity) /\ c_r'.identity[1] = i /\ c_r'.identity[2] = c_node[i].ctime
    <3>1. i \in Nat /\ c_node[i].ctime \in Nat
      BY <1>1, <2>3 DEF Sound
    <3> QED BY <2>3, <2>4, <3>1 DEF Met, Pair
  <2>6. DOMAIN c_then' = DOMAIN c_then /\ c_then'.swapped = c_then.swapped
    BY <1>1 DEF Capture!StatChild, ReaderTyped
  <2>7. ReaderTyped'
    <3>1. n \in Capture!Name
      BY <1>1 DEF ReaderTyped
    <3> QED BY <1>1, <2>4, <2>5, <2>6, <3>1 DEF ReaderTyped, DiskRests, Met
  <2>8. CASE c_r.pass = 0
    <3>1. /\ c_r.fd = Capture!PolicyDir /\ c_r.names = [m \in {"policy"} |-> "file"]
             /\ n = "policy"
      BY <1>1, <2>1, <2>8 DEF CaptureInv, PolicyFits
    <3>2. c_then'.policy = c_node[i].data
      <4>1. c_then'.policy = Capture!PolicyNow
        BY <1>1, <2>8 DEF Capture!StatChild, ReaderTyped
      <4> QED BY <2>2, <2>3, <3>1, <4>1 DEF Capture!PolicyNow, Capture!Kids
    <3>3. PolicyFits'
      BY <1>1, <2>4, <2>5, <2>8, <3>1, <3>2 DEF PolicyFits, DiskRests
    <3> QED BY <1>1, <2>4, <2>7, <2>8, <3>3, EarlyKeeps
  <2>9. CASE c_r.pass # 0
    <3>1. Second => HeadFits'
      <4> HAVE Second
      <4>1. /\ Here' = Here /\ Dir' = Dir /\ (Unmoved' => Unmoved)
        BY <1>1, <2>4 DEF Here, Dir, Unmoved, DiskRests
      <4>2. HeadFits /\ c_r.queue # << >> /\ c_r.fd = Dir
        BY <2>9, <1>1, InWalk DEF HeadFits, InDirectory, InListing
      <4>3. Unmoved => c_node[Dir] = c_then.node[Dir]
        BY <2>9, <4>2, InWalk
      <4>4. Unmoved => n \in DOMAIN c_then.node[Dir].kids /\ i = c_then.node[Dir].kids[n]
        BY <2>2, <2>3, <4>2, <4>3
      <4>5. c_then' = c_then
        BY <1>1, <2>9
      <4> QED BY <1>1, <2>4, <2>5, <4>1, <4>2, <4>4, <4>5
          DEF HeadFits, InDirectory, InListing, AtChild
    <3>2. c_r'.at \in Walk
      BY <2>4 DEF Walk
    <3> QED BY <1>1, <2>4, <2>7, <2>9, <3>1, <3>2, GlanceKeeps
  <2> QED BY <2>8, <2>9
<1>3. CASE /\ c_r.names = << >> /\ c_r' = [c_r EXCEPT !.at = "rechain", !.fd = Capture!Root,
              !.depth = 0]
           /\ Capture!Identity(c_r.fd) = c_r.before
  <2>1. /\ DOMAIN c_r' = Fields /\ c_r'.pass = c_r.pass
        /\ c_r'.at = "rechain" /\ c_r'.fd = Capture!Root /\ c_r'.depth = 0
        /\ c_r'.data = c_r.data /\ c_r'.policy = c_r.policy
        /\ c_r'.file = c_r.file /\ c_r'.source = c_r.source /\ c_r'.identity = c_r.identity
        /\ c_r'.names = c_r.names /\ c_r'.child = c_r.child /\ c_r'.got = c_r.got
        /\ c_r'.listed = c_r.listed /\ c_r'.first = c_r.first /\ c_r'.bound = c_r.bound
        /\ c_r'.ids = c_r.ids /\ c_r'.queue = c_r.queue
    BY <1>1, <1>3 DEF ReaderTyped, Fields
  <2>2. DOMAIN c_r.names = {}
    BY <1>3
  <2>3. c_r.pass # 0
    BY <1>1, <2>2 DEF CaptureInv, PolicyFits
  <2>4. ReaderTyped'
    <3>1. Capture!Root \in DOMAIN c_node
      BY <1>1 DEF Sound
    <3> QED BY <1>1, <2>1, <2>3, <3>1 DEF ReaderTyped, DiskRests, Met
  <2>5. Second => HeadFits'
    <3> HAVE Second
    <3>1. /\ Here' = Here /\ Dir' = Dir /\ (Unmoved' => Unmoved) /\ c_then' = c_then
          /\ (Complete(Here, Dir) => Complete(Here, Dir)')
      BY <1>1, <2>1, <2>3 DEF Here, Dir, Unmoved, DiskRests, Complete
    <3>2. HeadFits /\ c_r.queue # << >> /\ c_r.fd = Dir
      BY <2>3, <1>1, InWalk DEF HeadFits, InDirectory, InListing
    <3>3. Unmoved => Complete(Here, Dir)
      BY <1>1, <2>2, <3>2 DEF HeadFits, InListing, Complete
    <3>4. 0 \in 0..Len(Here)
      <4>1. Here \in {<< >>, <<"d">>}
        BY <2>3, <3>2, InWalk
      <4> QED BY <4>1, Whole
    <3> QED BY <1>1, <2>1, <3>1, <3>2, <3>3, <3>4 DEF HeadFits, InDirectory, InListing, AtChild
  <2>6. c_r'.at \in Walk
    BY <2>1 DEF Walk
  <2> QED BY <1>1, <2>1, <2>3, <2>4, <2>5, <2>6, GlanceKeeps
<1>4. CASE Capture!Fails
  <2>1. c_r.pass # 0 => CaptureInv'
    BY <1>1, <1>4, FailKeeps
  <2>2. CASE c_r.pass = 0
    <3>1. /\ DOMAIN c_r' = Fields /\ c_r'.at = "failed" /\ c_r'.pass = c_r.pass
             /\ c_r'.fd = c_r.fd
          /\ c_r'.file = c_r.file /\ c_r'.source = c_r.source /\ c_r'.identity = c_r.identity
          /\ c_r'.names = c_r.names /\ c_r'.child = c_r.child /\ c_r'.got = c_r.got
          /\ c_r'.listed = c_r.listed /\ c_r'.first = c_r.first
      BY <1>1, <1>4 DEF ReaderTyped, Fields, Capture!Fails
    <3>2. DOMAIN c_then' = DOMAIN c_then /\ c_then'.swapped = c_then.swapped
      BY <1>1 DEF Capture!StatChild, ReaderTyped
    <3>3. ReaderTyped'
      BY <1>1, <2>2, <3>1, <3>2 DEF ReaderTyped, DiskRests, Met
    <3>4. PolicyFits'
      BY <2>2, <3>1 DEF PolicyFits
    <3> QED BY <1>1, <2>2, <3>1, <3>3, <3>4, EarlyKeeps
  <2> QED BY <2>1, <2>2
<1> QED BY <1>2, <1>3, <1>4 DEF Capture!StatChild, Capture!Fails

Entry(kind, data) == [kind |-> kind, data |-> data, identity |-> c_r.identity]

\* The entry of the second observation fits the files of its beginning.
LEMMA EntryFits ==
  ASSUME CaptureInv, Second, c_r.identity[1] \in DOMAIN c_node,
         NEW path, NEW kind, NEW data, Capture!Matches(path, kind, data)
  PROVE  /\ path \in DOMAIN c_r.first /\ c_r.first[path] = Entry(kind, data)
         /\ Met(c_then.node, c_r.identity)
         /\ c_r.identity[1] \in DOMAIN c_then.node
         /\ c_node[c_r.identity[1]].ctime = c_r.identity[2] =>
              /\ c_then.node[c_r.identity[1]] = c_node[c_r.identity[1]]
<1>1. ThenFits /\ ReaderTyped /\ Sound(c_node) /\ Sound(c_then.node)
  BY DEF CaptureInv, Disk, ThenFits
<1>2. path \in DOMAIN c_r.first /\ c_r.first[path] = Entry(kind, data)
  BY DEF Second, Capture!Matches, Entry
<1>3. PICK id : id = c_r.identity
  OBVIOUS
<1>4. c_r.first[path].identity = id
  BY <1>2, <1>3 DEF Entry
<1>5. Met(c_then.node, id)
  BY <1>1, <1>2, <1>4 DEF ThenFits
<1>6. id[1] \in DOMAIN c_then.node /\ id[2] <= c_then.node[id[1]].ctime /\ id[2] \in Nat
  BY <1>5 DEF Met, Pair
<1>7. /\ id[1] \in DOMAIN c_node /\ c_then.node[id[1]].ctime <= c_node[id[1]].ctime
      /\ c_then.node[id[1]].ctime = c_node[id[1]].ctime => c_then.node[id[1]] = c_node[id[1]]
  BY <1>1, <1>6 DEF ThenFits
<1>8. c_node[id[1]].ctime \in Nat /\ c_then.node[id[1]].ctime \in Nat
  BY <1>1, <1>6, <1>7 DEF Sound
<1>9. c_node[id[1]].ctime = id[2] => c_then.node[id[1]] = c_node[id[1]]
  BY <1>6, <1>7, <1>8
<1> QED BY <1>2, <1>3, <1>5, <1>6, <1>9

\* add: an entry joins what was got.
LEMMA AddsKeeps ==
  ASSUME CaptureInv, DiskRests, c_then' = c_then, c_r.at \in {"open", "restat"}, c_r.pass # 0,
         NEW kind \in {"file", "dir"}, NEW data, NEW queue, NEW path,
         path = Append(Here, c_r.child),
         Capture!Matches(path, kind, data),
         c_r' = [c_r EXCEPT !.at = "stat", !.names = Capture!Drop(@, c_r.child), !.queue = queue,
                   !.ids = IF kind = "dir" THEN Capture!Put(@, path, c_r.identity) ELSE @,
                   !.got = Capture!Put(@, path, Entry(kind, data))],
         kind = "file" => queue = c_r.queue,
         Second => /\ c_r.identity[1] # Capture!Root /\ Genuine(Entry(kind, data), c_then.node)
                   /\ kind = "dir" => /\ Here = << >> /\ path = <<"d">>
                                      /\ queue = Append(c_r.queue, <<"d">>)
  PROVE  CaptureInv'
<1>1. /\ ReaderTyped /\ Disk /\ Sound(c_node) /\ c_r.at \in Walk /\ AtChild
      /\ Second => ThenFits /\ GotFits /\ QueueFits /\ HeadFits /\ Sound(c_then.node)
  BY InWalk DEF Walk, AtChild
<1>2. PICK got, ids, entry, identity, names :
         /\ got = c_r.got /\ ids = c_r.ids /\ entry = Entry(kind, data)
         /\ identity = c_r.identity /\ names = c_r.names
  OBVIOUS
<1>3. /\ DOMAIN c_r' = Fields /\ c_r'.pass = c_r.pass
      /\ c_r'.at = "stat" /\ c_r'.fd = c_r.fd
      /\ c_r'.data = c_r.data /\ c_r'.policy = c_r.policy
      /\ c_r'.file = c_r.file /\ c_r'.source = c_r.source /\ c_r'.identity = c_r.identity
      /\ c_r'.names = Capture!Drop(c_r.names, c_r.child) /\ c_r'.child = c_r.child
      /\ c_r'.got = Capture!Put(c_r.got, path, Entry(kind, data))
      /\ c_r'.listed = c_r.listed /\ c_r'.first = c_r.first /\ c_r'.bound = c_r.bound
      /\ kind = "dir" => c_r'.ids = Capture!Put(c_r.ids, path, c_r.identity)
      /\ kind = "file" => c_r'.ids = c_r.ids
      /\ c_r'.queue = queue
  BY <1>1 DEF ReaderTyped, Fields
<1>4. /\ DOMAIN c_r'.got = DOMAIN got \cup {path} /\ c_r'.got[path] = entry
      /\ \A p \in DOMAIN got : p # path => c_r'.got[p] = got[p]
  <2>1. c_r'.got = Capture!Put(got, path, entry)
    BY <1>2, <1>3
  <2>2. c_r'.got = [p \in DOMAIN got \cup {path} |-> IF p = path THEN entry ELSE got[p]]
    BY <2>1 DEF Capture!Put
  <2> QED BY <2>2
<1>5. DOMAIN c_r'.names = DOMAIN names \ {c_r.child}
  BY <1>2, <1>3 DEF Capture!Drop
<1>6. entry.kind = kind /\ entry.data = data /\ entry.identity = identity
  BY <1>2 DEF Entry
<1>7. ReaderTyped'
  <2>1. IsFiniteSet(DOMAIN c_r'.got)
    <3>1. IsFiniteSet(DOMAIN got)
      BY <1>1, <1>2 DEF ReaderTyped
    <3>2. IsFiniteSet(DOMAIN got \cup {path})
      BY <3>1, FS_AddElement
    <3> QED BY <1>4, <3>2
  <2> QED BY <1>1, <1>2, <1>3, <1>5, <2>1 DEF ReaderTyped, DiskRests, Met
<1>8. c_r.pass = 1 => \A p \in DOMAIN c_r'.got : Met(c_node, c_r'.got[p].identity)
  <2>1. c_r.pass = 1 => \A p \in DOMAIN got : Met(c_node, got[p].identity)
    BY <1>2 DEF CaptureInv, FirstFits
  <2>2. Met(c_node, identity)
    BY <1>1, <1>2 DEF ReaderTyped
  <2> QED BY <1>4, <1>6, <2>1, <2>2
<1>9. ASSUME Second PROVE GotFits' /\ QueueFits' /\ HeadFits'
  <2>1. /\ GotFits /\ QueueFits /\ HeadFits /\ c_r.queue # << >> /\ c_r.fd = Dir
        /\ c_r.child \in Capture!Name /\ c_r.child \in DOMAIN names
        /\ \A n \in DOMAIN names : Append(Here, n) \notin DOMAIN got
    BY <1>1, <1>2, <1>9 DEF HeadFits, InDirectory, InListing, ReaderTyped
  <2>2. Here \in {<< >>, <<"d">>}
    BY <1>9, <2>1, InWalk
  <2>3. path \notin DOMAIN got
    BY <2>1
  <2>4. path \in DOMAIN c_r.first /\ c_r.first[path] = entry
    BY <1>2, <1>9 DEF Capture!Matches, Second, Entry
  <2>5. GotFits'
    <3>1. ASSUME NEW p \in DOMAIN c_r'.got
          PROVE  /\ p \in DOMAIN c_r.first /\ c_r'.got[p] = c_r.first[p]
                 /\ Genuine(c_r'.got[p], c_then.node) /\ c_r'.got[p].identity[1] # Capture!Root
                 /\ \E n \in Capture!Name : p = Top(n) \/ p = Sub(n)
                 /\ c_r'.got[p].kind = "dir" => p = <<"d">>
      <4>1. CASE p = path
        <5>1. \E n \in Capture!Name : p = Top(n) \/ p = Sub(n)
          BY <2>1, <2>2, <4>1 DEF Top, Sub
        <5>2. Genuine(entry, c_then.node) /\ identity[1] # Capture!Root
          BY <1>2, <1>9
        <5> QED BY <1>4, <1>6, <1>9, <2>4, <4>1, <5>1, <5>2
      <4>2. CASE p # path
        <5>1. p \in DOMAIN got /\ c_r'.got[p] = got[p]
          BY <1>4, <4>2
        <5> QED BY <1>2, <2>1, <5>1 DEF GotFits
      <4> QED BY <4>1, <4>2
    <3>2. << >> \in DOMAIN c_r'.ids /\ c_r'.ids[<< >>] = c_r.ids[<< >>]
      <4>1. << >> \in DOMAIN c_r.ids
        BY <2>1 DEF GotFits
      <4>2. CASE kind = "dir"
        <5>1. path = <<"d">> /\ path # << >>
          BY <1>9, <4>2, Queues
        <5> QED BY <1>3, <4>1, <4>2, <5>1 DEF Capture!Put
      <4> QED BY <1>3, <4>1, <4>2
    <3> QED BY <1>3, <2>1, <3>1, <3>2 DEF GotFits
  <2>6. \A n : Append(<<"d">>, n) = path => Here = <<"d">>
    BY <2>2, Paths
  <2>7. \A n : Append(<< >>, n) = path => Here = << >>
    BY <2>2, Paths
  <2>8. ASSUME NEW z, path # z PROVE (z \in DOMAIN c_r'.got <=> z \in DOMAIN got) /\
               (z \in DOMAIN got => c_r'.got[z] = got[z])
    BY <1>4, <2>8
  <2>9. Here = << >> => (Untouched(<<"d">>) => Untouched(<<"d">>)')
    <3>1. << >> # <<"d">>
      BY Queues
    <3> QED BY <1>2, <2>6, <2>8, <3>1 DEF Untouched
  <2>10. QueueFits' /\ Here' = Here
    <3>1. \/ c_r.queue = <<<< >>>> /\ ~SubKnown /\ Untouched(<<"d">>)
          \/ c_r.queue = <<<< >>, <<"d">>>> /\ SubKnown /\ Untouched(<<"d">>)
          \/ c_r.queue = <<<<"d">>>> /\ SubKnown /\ Complete(<< >>, Capture!Root)
      BY <2>1 DEF QueueFits
    <3>2. CASE c_r.queue = <<<< >>>> /\ ~SubKnown /\ Untouched(<<"d">>)
      <4>1. Here = << >>
        BY <3>2, Queues DEF Here
      <4>2. CASE kind = "file"
        <5>1. ~SubKnown'
          <6>1. CASE path = <<"d">>
            BY <1>4, <1>6, <4>2, <6>1 DEF SubKnown
          <6>2. CASE path # <<"d">>
            BY <1>2, <2>8, <3>2, <6>2 DEF SubKnown
          <6> QED BY <6>1, <6>2
        <5>2. c_r'.queue = c_r.queue
          BY <1>3, <4>2
        <5> QED BY <2>9, <3>2, <4>1, <5>1, <5>2 DEF QueueFits, Here
      <4>3. CASE kind = "dir"
        <5>1. path = <<"d">> /\ c_r'.queue = <<<< >>, <<"d">>>>
          BY <1>3, <1>9, <3>2, <4>3, QueuedSub
        <5>2. SubKnown' /\ c_r'.got[<<"d">>].identity = identity
          BY <1>4, <1>6, <4>3, <5>1 DEF SubKnown
        <5>3. <<"d">> \in DOMAIN c_r'.ids /\ c_r'.ids[<<"d">>] = identity
          BY <1>2, <1>3, <4>3, <5>1 DEF Capture!Put
        <5>4. Here' = << >>
          BY <5>1, Queues DEF Here
        <5> QED BY <2>9, <3>2, <4>1, <5>1, <5>2, <5>3, <5>4 DEF QueueFits
      <4> QED BY <4>2, <4>3
    <3>3. CASE SubKnown
      <4>1. <<"d">> \in DOMAIN got /\ path # <<"d">> /\ got[<<"d">>].kind = "dir"
        BY <1>2, <2>3, <3>3 DEF SubKnown
      <4>2. kind = "file"
        BY <1>9, <4>1
      <4>3. c_r'.queue = c_r.queue /\ c_r'.ids = c_r.ids
        BY <1>3, <4>2
      <4>4. SubKnown' /\ c_r'.got[<<"d">>] = c_r.got[<<"d">>]
        BY <1>2, <2>8, <4>1 DEF SubKnown
      <4>5. <<"d">> \in DOMAIN c_r'.ids /\ c_r'.ids[<<"d">>] = c_r'.got[<<"d">>].identity
        BY <2>1, <3>3, <4>3, <4>4 DEF QueueFits
      <4>6. CASE c_r.queue = <<<< >>, <<"d">>>> /\ Untouched(<<"d">>)
        <5>1. Here = << >>
          BY <4>6, Queues DEF Here
        <5> QED BY <2>9, <4>3, <4>4, <4>5, <4>6, <5>1 DEF QueueFits, Here
      <4>7. CASE c_r.queue = <<<<"d">>>> /\ Complete(<< >>, Capture!Root)
        <5>1. Here = <<"d">> /\ << >> # <<"d">>
          BY <4>7, Queues DEF Here
        <5>2. \A n : Append(<< >>, n) # path
          BY <2>7, <5>1
        <5>3. \A n : /\ Append(<< >>, n) \in DOMAIN c_r'.got <=> Append(<< >>, n) \in DOMAIN got
                     /\ Append(<< >>, n) \in DOMAIN got =>
                           c_r'.got[Append(<< >>, n)] = got[Append(<< >>, n)]
          <6> TAKE n
          <6>1. PICK z : z = Append(<< >>, n)
            OBVIOUS
          <6>2. path # z
            BY <5>2, <6>1
          <6> QED BY <2>8, <6>1, <6>2
        <5>4. Complete(<< >>, Capture!Root)'
          <6>1. Complete(<< >>, Capture!Root) /\ got = c_r.got /\ c_then' = c_then
            BY <1>2, <4>7
          <6>2. PICK top, i : top = << >> /\ i = Capture!Root
            OBVIOUS
          <6>3. \A n : /\ Append(top, n) \in DOMAIN c_r'.got <=> Append(top, n) \in DOMAIN c_r.got
                       /\ Append(top, n) \in DOMAIN c_r.got =>
                            c_r'.got[Append(top, n)] = c_r.got[Append(top, n)]
            BY <5>3, <6>1, <6>2
          <6>4. Complete(top, i)
            BY <6>1, <6>2
          <6>5. Complete(top, i)'
            BY <6>1, <6>3, <6>4 DEF Complete
          <6> QED BY <6>2, <6>5 DEF Complete
        <5> QED BY <4>3, <4>4, <4>5, <4>7, <5>4 DEF QueueFits, Here
      <4> QED BY <3>1, <3>3, <4>6, <4>7
    <3> QED BY <3>1, <3>2, <3>3
  <2>11. c_r'.ids[Here] = c_r.ids[Here] /\ Dir' = Dir
    <3>1. CASE kind = "dir"
      <4>1. path = <<"d">> /\ path # << >> /\ Here = << >> /\ << >> \in DOMAIN c_r.ids
        BY <1>9, <2>1, <3>1, Queues DEF GotFits
      <4>2. c_r'.ids[Here] = c_r.ids[Here]
        BY <1>3, <3>1, <4>1 DEF Capture!Put
      <4> QED BY <2>10, <4>2 DEF Dir
    <3>2. CASE kind = "file"
      BY <1>3, <2>10, <3>2 DEF Dir
    <3> QED BY <3>1, <3>2
  <2>12. Unmoved' => Unmoved
    BY <2>10, <2>11 DEF Unmoved, DiskRests
  <2>13. \A n : Append(Here, n) = path => n = c_r.child
    BY <2>2, Paths
  <2>14. \A n \in DOMAIN c_r'.names : Append(Here, n) \notin DOMAIN c_r'.got
    BY <1>4, <1>5, <2>1, <2>13
  <2>15. ASSUME Unmoved, NEW n \in Capture!Name
         PROVE  /\ Append(Here, n) \in DOMAIN c_r'.got =>
                     /\ n \in DOMAIN c_then.node[Dir].kids
                     /\ c_r'.got[Append(Here, n)].identity[1] = c_then.node[Dir].kids[n]
                /\ n \in DOMAIN c_then.node[Dir].kids =>
                     Append(Here, n) \in DOMAIN c_r'.got \/ n \in DOMAIN c_r'.names
    <3>1. /\ Append(Here, n) \in DOMAIN got =>
               /\ n \in DOMAIN c_then.node[Dir].kids
               /\ got[Append(Here, n)].identity[1] = c_then.node[Dir].kids[n]
          /\ n \in DOMAIN c_then.node[Dir].kids =>
               Append(Here, n) \in DOMAIN got \/ n \in DOMAIN names
      BY <1>1, <1>2, <2>1, <2>15 DEF HeadFits, InListing
    <3>2. c_r.child \in DOMAIN c_then.node[Dir].kids
        /\ identity[1] = c_then.node[Dir].kids[c_r.child]
      BY <1>1, <1>2, <2>1, <2>15 DEF HeadFits
    <3>3. CASE n = c_r.child
      BY <1>4, <1>6, <3>2, <3>3
    <3>4. CASE n # c_r.child
      <4>1. Append(Here, n) # path
        BY <2>13, <3>4
      <4> QED BY <1>5, <2>8, <3>1, <3>4, <4>1
    <3> QED BY <3>3, <3>4
  <2>16. c_r'.queue # << >>
    BY <1>3, <2>1, <2>2, <2>5, <2>10, Queues, QueuedSub, <1>9 DEF QueueFits
  <2>17. HeadFits'
    BY <1>3, <2>1, <2>10, <2>11, <2>12, <2>14, <2>15, <2>16
       DEF HeadFits, InDirectory, InListing, AtChild
  <2> QED BY <2>5, <2>10, <2>17
<1>10. c_r'.at \in Walk
  BY <1>3 DEF Walk
<1> QED BY <1>1, <1>3, <1>7, <1>8, <1>9, <1>10, WalkKeeps

LEMMA OpenKeeps ==
  ASSUME CaptureInv, Capture!OpenChild PROVE CaptureInv'
<1>1. /\ c_r.at = "open" /\ c_r.at \in Walk /\ DiskRests /\ c_then' = c_then
      /\ ReaderTyped /\ Disk /\ Sound(c_node)
  BY DEF Capture!OpenChild, Capture!Reads, Capture!At, DiskRests, CaptureInv, Disk, Walk
<1>2. CASE Capture!Fails
  BY <1>1, <1>2, FailKeeps
<1>3. ASSUME ~Capture!Fails
      PROVE  CaptureInv'
  <2>1. PICK i : i = c_node[c_r.fd].kids[c_r.child]
    OBVIOUS
  <2>2. /\ c_r.child \in DOMAIN c_node[c_r.fd].kids /\ i \in DOMAIN c_node /\ i # Capture!Root
        /\ Capture!Identity(i) = c_r.identity /\ c_node[i].kind = c_r.names[c_r.child]
        /\ c_node[i].kind \in {"file", "dir"}
        /\ c_node[i].kind = "dir" => c_r.fd = Capture!Root /\ c_r.child = "d"
                                     /\ c_node[i].data = Capture!Some
    BY <1>1, <1>3, <2>1 DEF Capture!OpenChild, Capture!Here, Capture!Kids, ReaderTyped, Sound
  <2>3. c_r.identity[1] = i /\ c_r.identity[2] = c_node[i].ctime
    BY <2>2 DEF Capture!Identity
  <2>4. CASE c_node[i].kind = "dir"
    <3>1. PICK path : path = Append(Here, c_r.child)
      OBVIOUS
    <3>2. /\ Capture!Matches(path, "dir", Capture!Some)
          /\ c_r' = [c_r EXCEPT !.at = "stat", !.names = Capture!Drop(@, c_r.child),
                       !.queue = Append(c_r.queue, path),
                       !.ids = Capture!Put(@, path, c_r.identity),
                       !.got = Capture!Put(@, path, Entry("dir", Capture!Some))]
      BY <1>3, <2>1, <2>2, <2>4, <3>1
         DEF Capture!OpenChild, Capture!Kids, Capture!IsDir, Capture!Adds, Capture!PathOf, Here,
             Entry
    <3>3. c_r.pass # 0
      <4>1. "dir" # [n \in {"policy"} |-> "file"]["policy"]
        OBVIOUS
      <4> QED BY <1>1, <2>2, <2>4, <4>1 DEF CaptureInv, PolicyFits
    <3>4. ASSUME Second
          PROVE  /\ c_r.identity[1] # Capture!Root
                 /\ Genuine(Entry("dir", Capture!Some), c_then.node)
                 /\ Here = << >> /\ path = <<"d">>
                    /\ Append(c_r.queue, path) = Append(c_r.queue, <<"d">>)
      <4>1. /\ Met(c_then.node, c_r.identity) /\ i \in DOMAIN c_then.node
            /\ c_then.node[i] = c_node[i]
        BY <2>2, <2>3, <3>2, <3>4, EntryFits
      <4>2. Genuine(Entry("dir", Capture!Some), c_then.node)
        <5>1. /\ Entry("dir", Capture!Some).identity = c_r.identity
              /\ Entry("dir", Capture!Some).kind = "dir"
              /\ Entry("dir", Capture!Some).data = Capture!Some
          BY DEF Entry
        <5> QED BY <2>2, <2>3, <2>4, <4>1, <5>1 DEF Genuine, Met
      <4>3. c_r.queue # << >> /\ c_r.fd = Dir
        BY <1>1, <3>3, <3>4, InWalk DEF HeadFits, InDirectory, InListing, AtChild
      <4>4. Here = << >>
        BY <2>2, <2>4, <3>3, <3>4, <4>3, InWalk
      <4>5. path = <<"d">>
        BY <2>2, <2>4, <3>1, <4>4, Paths
      <4> QED BY <2>2, <2>3, <4>2, <4>4, <4>5
    <3> QED BY <1>1, <3>1, <3>2, <3>3, <3>4, AddsKeeps
  <2>5. CASE c_node[i].kind = "file"
    <3>1. c_r' = [c_r EXCEPT !.at = "read", !.file = i]
      BY <1>3, <2>1, <2>2, <2>5 DEF Capture!OpenChild, Capture!Kids, Capture!IsDir
    <3>2. /\ DOMAIN c_r' = Fields /\ c_r'.pass = c_r.pass
          /\ c_r'.at = "read" /\ c_r'.fd = c_r.fd
          /\ c_r'.data = c_r.data /\ c_r'.policy = c_r.policy
          /\ c_r'.file = i /\ c_r'.source = c_r.source /\ c_r'.identity = c_r.identity
          /\ c_r'.names = c_r.names /\ c_r'.child = c_r.child /\ c_r'.got = c_r.got
          /\ c_r'.listed = c_r.listed /\ c_r'.first = c_r.first /\ c_r'.bound = c_r.bound
          /\ c_r'.ids = c_r.ids /\ c_r'.queue = c_r.queue
      BY <1>1, <3>1 DEF ReaderTyped, Fields
    <3>3. ReaderTyped'
      BY <1>1, <2>2, <2>3, <2>5, <3>2 DEF ReaderTyped, DiskRests, Met
    <3>4. CASE c_r.pass = 0
      <4>1. PolicyFits'
        BY <1>1, <3>2, <3>4 DEF CaptureInv, PolicyFits, DiskRests
      <4> QED BY <1>1, <3>2, <3>3, <3>4, <4>1, EarlyKeeps
    <3>5. CASE c_r.pass # 0
      <4>1. Second => HeadFits'
        <5> HAVE Second
        <5>1. /\ Here' = Here /\ Dir' = Dir /\ (Unmoved' => Unmoved)
          BY <1>1, <3>2 DEF Here, Dir, Unmoved, DiskRests
        <5>2. HeadFits
          BY <3>5, InWalk
        <5> QED BY <1>1, <3>2, <5>1, <5>2 DEF HeadFits, InDirectory, InListing, AtChild
      <4>2. c_r'.at \in Walk
        BY <3>2 DEF Walk
      <4> QED BY <1>1, <3>2, <3>3, <3>5, <4>1, <4>2, GlanceKeeps
    <3> QED BY <3>4, <3>5
  <2> QED BY <2>2, <2>4, <2>5
<1> QED BY <1>2, <1>3

LEMMA ReadFileKeeps ==
  ASSUME CaptureInv, Capture!ReadFile PROVE CaptureInv'
<1>1. /\ c_r.at = "read" /\ c_r.at \in Walk /\ DiskRests /\ c_then' = c_then
      /\ ReaderTyped
  BY DEF Capture!ReadFile, Capture!Reads, Capture!At, DiskRests, CaptureInv, Walk
<1>2. /\ DOMAIN c_r' = Fields /\ c_r'.pass = c_r.pass
      /\ c_r'.at = "check" /\ c_r'.fd = c_r.fd
      /\ c_r'.data = c_node[c_r.file].data /\ c_r'.policy = c_r.policy
      /\ c_r'.file = c_r.file /\ c_r'.source = c_r.source /\ c_r'.identity = c_r.identity
      /\ c_r'.names = c_r.names /\ c_r'.child = c_r.child /\ c_r'.got = c_r.got
      /\ c_r'.listed = c_r.listed /\ c_r'.first = c_r.first /\ c_r'.bound = c_r.bound
      /\ c_r'.ids = c_r.ids /\ c_r'.queue = c_r.queue
  BY <1>1 DEF ReaderTyped, Fields, Capture!ReadFile
<1>3. ReaderTyped'
  BY <1>1, <1>2 DEF ReaderTyped, DiskRests, Met
<1>4. CASE c_r.pass = 0
  <2>1. PolicyFits'
    BY <1>1, <1>2, <1>4 DEF CaptureInv, PolicyFits, DiskRests
  <2> QED BY <1>1, <1>2, <1>3, <1>4, <2>1, EarlyKeeps
<1>5. CASE c_r.pass # 0
  <2>1. Second => HeadFits'
    <3> HAVE Second
    <3>1. /\ Here' = Here /\ Dir' = Dir /\ (Unmoved' => Unmoved)
      BY <1>1, <1>2 DEF Here, Dir, Unmoved, DiskRests
    <3>2. HeadFits
      BY <1>5, InWalk
    <3> QED BY <1>1, <1>2, <3>1, <3>2 DEF HeadFits, InDirectory, InListing, AtChild
  <2>2. c_r'.at \in Walk
    BY <1>2 DEF Walk
  <2> QED BY <1>1, <1>2, <1>3, <1>5, <2>1, <2>2, GlanceKeeps
<1> QED BY <1>4, <1>5

LEMMA CheckKeeps ==
  ASSUME CaptureInv, Capture!CheckDescriptor PROVE CaptureInv'
<1>1. /\ c_r.at = "check" /\ c_r.at \in Walk /\ DiskRests /\ c_then' = c_then
      /\ ReaderTyped
  BY DEF Capture!CheckDescriptor, Capture!Reads, Capture!At, DiskRests, CaptureInv, Walk
<1>2. CASE Capture!Fails
  BY <1>1, <1>2, FailKeeps
<1>3. CASE /\ Capture!Identity(c_r.file) = c_r.identity
           /\ Capture!Goes(IF c_r.pass = 0 THEN "verify policy" ELSE "restat")
  <2>1. /\ DOMAIN c_r' = Fields /\ c_r'.pass = c_r.pass
        /\ c_r'.at = (IF c_r.pass = 0 THEN "verify policy" ELSE "restat") /\ c_r'.fd = c_r.fd
        /\ c_r'.data = c_r.data /\ c_r'.policy = c_r.policy
        /\ c_r'.file = c_r.file /\ c_r'.source = c_r.source /\ c_r'.identity = c_r.identity
        /\ c_r'.names = c_r.names /\ c_r'.child = c_r.child /\ c_r'.got = c_r.got
        /\ c_r'.listed = c_r.listed /\ c_r'.first = c_r.first /\ c_r'.bound = c_r.bound
        /\ c_r'.ids = c_r.ids /\ c_r'.queue = c_r.queue
    BY <1>1, <1>3 DEF ReaderTyped, Fields, Capture!Goes
  <2>2. /\ c_r.file = c_r.identity[1] /\ c_node[c_r.file].ctime = c_r.identity[2]
        /\ c_r.data = c_node[c_r.file].data /\ c_node[c_r.file].kind = "file"
    <3>1. <<c_r.file, c_node[c_r.file].ctime>> = c_r.identity
      BY <1>3 DEF Capture!Identity
    <3>2. c_node[c_r.file].ctime = c_r.identity[2]
      BY <3>1
    <3> QED BY <1>1, <3>2 DEF ReaderTyped
  <2>3. ReaderTyped'
    <3>1. c_r'.at \in {"verify policy", "restat"} /\ (c_r'.at = "verify policy" => c_r.pass = 0)
      BY <2>1
    <3>2. c_r.pass = 0 => c_r'.at = "verify policy"
      BY <2>1
    <3> QED BY <1>1, <2>1, <3>1, <3>2 DEF ReaderTyped, DiskRests, Met
  <2>4. CASE c_r.pass = 0
    <3>1. c_r.data = c_then.policy
      BY <1>1, <2>2, <2>4 DEF CaptureInv, PolicyFits
    <3>2. PolicyFits'
      BY <1>1, <2>1, <2>4, <3>1 DEF CaptureInv, PolicyFits
    <3> QED BY <1>1, <2>1, <2>3, <2>4, <3>2, EarlyKeeps
  <2>5. CASE c_r.pass # 0
    <3>1. c_r'.at = "restat" /\ c_r'.at \in Walk
      BY <2>1, <2>5 DEF Walk
    <3>2. ASSUME Second, Met(c_then.node, c_r.identity)
          PROVE  Genuine([kind |-> "file", data |-> c_r.data, identity |-> c_r.identity],
              c_then.node)
      <4>1. ThenFits /\ Sound(c_node) /\ Sound(c_then.node)
        BY <2>5, <3>2, InWalk
      <4>2. PICK id, i : id = c_r.identity /\ i = id[1]
        OBVIOUS
      <4>3. i \in DOMAIN c_then.node /\ id[2] <= c_then.node[i].ctime /\ Pair(id)
        BY <3>2, <4>2 DEF Met
      <4>4. /\ i \in DOMAIN c_node /\ c_then.node[i].ctime <= c_node[i].ctime
            /\ c_then.node[i].ctime = c_node[i].ctime => c_then.node[i] = c_node[i]
        BY <4>1, <4>3 DEF ThenFits
      <4>5. c_node[i].ctime = id[2] /\ id[2] \in Nat /\ c_then.node[i].ctime \in Nat
        BY <2>2, <4>1, <4>2, <4>3 DEF Sound, Pair
      <4>6. c_then.node[i] = c_node[i]
        BY <4>3, <4>4, <4>5
      <4> QED BY <2>2, <4>2, <4>3, <4>5, <4>6 DEF Genuine
    <3>3. Second => HeadFits'
      <4> HAVE Second
      <4>1. /\ Here' = Here /\ Dir' = Dir /\ (Unmoved' => Unmoved)
        BY <1>1, <2>1 DEF Here, Dir, Unmoved, DiskRests
      <4>2. HeadFits
        BY <2>5, InWalk
      <4>3. Met(c_then'.node, c_r'.identity) =>
              Genuine([kind |-> "file", data |-> c_r'.data, identity |-> c_r'.identity],
                  c_then'.node)
        BY <1>1, <2>1, <3>2
      <4> QED BY <1>1, <2>1, <3>1, <4>1, <4>2, <4>3 DEF HeadFits, InDirectory, InListing, AtChild
    <3> QED BY <1>1, <2>1, <2>3, <2>5, <3>1, <3>3, GlanceKeeps
  <2> QED BY <2>4, <2>5
<1> QED BY <1>2, <1>3 DEF Capture!CheckDescriptor

LEMMA RestatKeeps ==
  ASSUME CaptureInv, Capture!RestatName PROVE CaptureInv'
<1>1. /\ c_r.at = "restat" /\ c_r.at \in Walk /\ DiskRests /\ c_then' = c_then
      /\ ReaderTyped /\ Sound(c_node)
  BY DEF Capture!RestatName, Capture!Reads, Capture!At, DiskRests, CaptureInv, Disk, Walk
<1>2. CASE Capture!Fails
  BY <1>1, <1>2, FailKeeps
<1>3. CASE c_r.pass = 0 /\ c_r' = [c_r EXCEPT !.at = "bind", !.policy = c_r.data, !.pass = 1,
    !.names = << >>]
  <2>1. /\ DOMAIN c_r' = Fields /\ c_r'.pass = 1
        /\ c_r'.at = "bind" /\ c_r'.fd = c_r.fd
        /\ c_r'.data = c_r.data /\ c_r'.policy = c_r.data
        /\ c_r'.file = c_r.file /\ c_r'.source = c_r.source /\ c_r'.identity = c_r.identity
        /\ c_r'.names = << >> /\ c_r'.child = c_r.child /\ c_r'.got = c_r.got
        /\ c_r'.listed = c_r.listed /\ c_r'.first = c_r.first
    BY <1>1, <1>3 DEF ReaderTyped, Fields
  <2>2. ReaderTyped'
    <3>1. DOMAIN << >> = {}
      OBVIOUS
    <3> QED BY <1>1, <2>1, <3>1 DEF ReaderTyped, DiskRests, Met
  <2>3. PolicyFits'
    <3>1. c_r.data = c_then.policy
      BY <1>1, <1>3 DEF CaptureInv, PolicyFits
    <3> QED BY <1>1, <2>1, <3>1 DEF PolicyFits
  <2>4. IndexFits' /\ EndFits' /\ ~Second'
    BY <2>1 DEF IndexFits, EndFits, Second
  <2>5. FirstFits'
    BY <1>1, <1>3, <2>1 DEF CaptureInv, FirstFits, DiskRests, Met
  <2> QED BY <1>1, <2>2, <2>3, <2>4, <2>5, ReadKeeps
<1>4. ASSUME ~Capture!Fails, c_r.pass # 0
      PROVE  CaptureInv'
  <2>1. PICK i, path : i = c_node[c_r.fd].kids[c_r.child] /\ path = Append(Here, c_r.child)
    OBVIOUS
  <2>2. /\ c_r.child \in DOMAIN c_node[c_r.fd].kids /\ i \in DOMAIN c_node /\ i # Capture!Root
        /\ Capture!Identity(i) = c_r.identity
    BY <1>1, <1>4, <2>1 DEF Capture!RestatName, Capture!Here, Capture!Kids, ReaderTyped, Sound
  <2>3. c_r.identity[1] = i /\ c_r.identity[2] = c_node[i].ctime
    BY <2>2 DEF Capture!Identity
  <2>4. /\ Capture!Matches(path, "file", c_r.data)
        /\ c_r' = [c_r EXCEPT !.at = "stat", !.names = Capture!Drop(@, c_r.child),
                     !.queue = c_r.queue, !.ids = @,
                     !.got = Capture!Put(@, path, Entry("file", c_r.data))]
    BY <1>4, <2>1, <2>2
       DEF Capture!RestatName, Capture!Kids, Capture!Adds, Capture!PathOf, Here, Entry
  <2>5. ASSUME Second
        PROVE  /\ c_r.identity[1] # Capture!Root
               /\ Genuine(Entry("file", c_r.data), c_then.node)
    <3>1. Met(c_then.node, c_r.identity)
      BY <2>2, <2>3, <2>4, <2>5, EntryFits
    <3>2. Genuine([kind |-> "file", data |-> c_r.data, identity |-> c_r.identity], c_then.node)
      BY <1>1, <1>4, <2>5, <3>1, InWalk DEF HeadFits
    <3> QED BY <2>2, <2>3, <3>2 DEF Entry
  <2> QED BY <1>1, <1>4, <2>1, <2>4, <2>5, AddsKeeps
<1> QED BY <1>2, <1>3, <1>4 DEF Capture!RestatName

\* What an observation that is through has got is the tree of its beginning.
LEMMA ObservedTree ==
  ASSUME ThenFits, GotFits, QueueFits, c_r.queue = << >>
  PROVE  {<<p, c_r.got[p].kind, c_r.got[p].data>> : p \in DOMAIN c_r.got} =
      Capture!Tree(c_then.node)
<1>1. PICK nodes, got : nodes = c_then.node /\ got = c_r.got
  OBVIOUS
<1>2. /\ Sound(nodes) /\ Complete(<< >>, Capture!Root)
      /\ SubKnown => Complete(<<"d">>, got[<<"d">>].identity[1])
      /\ ~SubKnown => Untouched(<<"d">>)
  BY <1>1, Queues DEF QueueFits, ThenFits
<1>3. ASSUME NEW p \in DOMAIN got
      PROVE  /\ got[p].identity[1] \in DOMAIN nodes
             /\ got[p].kind = nodes[got[p].identity[1]].kind
             /\ got[p].data = nodes[got[p].identity[1]].data
             /\ \E n \in Capture!Name : p = Append(<< >>, n) \/ p = Append(<<"d">>, n)
  BY <1>1, <1>3 DEF GotFits, Genuine, Top, Sub
<1>4. PICK kids, d : kids = nodes[Capture!Root].kids /\ d = kids["d"]
  OBVIOUS
<1>5. PICK top : top = Capture!Listed(nodes, << >>, Capture!Root)
  OBVIOUS
<1>6. PICK sub : sub = UNION {Capture!Listed(nodes, e[1], e[2]) :
                                e \in {x \in top : nodes[x[2]].kind = "dir"}}
  OBVIOUS
<1>7. Capture!Tree(nodes) = {<<e[1], nodes[e[2]].kind, nodes[e[2]].data>> : e \in top \cup sub}
  BY <1>5, <1>6 DEF Capture!Tree
<1>8. top = {<<Append(<< >>, n), kids[n]>> : n \in DOMAIN kids}
  BY <1>4, <1>5 DEF Capture!Listed
<1>9. \A n \in DOMAIN kids : /\ n \in Capture!Name /\ kids[n] \in DOMAIN nodes
                             /\ nodes[kids[n]].kind = "dir" => n = "d"
  BY <1>2, <1>4 DEF Sound
<1>10. ASSUME NEW n \in DOMAIN kids
       PROVE  /\ Append(<< >>, n) \in DOMAIN got
              /\ got[Append(<< >>, n)].identity[1] = kids[n]
  <2>1. n \in Capture!Name
    BY <1>9
  <2>2. c_then.node[Capture!Root].kids = kids
    BY <1>1, <1>4
  <2>3. Append(<< >>, n) \in DOMAIN c_r.got
    BY <1>2, <2>1, <2>2 DEF Complete
  <2>4. c_r.got[Append(<< >>, n)].identity[1] = kids[n]
    BY <1>2, <2>1, <2>2, <2>3 DEF Complete
  <2> QED BY <1>1, <2>3, <2>4
<1>11. ASSUME NEW n \in Capture!Name, Append(<< >>, n) \in DOMAIN got
       PROVE  n \in DOMAIN kids
  BY <1>1, <1>2, <1>4, <1>11 DEF Complete
<1>12. SubKnown <=> "d" \in DOMAIN kids /\ nodes[d].kind = "dir"
  <2>1. ASSUME SubKnown PROVE "d" \in DOMAIN kids /\ nodes[d].kind = "dir"
    <3>1. <<"d">> \in DOMAIN got /\ got[<<"d">>].kind = "dir" /\ "d" \in Capture!Name
      BY <1>1, <2>1 DEF SubKnown, Capture!Name
    <3>2. "d" \in DOMAIN kids
      BY <1>11, <3>1, Paths
    <3>3. got[<<"d">>].identity[1] = d
      BY <1>4, <1>10, <3>2, Paths
    <3> QED BY <1>3, <3>1, <3>2, <3>3
  <2>2. ASSUME "d" \in DOMAIN kids, nodes[d].kind = "dir" PROVE SubKnown
    <3>1. <<"d">> \in DOMAIN got /\ got[<<"d">>].identity[1] = d
      BY <1>4, <1>10, <2>2, Paths
    <3> QED BY <1>1, <1>3, <2>2, <3>1 DEF SubKnown
  <2> QED BY <2>1, <2>2
<1>13. SubKnown => <<"d">> \in DOMAIN got /\ got[<<"d">>].identity[1] = d /\ d \in DOMAIN nodes
  <2> HAVE SubKnown
  <2>1. "d" \in DOMAIN kids
    BY <1>12
  <2>2. Append(<< >>, "d") \in DOMAIN got /\ got[Append(<< >>, "d")].identity[1] = kids["d"]
    BY <1>10, <2>1
  <2> QED BY <1>4, <1>9, <2>1, <2>2, Paths
<1>14. \A e : e \in sub <=> /\ SubKnown
                            /\ \E n \in DOMAIN nodes[d].kids :
                                 e = <<Append(<<"d">>, n), nodes[d].kids[n]>>
  <2>1. ASSUME NEW x \in top, nodes[x[2]].kind = "dir" PROVE SubKnown /\ x = <<<<"d">>, d>>
    <3>1. PICK n \in DOMAIN kids : x = <<Append(<< >>, n), kids[n]>>
      BY <1>8, <2>1
    <3>2. x[2] = kids[n]
      BY <3>1
    <3>3. n = "d"
      <4>1. nodes[kids[n]].kind = "dir"
        BY <2>1, <3>2
      <4> QED BY <1>9, <4>1
    <3> QED BY <1>4, <1>12, <2>1, <3>1, <3>2, <3>3, Paths
  <2>2. ASSUME SubKnown PROVE /\ <<<<"d">>, d>> \in top
                              /\ nodes[<<<<"d">>, d>>[2]].kind = "dir"
    BY <1>4, <1>8, <1>12, <2>2, Paths
  <2>3. \A e : e \in Capture!Listed(nodes, <<"d">>, d) <=> \E n \in DOMAIN nodes[d].kids :
                               e = <<Append(<<"d">>, n), nodes[d].kids[n]>>
    BY DEF Capture!Listed
  <2>4. \A e : e \in sub <=> \E x \in top : nodes[x[2]].kind = "dir"
      /\ e \in Capture!Listed(nodes, x[1], x[2])
    BY <1>6
  <2>5. PICK pair : pair = <<<<"d">>, d>>
    OBVIOUS
  <2>6. pair[1] = <<"d">> /\ pair[2] = d
    BY <2>5
  <2>7. \A e : e \in sub <=> SubKnown /\ e \in Capture!Listed(nodes, <<"d">>, d)
    BY <2>1, <2>2, <2>4, <2>5, <2>6
  <2> QED BY <2>3, <2>7
<1>15. ASSUME NEW n \in DOMAIN nodes[d].kids, SubKnown
       PROVE  /\ Append(<<"d">>, n) \in DOMAIN got
              /\ got[Append(<<"d">>, n)].identity[1] = nodes[d].kids[n]
  <2>1. n \in Capture!Name
    BY <1>2, <1>13, <1>15 DEF Sound
  <2> QED BY <1>1, <1>2, <1>13, <1>15, <2>1 DEF Complete
<1>16. ASSUME NEW n \in Capture!Name, Append(<<"d">>, n) \in DOMAIN got
       PROVE  SubKnown /\ n \in DOMAIN nodes[d].kids
  <2>1. SubKnown
    BY <1>1, <1>2, <1>16 DEF Untouched
  <2> QED BY <1>1, <1>2, <1>13, <1>16, <2>1 DEF Complete
<1>17. ASSUME NEW p \in DOMAIN got
       PROVE  <<p, got[p].identity[1]>> \in top \cup sub
  <2>1. PICK n \in Capture!Name : p = Append(<< >>, n) \/ p = Append(<<"d">>, n)
    BY <1>3
  <2>2. CASE p = Append(<< >>, n)
    BY <1>8, <1>10, <1>11, <2>2
  <2>3. CASE p = Append(<<"d">>, n)
    BY <1>14, <1>15, <1>16, <2>3
  <2> QED BY <2>1, <2>2, <2>3
<1>18. ASSUME NEW e \in top \cup sub
       PROVE  e[1] \in DOMAIN got /\ got[e[1]].identity[1] = e[2]
  <2>1. CASE e \in top
    <3>1. PICK n \in DOMAIN kids : e = <<Append(<< >>, n), kids[n]>>
      BY <1>8, <2>1
    <3> QED BY <1>10, <3>1
  <2>2. CASE e \in sub
    <3>1. SubKnown /\ \E n \in DOMAIN nodes[d].kids :
                               e = <<Append(<<"d">>, n), nodes[d].kids[n]>>
      BY <1>14, <2>2
    <3> QED BY <1>15, <3>1
  <2> QED BY <2>1, <2>2
<1>19. ASSUME NEW z PROVE z \in {<<p, got[p].kind, got[p].data>> : p \in DOMAIN got} <=>
                          z \in Capture!Tree(nodes)
  <2>1. ASSUME NEW p \in DOMAIN got, z = <<p, got[p].kind, got[p].data>>
        PROVE  z \in Capture!Tree(nodes)
    <3>1. PICK e \in top \cup sub : e = <<p, got[p].identity[1]>>
      BY <1>17
    <3>2. z = <<e[1], nodes[e[2]].kind, nodes[e[2]].data>>
      BY <1>3, <2>1, <3>1
    <3> QED BY <1>7, <3>2
  <2>2. ASSUME NEW e \in top \cup sub, z = <<e[1], nodes[e[2]].kind, nodes[e[2]].data>>
        PROVE  z \in {<<p, got[p].kind, got[p].data>> : p \in DOMAIN got}
    <3>1. PICK p \in DOMAIN got : p = e[1] /\ got[p].identity[1] = e[2]
      BY <1>18
    <3>2. z = <<p, got[p].kind, got[p].data>>
      BY <1>3, <2>2, <3>1
    <3> QED BY <3>2
  <2> QED BY <1>7, <2>1, <2>2
<1>20. {<<p, got[p].kind, got[p].data>> : p \in DOMAIN got} = Capture!Tree(nodes)
  BY <1>19
<1> QED BY <1>1, <1>20

LEMMA EndPassKeeps ==
  ASSUME CaptureInv, Capture!EndPass PROVE CaptureInv'
<1>1. /\ c_r.at = "missing" /\ DiskRests /\ c_then' = c_then /\ ReaderTyped /\ Disk
      /\ Sound(c_node) /\ c_r.pass \in {1, 2}
  BY DEF Capture!EndPass, Capture!Reads, Capture!At, DiskRests, CaptureInv, Disk, ReaderTyped
<1>2. PICK got, missing : got = c_r.got /\ missing = {p \in c_r.listed : Capture!Gone(p)}
  OBVIOUS
<1>3. PICK whole : whole = [p \in DOMAIN got \cup missing |-> IF p \in missing THEN Capture!Missing
                                                          ELSE got[p]]
  OBVIOUS
<1>4. /\ DOMAIN whole = DOMAIN got \cup missing
      /\ \A p \in missing : whole[p] = Capture!Missing
      /\ \A p \in DOMAIN got : p \notin missing /\ whole[p] = got[p]
  <2>1. \A p \in DOMAIN got : p \notin missing
    BY <1>2 DEF Capture!Gone
  <2> QED BY <1>3, <2>1
<1>5. IsFiniteSet(missing) /\ IsFiniteSet(DOMAIN whole)
  <2>1. IsFiniteSet(c_r.listed) /\ missing \subseteq c_r.listed /\ IsFiniteSet(DOMAIN got)
    BY <1>1, <1>2 DEF ReaderTyped
  <2>2. IsFiniteSet(missing)
    BY <2>1, FS_Subset
  <2>3. IsFiniteSet(DOMAIN got \cup missing)
    BY <2>1, <2>2, FS_Union
  <2> QED BY <1>4, <2>2, <2>3
<1>6. CASE c_r.pass = 1
  <2>1. c_r' = [c_r EXCEPT !.at = "root", !.pass = 2, !.first = whole]
    BY <1>2, <1>3, <1>6 DEF Capture!EndPass
  <2>2. /\ DOMAIN c_r' = Fields /\ c_r'.pass = 2
        /\ c_r'.at = "root" /\ c_r'.fd = c_r.fd
        /\ c_r'.data = c_r.data /\ c_r'.policy = c_r.policy
        /\ c_r'.file = c_r.file /\ c_r'.source = c_r.source /\ c_r'.identity = c_r.identity
        /\ c_r'.names = c_r.names /\ c_r'.child = c_r.child /\ c_r'.got = c_r.got
        /\ c_r'.listed = c_r.listed /\ c_r'.first = whole /\ c_r'.bound = c_r.bound
    BY <1>1, <2>1 DEF ReaderTyped, Fields
  <2>3. ReaderTyped'
    BY <1>1, <1>5, <2>2 DEF ReaderTyped, DiskRests, Met
  <2>4. PolicyFits' /\ EndFits' /\ ~Second'
    BY <1>1, <1>6, <2>2 DEF PolicyFits, EndFits, Second, CaptureInv
  <2>5. IndexFits'
    BY <1>1, <1>6, <2>2 DEF IndexFits, CaptureInv, DiskRests
  <2>6. FirstFits'
    <3>1. \A p \in DOMAIN got : Met(c_node, got[p].identity)
      BY <1>2, <1>6 DEF CaptureInv, FirstFits
    <3>2. Met(c_node, Capture!Missing.identity)
      <4>1. /\ Capture!Missing.identity = <<0, 0>> /\ 0 \in DOMAIN c_node
            /\ c_node[0].ctime \in Nat
        BY <1>1 DEF Capture!Missing, Sound, Capture!Root
      <4> QED BY <4>1 DEF Met, Pair
    <3>3. \A p \in DOMAIN whole : Met(c_node, whole[p].identity)
      BY <1>4, <3>1, <3>2
    <3> QED BY <1>1, <2>2, <3>3 DEF FirstFits, DiskRests
  <2> QED BY <1>1, <2>3, <2>4, <2>5, <2>6, ReadKeeps
<1>7. CASE c_r.pass = 2 /\ Capture!Fails
  BY <1>1, <1>7, FailKeeps
<1>8. CASE /\ c_r.pass = 2 /\ Capture!Goes("relist")
           /\ \A p \in missing : p \in DOMAIN c_r.first /\ c_r.first[p] = Capture!Missing
           /\ Cardinality(DOMAIN whole) = Cardinality(DOMAIN c_r.first)
  <2>1. /\ DOMAIN c_r' = Fields /\ c_r'.pass = c_r.pass
        /\ c_r'.at = "relist" /\ c_r'.fd = c_r.fd
        /\ c_r'.data = c_r.data /\ c_r'.policy = c_r.policy
        /\ c_r'.file = c_r.file /\ c_r'.source = c_r.source /\ c_r'.identity = c_r.identity
        /\ c_r'.names = c_r.names /\ c_r'.child = c_r.child /\ c_r'.got = c_r.got
        /\ c_r'.listed = c_r.listed /\ c_r'.first = c_r.first /\ c_r'.bound = c_r.bound
        /\ c_r'.ids = c_r.ids /\ c_r'.queue = c_r.queue
    BY <1>1, <1>8 DEF ReaderTyped, Fields, Capture!Goes
  <2>2. ReaderTyped'
    BY <1>1, <1>8, <2>1 DEF ReaderTyped, DiskRests, Met
  <2>3. Second /\ ThenFits /\ GotFits /\ QueueFits /\ HeadFits /\ c_r.queue = << >>
    BY <1>1, <1>8 DEF Second, CaptureInv, HeadFits
  <2>4. DOMAIN whole = DOMAIN c_r.first
    <3>1. DOMAIN whole \subseteq DOMAIN c_r.first
      BY <1>2, <1>4, <1>8, <2>3 DEF GotFits
    <3>2. IsFiniteSet(DOMAIN c_r.first)
      BY <1>1 DEF ReaderTyped
    <3> QED BY <1>8, <3>1, <3>2, FS_Subset
  <2>5. \A p \in DOMAIN got : c_r.first[p] = got[p] /\ got[p].kind # "missing"
    <3>1. ASSUME NEW p \in DOMAIN got PROVE c_r.first[p] = got[p] /\ got[p].kind # "missing"
      <4>1. c_r.first[p] = got[p] /\ Genuine(got[p], c_then.node)
        BY <1>2, <2>3 DEF GotFits
      <4> QED BY <2>3, <4>1 DEF Genuine, ThenFits, Sound
    <3> QED BY <3>1
  <2>6. \A p \in missing : c_r.first[p].kind = "missing"
    BY <1>8 DEF Capture!Missing
  <2>7. {p \in DOMAIN c_r.first : c_r.first[p].kind # "missing"} = DOMAIN got
    BY <1>4, <2>4, <2>5, <2>6
  <2>8. Capture!Captured = {<<p, got[p].kind, got[p].data>> : p \in DOMAIN got}
    BY <2>5, <2>7 DEF Capture!Captured
  <2>9. Capture!Captured = Capture!Tree(c_then.node)
    BY <1>2, <2>3, <2>8, ObservedTree
  <2>10. Capture!Captured' = Capture!Captured
    BY <2>1 DEF Capture!Captured
  <2>11. EndFits'
    BY <1>1, <1>8, <2>1, <2>9, <2>10 DEF EndFits
  <2>12. PolicyFits' /\ FirstFits'
    BY <1>1, <1>8, <2>1 DEF PolicyFits, FirstFits, CaptureInv
  <2>13. IndexFits'
    BY <1>1, <1>8, <2>1 DEF IndexFits, CaptureInv, DiskRests
  <2>14. ThenFits' /\ GotFits' /\ QueueFits'
    BY <1>1, <2>1, <2>3, GotStays DEF ThenFits, DiskRests
  <2>15. HeadFits'
    BY <2>1 DEF HeadFits, InDirectory, InListing, AtChild
  <2> QED BY <1>1, <2>2, <2>11, <2>12, <2>13, <2>14, <2>15, ReadKeeps
<1> QED BY <1>1, <1>2, <1>3, <1>6, <1>7, <1>8
    DEF Capture!EndPass, Capture!Cardinality, Cardinality

\* The two looks at the index that end a capture.
LEMMA LastLookKeeps ==
  ASSUME CaptureInv, NEW to,
         <<c_r.at, to>> \in {<<"relist", "rebind">>, <<"rebind", "done">>},
         to = "done" => c_index.id = c_r.bound,
         Capture!Goes(to), Capture!Reads
  PROVE  CaptureInv'
<1>1. /\ c_r.at \in {"relist", "rebind"} /\ DiskRests /\ c_then' = c_then
      /\ ReaderTyped /\ c_r.pass # 0 /\ to \in {"rebind", "done"}
      /\ to = "done" => c_r.at = "rebind"
  BY DEF Capture!Reads, DiskRests, CaptureInv, ReaderTyped
<1>2. /\ DOMAIN c_r' = Fields /\ c_r'.pass = c_r.pass
      /\ c_r'.at = to /\ c_r'.fd = c_r.fd
      /\ c_r'.data = c_r.data /\ c_r'.policy = c_r.policy
      /\ c_r'.file = c_r.file /\ c_r'.source = c_r.source /\ c_r'.identity = c_r.identity
      /\ c_r'.names = c_r.names /\ c_r'.child = c_r.child /\ c_r'.got = c_r.got
      /\ c_r'.listed = c_r.listed /\ c_r'.first = c_r.first /\ c_r'.bound = c_r.bound
      /\ c_r'.ids = c_r.ids /\ c_r'.queue = c_r.queue
  BY <1>1 DEF ReaderTyped, Fields, Capture!Goes
<1>3. ReaderTyped'
  BY <1>1, <1>2 DEF ReaderTyped, DiskRests, Met
<1>4. PolicyFits' /\ FirstFits'
  BY <1>1, <1>2 DEF PolicyFits, FirstFits, CaptureInv, DiskRests, Met
<1>5. IndexFits'
  BY <1>1, <1>2 DEF IndexFits, CaptureInv, DiskRests
<1>6. EndFits'
  <2>1. Capture!Captured' = Capture!Captured
    BY <1>2 DEF Capture!Captured
  <2> QED BY <1>1, <1>2, <2>1 DEF EndFits, CaptureInv, DiskRests
<1>7. Second' => Second /\ ThenFits' /\ GotFits' /\ QueueFits'
  <2>1. Second' => Second /\ ThenFits /\ GotFits /\ QueueFits
    BY <1>1, <1>2 DEF CaptureInv, Second
  <2> QED BY <1>1, <1>2, <2>1, GotStays DEF ThenFits, DiskRests
<1>8. HeadFits'
  BY <1>1, <1>2 DEF HeadFits, InDirectory, InListing, AtChild
<1> QED BY <1>1, <1>3, <1>4, <1>5, <1>6, <1>7, <1>8, ReadKeeps

LEMMA LookKeeps ==
  ASSUME CaptureInv, Capture!RelistIndex \/ Capture!VerifyBinding PROVE CaptureInv'
<1>1. CASE Capture!RelistIndex
  <2>1. c_r.at = "relist" /\ Capture!Reads /\ DiskRests /\ c_then' = c_then
    BY <1>1 DEF Capture!RelistIndex, Capture!At, Capture!Reads, DiskRests
  <2>2. Capture!Goes("rebind") \/ Capture!Fails
    BY <1>1 DEF Capture!RelistIndex
  <2>3. Capture!Fails => CaptureInv'
    BY <2>1, FailKeeps
  <2>4. Capture!Goes("rebind") => CaptureInv'
    <3>1. <<c_r.at, "rebind">> \in {<<"relist", "rebind">>, <<"rebind", "done">>}
        /\ "rebind" # "done"
      BY <2>1
    <3> QED BY <2>1, <3>1, LastLookKeeps
  <2> QED BY <2>2, <2>3, <2>4
<1>2. CASE Capture!VerifyBinding
  <2>1. c_r.at = "rebind" /\ Capture!Reads /\ DiskRests /\ c_then' = c_then
    BY <1>2 DEF Capture!VerifyBinding, Capture!At, Capture!Reads, DiskRests
  <2>2. \/ Capture!Goes("done") /\ c_index.id = c_r.bound
        \/ Capture!Fails
    BY <1>2 DEF Capture!VerifyBinding
  <2>3. Capture!Fails => CaptureInv'
    BY <2>1, FailKeeps
  <2>4. Capture!Goes("done") /\ c_index.id = c_r.bound => CaptureInv'
    <3>1. <<c_r.at, "done">> \in {<<"relist", "rebind">>, <<"rebind", "done">>}
      BY <2>1
    <3> QED BY <2>1, <3>1, LastLookKeeps
  <2> QED BY <2>2, <2>3, <2>4
<1> QED BY <1>1, <1>2

LEMMA CaptureBegins ==
  ASSUME CaptureParameters, Capture!Init PROVE CaptureInv
<1>1. PICK nodes : nodes = c_node
  OBVIOUS
<1>2. /\ DOMAIN nodes = 0..5
      /\ nodes[0] = Capture!Dir(0, [n \in {"a", "d"} |-> IF n = "a" THEN 1 ELSE 2])
      /\ nodes[1] = Capture!File(0, Capture!Some)
      /\ nodes[2] = Capture!Dir(0, [n \in {"b"} |-> 3])
      /\ nodes[3] = Capture!File(0, Capture!Some)
      /\ nodes[4] = Capture!Dir(0, [n \in {"policy"} |-> 5])
      /\ nodes[5] = Capture!File(0, Capture!Some)
  BY <1>1 DEF Capture!Init, Capture!Root, Capture!PolicyDir
<1>3. \A i \in 0..5 : /\ DOMAIN nodes[i] = {"kind", "ctime", "data", "kids"}
                      /\ nodes[i].kind \in {"file", "dir"} /\ nodes[i].ctime = 0
                      /\ nodes[i].kind = "dir" => nodes[i].data = Capture!Some
  <2> TAKE i \in 0..5
  <2>1. ASSUME NEW kids
        PROVE  LET inode == Capture!Dir(0, kids)
               IN  /\ DOMAIN inode = {"kind", "ctime", "data", "kids"}
                   /\ inode.kind = "dir" /\ inode.ctime = 0 /\ inode.data = Capture!Some
    BY DEF Capture!Dir
  <2>2. LET inode == Capture!File(0, Capture!Some)
        IN  /\ DOMAIN inode = {"kind", "ctime", "data", "kids"}
            /\ inode.kind = "file" /\ inode.ctime = 0
    BY DEF Capture!File
  <2>3. CASE i \in {1, 3, 5}
    BY <1>2, <2>2, <2>3
  <2>4. CASE i = 0
    BY <1>2, <2>1, <2>4
  <2>5. CASE i = 2
    BY <1>2, <2>1, <2>5
  <2>6. CASE i = 4
    BY <1>2, <2>1, <2>6
  <2>7. i = 0 \/ i = 1 \/ i = 2 \/ i = 3 \/ i = 4 \/ i = 5
    OBVIOUS
  <2> QED BY <2>3, <2>4, <2>5, <2>6, <2>7
<1>4. /\ nodes[0].kind = "dir" /\ nodes[1].kind = "file" /\ nodes[2].kind = "dir"
      /\ nodes[3].kind = "file" /\ nodes[5].kind = "file"
      /\ nodes[0].kids = [n \in {"a", "d"} |-> IF n = "a" THEN 1 ELSE 2]
      /\ nodes[1].kids = << >> /\ nodes[2].kids = [n \in {"b"} |-> 3] /\ nodes[3].kids = << >>
      /\ nodes[4].kids = [n \in {"policy"} |-> 5] /\ nodes[5].kids = << >>
  BY <1>2 DEF Capture!File, Capture!Dir
<1>5. \A i \in 0..5 : \A n \in DOMAIN nodes[i].kids :
            /\ n \in Capture!Name
            /\ nodes[i].kids[n] \in 1..5
            /\ nodes[nodes[i].kids[n]].kind = "dir" => i = Capture!Root /\ n = "d"
  <2> TAKE i \in 0..5
  <2>1. i = 0 \/ i = 1 \/ i = 2 \/ i = 3 \/ i = 4 \/ i = 5
    OBVIOUS
  <2>2. CASE i = 0
    BY <1>4, <2>2 DEF Capture!Name, Capture!Root
  <2>3. CASE i \in {1, 3, 5}
    BY <1>4, <2>3
  <2>4. CASE i = 2
    BY <1>4, <2>4 DEF Capture!Name
  <2>5. CASE i = 4
    BY <1>4, <2>5 DEF Capture!Name
  <2> QED BY <2>1, <2>2, <2>3, <2>4, <2>5
<1>6. Sound(nodes)
  <2>1. 0..5 \subseteq Nat /\ \A j \in 1..5 : j \in 0..5 /\ j # 0
    OBVIOUS
  <2> QED BY <1>2, <1>3, <1>4, <1>5, <2>1 DEF Sound, Capture!Root
<1>7. Disk
  <2>1. IsFiniteSet({<<"a">>, <<"d", "b">>})
    <3>1. IsFiniteSet({<<"a">>})
      BY FS_Singleton
    <3>2. {<<"a">>, <<"d", "b">>} = {<<"a">>} \cup {<<"d", "b">>}
      OBVIOUS
    <3> QED BY <3>1, <3>2, FS_AddElement
  <2>2. /\ c_acts = 0 /\ c_index.id = 0 /\ c_index.paths = {<<"a">>, <<"d", "b">>}
        /\ c_index.former = {}
    BY DEF Capture!Init
  <2> QED BY <1>1, <1>2, <1>3, <1>6, <2>1, <2>2 DEF Disk, Capture!PolicyDir, Capture!FirstFree
<1>8. /\ DOMAIN c_r = Fields /\ c_r.at = "policy" /\ c_r.pass = 0
         /\ c_r.source \in {"worktree", "index"}
      /\ c_r.fd = Capture!Root /\ c_r.names = << >> /\ c_r.child = "a" /\ c_r.identity = <<0, 0>>
      /\ c_r.file = 1 /\ c_r.got = << >> /\ c_r.first = << >> /\ c_r.listed = {}
      /\ DOMAIN c_then = {"node", "paths", "policy", "swapped"} /\ c_then.swapped = FALSE
  BY DEF Capture!Init, Fields
<1>9. DOMAIN << >> = {} /\ IsFiniteSet({})
  BY FS_EmptySet
<1>10. ReaderTyped
  <2>1. Met(c_node, <<0, 0>>)
    BY <1>1, <1>2, <1>3 DEF Met, Pair
  <2>2. 0 \in DOMAIN c_node /\ 1 \in DOMAIN c_node
    BY <1>1, <1>2
  <2> QED BY <1>8, <1>9, <2>1, <2>2 DEF ReaderTyped, Capture!Root, Capture!Name
<1>11. Capture!TypeOK
  <2>1. \A i \in DOMAIN c_node : \A n \in DOMAIN c_node[i].kids :
         c_node[i].kids[n] \in DOMAIN c_node
    BY <1>1, <1>6 DEF Sound
  <2>2. c_acts \in 0..CaptureActs
    BY DEF Capture!Init, CaptureParameters
  <2> QED BY <1>10, <2>1, <2>2 DEF Capture!TypeOK, Capture!Kids, ReaderTyped
<1>12. PolicyFits /\ IndexFits /\ FirstFits /\ EndFits /\ ~Second
  BY <1>8, <1>9 DEF PolicyFits, IndexFits, FirstFits, EndFits, Second
<1> QED BY <1>7, <1>10, <1>11, <1>12 DEF CaptureInv

LEMMA CaptureSteps ==
  ASSUME CaptureParameters, CaptureInv, [Capture!Next]_(Capture!vars) PROVE CaptureInv'
<1>1. CASE Capture!Write
  BY <1>1, WriteMoves, MovedKeeps, PutBackKeeps
<1>2. CASE Capture!Read
  BY <1>2, OpenPolicyKeeps, VerifyPolicyKeeps, BindIndexKeeps, ListIndexKeeps, BeginPassKeeps,
     ChainKeeps, NextKeeps, BeforeKeeps, ListKeeps, StatKeeps, OpenKeeps, ReadFileKeeps,
         CheckKeeps,
     RestatKeeps, EndPassKeeps, LookKeeps DEF Capture!Read
<1>3. CASE UNCHANGED Capture!vars
  <2>1. DiskRests /\ c_r' = c_r /\ c_then' = c_then
    BY <1>3 DEF Capture!vars, DiskRests
  <2>2. ReaderTyped' /\ PolicyFits' /\ IndexFits' /\ FirstFits' /\ EndFits'
    <3>1. ReaderTyped'
      BY <2>1 DEF CaptureInv, ReaderTyped, DiskRests, Met
    <3>2. PolicyFits' /\ IndexFits'
      BY <2>1 DEF CaptureInv, PolicyFits, IndexFits, DiskRests
    <3>3. FirstFits'
      BY <2>1 DEF CaptureInv, FirstFits, DiskRests, Met
    <3>4. EndFits'
      <4>1. Capture!Captured' = Capture!Captured
        BY <2>1 DEF Capture!Captured
      <4> QED BY <2>1, <4>1 DEF CaptureInv, EndFits, DiskRests
    <3> QED BY <3>1, <3>2, <3>3, <3>4
  <2>3. Second' => (ThenFits /\ GotFits /\ QueueFits /\ HeadFits)'
    <3>1. Second' => Second
      BY <2>1 DEF Second
    <3>2. Second => ThenFits' /\ GotFits' /\ QueueFits'
      BY <2>1, GotStays DEF CaptureInv, ThenFits, DiskRests
    <3>3. /\ Here' = Here /\ Dir' = Dir /\ (Unmoved' => Unmoved)
          /\ (Complete(Here, Dir) => Complete(Here, Dir)') /\ (Untouched(Here) =>
             Untouched(Here)')
      BY <2>1 DEF Here, Dir, Unmoved, DiskRests, Complete, Untouched
    <3>4. Second => HeadFits'
      BY <2>1, <3>3 DEF CaptureInv, HeadFits, InDirectory, InListing, AtChild
    <3> QED BY <3>1, <3>2, <3>4
  <2> QED BY <2>1, <2>2, <2>3, ReadKeeps
<1> QED BY <1>1, <1>2, <1>3 DEF Capture!Next

LEMMA CaptureInvHolds ==
  ASSUME CaptureInv PROVE Capture!TypeOK /\ Capture!CaptureIsOneMoment
<1>1. Capture!TypeOK
  BY DEF CaptureInv
<1>2. ASSUME c_r.at = "done"
      PROVE  /\ c_r.policy = c_then.policy
             /\ c_r.source = "worktree" => Capture!Captured = Capture!Tree(c_then.node)
             /\ ~c_then.swapped =>
                  c_r.listed = IF c_r.source = "worktree" THEN c_then.paths ELSE c_index.paths
  <2>1. c_r.pass # 0 /\ c_r.bound = c_index.id
    BY <1>2 DEF CaptureInv, ReaderTyped, EndFits
  <2>2. c_r.policy = c_then.policy /\ (~c_then.swapped => c_r.listed = c_index.paths)
    BY <1>2, <2>1 DEF CaptureInv, PolicyFits, IndexFits
  <2>3. c_r.source = "worktree" => Second /\ Capture!Captured = Capture!Tree(c_then.node)
    BY <1>2 DEF CaptureInv, EndFits, Second
  <2>4. Second /\ ~c_then.swapped => c_then.paths = c_index.paths
    BY <2>1 DEF CaptureInv, ThenFits
  <2> QED BY <2>2, <2>3, <2>4
<1> QED BY <1>1, <1>2 DEF Capture!CaptureIsOneMoment

\* A capture that succeeds is the board of one moment: the files and contents it
\* has read in many calls, without a lock, are those of the start of its second
\* observation, whatever is written meanwhile, and so are the tracked paths unless
\* an earlier index was put back (walkCapture, readCaptureOpened,
\* captureBinding.verify).  Every change of a file is taken to leave a change time.
THEOREM CapturedAtOnceAlways == Capture!Spec => [](Capture!TypeOK /\ Capture!CaptureIsOneMoment)
<1> USE CaptureAssumption
<1>1. Capture!Init => CaptureInv
  BY CaptureBegins
<1>2. CaptureInv /\ [Capture!Next]_(Capture!vars) => CaptureInv'
  BY CaptureSteps
<1>3. CaptureInv => Capture!TypeOK /\ Capture!CaptureIsOneMoment
  BY CaptureInvHolds
<1> QED BY <1>1, <1>2, <1>3, PTL DEF Capture!Spec

\* It is so in LooseProtocols too, where the other protocols rest (walkCapture).
THEOREM CaptureIsOneMomentAlways == Behaviour => []CaptureIsOneMoment
<1> USE CaptureAssumption
<1>1. CaptureInv => CaptureIsOneMoment
  BY CaptureInvHolds DEF CaptureIsOneMoment
<1>2. Begins => CaptureInv
  BY CaptureBegins DEF Begins
<1>3. CaptureInv /\ [Continues]_all => CaptureInv'
  <2>1. capture' = capture => Capture!vars' = Capture!vars
    BY DEF capture, Capture!vars
  <2>2. [Continues]_all => [Capture!Next]_(Capture!vars)
    BY <2>1 DEF Continues, all
  <2> QED BY <2>2, CaptureSteps
<1> QED BY <1>1, <1>2, <1>3, PTL DEF Behaviour

=============================================================================
