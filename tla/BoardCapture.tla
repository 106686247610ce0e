---------------------------- MODULE BoardCapture ----------------------------
(***************************************************************************)
(* Capturing a board for the candidate diagnostic while others write to it *)
(* (internal/boardfiles: candidate_policy_unix.go, cards_only_capture_*;   *)
(* internal/taskflow: cards_only_capture*.go; internal/candidatediagnostic)*)
(*                                                                         *)
(* The reader takes no lock.  It reads the candidate policy, binds to the  *)
(* git index, observes the board twice, one system call at a time, and     *)
(* wants the two observations and the two index listings to agree.  The    *)
(* identity of a file is its inode and change time; a write, a rename and  *)
(* a removal each leave a change time that was not there before (two of    *)
(* them within one tick of the file system's clock are not told apart; the *)
(* code has no other means, and neither has the model).  The identity of   *)
(* the git index is its inode, size and modification time, which an index  *)
(* that was put aside and is put back still has.                           *)
(*                                                                         *)
(* The board is the directory inode Root: a file "a" and a directory "d"   *)
(* with a file "b" at first.  That the path leads to this inode is checked *)
(* at the end by the code; renaming the board itself is left out here.     *)
(***************************************************************************)
EXTENDS Naturals, Sequences, FiniteSets

CONSTANTS
  MaxActs,      \* bound: what writers do while the capture runs
  Data          \* contents of a file

VARIABLES
  node,         \* inode -> file or directory
  index,        \* the git index: its identity and the paths it tracks, and the
                \* earlier indexes that somebody may have kept
  acts,
  r,            \* the reader
  then          \* history: what was there when the second observation began, and
                \* whether an earlier index was put back since the reader bound one

vars == <<node, index, acts, r, then>>

Name == {"a", "b", "d", "policy"}
Root == 0
PolicyDir == 4
FirstFree == 6
Some == CHOOSE x \in Data : TRUE
Other == CHOOSE x \in Data : x # Some

File(t, data) == [kind |-> "file", ctime |-> t, data |-> data, kids |-> << >>]
Dir(t, kids) == [kind |-> "dir", ctime |-> t, data |-> Some, kids |-> kids]
Identity(i) == <<i, node[i].ctime>>
Kids(i) == node[i].kids
IsDir(i) == node[i].kind = "dir"

Put(f, x, y) == [z \in DOMAIN f \cup {x} |-> IF z = x THEN y ELSE f[z]]
Drop(f, x) == [z \in DOMAIN f \ {x} |-> f[z]]

\* Everything reachable from the board's directory: a path, a kind, contents.
Listed(nodes, path, i) == {<<Append(path, n), nodes[i].kids[n]>> : n \in DOMAIN nodes[i].kids}
Tree(nodes) ==
  LET top == Listed(nodes, << >>, Root)
      sub == UNION {Listed(nodes, e[1], e[2]) : e \in {x \in top : nodes[x[2]].kind = "dir"}}
  IN {<<e[1], nodes[e[2]].kind, nodes[e[2]].data>> : e \in top \cup sub}
PolicyNow == IF "policy" \in DOMAIN Kids(PolicyDir) THEN node[Kids(PolicyDir)["policy"]].data ELSE Other

-----------------------------------------------------------------------------
(* The writers: editors, git, other commands.                              *)

Writes ==
  /\ acts < MaxActs
  /\ r.at \notin {"done", "failed"}
  /\ acts' = acts + 1
  /\ UNCHANGED r

Acts == Writes /\ UNCHANGED then

Touched(i) == [node[i] EXCEPT !.ctime = acts + 1]

Edit(i) ==
  /\ Acts
  /\ node[i].kind = "file"
  /\ node' = [node EXCEPT ![i] = File(acts + 1, IF node[i].data = Some THEN Other ELSE Some)]
  /\ UNCHANGED index

\* A new file or directory appears under a name, over a file that is there.
Appear(i, n, new) ==
  /\ Acts
  /\ IsDir(i) /\ (n \in DOMAIN Kids(i) => ~IsDir(Kids(i)[n]))
  /\ LET next == FirstFree + acts
     IN node' = Put([node EXCEPT ![i] = [Touched(i) EXCEPT !.kids = Put(Kids(i), n, next)]], next, new)
  /\ UNCHANGED index

\* A name is removed or renamed to somewhere outside the board.
Vanish(i, n) ==
  /\ Acts
  /\ IsDir(i) /\ n \in DOMAIN Kids(i)
  /\ node' = [node EXCEPT ![i] = [Touched(i) EXCEPT !.kids = Drop(Kids(i), n)],
                          ![Kids(i)[n]] = Touched(Kids(i)[n])]
  /\ UNCHANGED index

\* What was renamed away comes back.
Return(i, n, old) ==
  /\ Acts
  /\ IsDir(i) /\ n \notin DOMAIN Kids(i)
  /\ \A j \in DOMAIN node : \A m \in DOMAIN Kids(j) : Kids(j)[m] # old
  /\ IsDir(old) = (n = "d") /\ (n = "d" => i = Root)
  /\ node' = [node EXCEPT ![i] = [Touched(i) EXCEPT !.kids = Put(Kids(i), n, old)],
                          ![old] = Touched(old)]
  /\ UNCHANGED index

Index == [id |-> index.id, paths |-> index.paths]

\* git writes a new index and renames it over the old one.
StageInIndex(paths) ==
  /\ Acts
  /\ index' = [id |-> acts + 1, paths |-> paths, former |-> index.former \cup {Index}]
  /\ UNCHANGED node

\* An index that was renamed away is renamed back, over the one that is there.
PutIndexBack(old) ==
  /\ Writes
  /\ index' = [id |-> old.id, paths |-> old.paths, former |-> index.former \cup {Index}]
  /\ then' = [then EXCEPT !.swapped = IF r.pass > 0 THEN TRUE ELSE @]
  /\ UNCHANGED node

Write ==
  \/ \E i \in DOMAIN node : Edit(i)
  \/ \E i \in {Root, PolicyDir}, n \in {"b", "policy"}, x \in Data : Appear(i, n, File(acts + 1, x))
  \/ \E i \in DOMAIN node \ {Root, PolicyDir} : Appear(i, "b", File(acts + 1, Some))
  \/ Appear(Root, "d", Dir(acts + 1, << >>))
  \/ \E i \in DOMAIN node, n \in Name : Vanish(i, n)
  \/ \E i \in DOMAIN node, n \in {"b", "d"}, old \in DOMAIN node \ {Root, PolicyDir} : Return(i, n, old)
  \/ \E paths \in {{<<"a">>}, {<<"a">>, <<"d", "b">>}} : StageInIndex(paths)
  \/ \E old \in index.former : PutIndexBack(old)

-----------------------------------------------------------------------------
(* The reader.  fd is an open directory, file an open file.                *)

Goes(at) == r' = [r EXCEPT !.at = at]
Fails == r' = [r EXCEPT !.at = "failed"]
Reads == UNCHANGED <<node, index, acts, then>>
At(at) == r.at = at

\* readCandidatePolicyPlatform: its directory, then the file like any other.
OpenPolicyDir ==
  /\ At("policy")
  /\ r' = [r EXCEPT !.at = "stat", !.fd = PolicyDir, !.before = Identity(PolicyDir),
                    !.names = [n \in {"policy"} |-> "file"]]
  /\ Reads

\* verifyCandidatePath: the directory is still the one that was opened.
VerifyPolicyPath ==
  /\ At("verify policy")
  /\ IF Identity(PolicyDir) = r.before THEN Goes("restat") ELSE Fails
  /\ Reads

\* newCaptureBinding, then captureIndex.
Bind ==
  /\ At("bind")
  /\ r' = [r EXCEPT !.at = "listing", !.bound = index.id]
  /\ Reads

ListIndex ==
  /\ At("listing")
  /\ r' = [r EXCEPT !.at = IF r.source = "index" THEN "relist" ELSE "root", !.listed = index.paths]
  /\ Reads

\* observeCapture and walkCapture begin: the identity of the pinned directory.
BeginPass ==
  /\ At("root")
  /\ r' = [r EXCEPT !.at = "chain", !.fd = Root, !.depth = 0,
                    !.ids = [p \in {<< >>} |-> Identity(Root)], !.queue = <<<< >>>>,
                    !.got = << >>]
  /\ then' = IF r.pass = 2 THEN [then EXCEPT !.node = node, !.paths = index.paths] ELSE then
  /\ UNCHANGED <<node, index, acts>>

\* openRecordedCaptureDirectory: each directory of the chain is the recorded
\* one; before a listing ("chain") and after it ("rechain").
Chain ==
  /\ r.at \in {"chain", "rechain"}
  /\ LET path == Head(r.queue)
         recorded == r.ids[SubSeq(path, 1, r.depth)]
     IN IF Identity(r.fd) # recorded THEN Fails
        ELSE IF r.depth = Len(path)
             THEN IF At("chain") THEN Goes("before")
                  ELSE r' = [r EXCEPT !.at = "next", !.queue = Tail(@)]
             ELSE LET n == path[r.depth + 1]
                  IN IF n \in DOMAIN Kids(r.fd) /\ IsDir(Kids(r.fd)[n])
                     THEN r' = [r EXCEPT !.fd = Kids(r.fd)[n], !.depth = @ + 1]
                     ELSE Fails
  /\ Reads

NextDirectory ==
  /\ At("next")
  /\ r' = IF r.queue # << >> THEN [r EXCEPT !.at = "chain", !.fd = Root, !.depth = 0]
          ELSE [r EXCEPT !.at = "missing"]
  /\ Reads

\* listCaptureDirectory: the identity before, the names with their kinds.
BeforeListing ==
  /\ At("before")
  /\ r' = [r EXCEPT !.at = "list", !.before = Identity(r.fd)]
  /\ Reads

ListDirectory ==
  /\ At("list")
  /\ r' = [r EXCEPT !.at = "stat", !.names = [n \in DOMAIN Kids(r.fd) |-> node[Kids(r.fd)[n]].kind]]
  /\ Reads

Here(n) == n \in DOMAIN Kids(r.fd)
PathOf(n) == Append(Head(r.queue), n)

\* captureEntryIdentity of the next name, or the end of the listing.
StatChild ==
  /\ At("stat")
  /\ IF r.names = << >>
     THEN IF Identity(r.fd) = r.before
          THEN r' = [r EXCEPT !.at = "rechain", !.fd = Root, !.depth = 0]
          ELSE Fails
     ELSE \E n \in DOMAIN r.names :
            r' = IF Here(n) THEN [r EXCEPT !.at = "open", !.child = n, !.identity = Identity(Kids(r.fd)[n])]
                 ELSE [r EXCEPT !.at = "failed"]
  /\ then' = IF r.pass = 0 THEN [then EXCEPT !.policy = PolicyNow] ELSE then
  /\ UNCHANGED <<node, index, acts>>

\* Mutant of Matches: the bytes are compared, not which file held them when.
MatchesBytes(path, kind, data) ==
  r.pass = 2 => /\ path \in DOMAIN r.first
                /\ r.first[path].kind = kind /\ r.first[path].data = data

\* add: the second observation must be the first one again.
Matches(path, kind, data) ==
  r.pass = 2 => /\ path \in DOMAIN r.first
                /\ r.first[path] = [kind |-> kind, data |-> data, identity |-> r.identity]
Adds(kind, data, queue) ==
  LET path == PathOf(r.child)
  IN IF Matches(path, kind, data)
     THEN r' = [r EXCEPT !.at = "stat", !.names = Drop(@, r.child), !.queue = queue,
                  !.ids = IF kind = "dir" THEN Put(@, path, r.identity) ELSE @,
                  !.got = Put(@, path, [kind |-> kind, data |-> data, identity |-> r.identity])]
     ELSE Fails

\* A directory is opened, compared and queued; a file is opened and compared.
OpenChild ==
  /\ At("open")
  /\ IF ~Here(r.child) THEN Fails
     ELSE LET i == Kids(r.fd)[r.child]
          IN IF Identity(i) # r.identity \/ node[i].kind # r.names[r.child] THEN Fails
             ELSE IF IsDir(i) THEN Adds("dir", Some, Append(r.queue, PathOf(r.child)))
                  ELSE r' = [r EXCEPT !.at = "read", !.file = i]
  /\ Reads

\* readCaptureOpened: the bytes, the descriptor again, the name again.
ReadFile ==
  /\ At("read")
  /\ r' = [r EXCEPT !.at = "check", !.data = node[r.file].data]
  /\ Reads

CheckDescriptor ==
  /\ At("check")
  /\ IF Identity(r.file) # r.identity THEN Fails
     ELSE Goes(IF r.pass = 0 THEN "verify policy" ELSE "restat")
  /\ Reads

RestatName ==
  /\ At("restat")
  /\ IF ~Here(r.child) \/ Identity(Kids(r.fd)[r.child]) # r.identity THEN Fails
     ELSE IF r.pass = 0
          THEN r' = [r EXCEPT !.at = "bind", !.policy = r.data, !.pass = 1, !.names = << >>]
          ELSE Adds("file", r.data, r.queue)
  /\ Reads

\* Tracked files that are not there, and the end of an observation.
Gone(p) == p \notin DOMAIN r.got /\ (Len(p) = 2 /\ SubSeq(p, 1, 1) \in DOMAIN r.got
                                       => r.got[SubSeq(p, 1, 1)].kind = "dir")
Missing == [kind |-> "missing", data |-> Some, identity |-> <<0, 0>>]
EndPass ==
  /\ At("missing")
  /\ LET missing == {p \in r.listed : Gone(p)}
         all == [p \in DOMAIN r.got \cup missing |-> IF p \in missing THEN Missing ELSE r.got[p]]
     IN IF r.pass = 1 THEN r' = [r EXCEPT !.at = "root", !.pass = 2, !.first = all]
        ELSE IF /\ \A p \in missing : p \in DOMAIN r.first /\ r.first[p] = Missing
                /\ Cardinality(DOMAIN all) = Cardinality(DOMAIN r.first)
             THEN Goes("relist") ELSE Fails
  /\ Reads

\* captureIndex again, and binding.verify.
RelistIndex ==
  /\ At("relist")
  /\ IF index.paths = r.listed THEN Goes("rebind") ELSE Fails
  /\ Reads

VerifyBinding ==
  /\ At("rebind")
  /\ IF index.id = r.bound THEN Goes("done") ELSE Fails
  /\ Reads

Read ==
  \/ OpenPolicyDir \/ VerifyPolicyPath \/ Bind \/ ListIndex \/ BeginPass \/ Chain \/ NextDirectory
  \/ BeforeListing \/ ListDirectory \/ StatChild \/ OpenChild \/ ReadFile \/ CheckDescriptor
  \/ RestatName \/ EndPass \/ RelistIndex \/ VerifyBinding

-----------------------------------------------------------------------------
Init ==
  /\ node = [i \in 0..5 |->
       CASE i = Root -> Dir(0, [n \in {"a", "d"} |-> IF n = "a" THEN 1 ELSE 2])
         [] i = 2 -> Dir(0, [n \in {"b"} |-> 3])
         [] i = PolicyDir -> Dir(0, [n \in {"policy"} |-> 5])
         [] OTHER -> File(0, Some)]
  /\ index = [id |-> 0, paths |-> {<<"a">>, <<"d", "b">>}, former |-> {}]
  /\ acts = 0
  /\ r \in {[at |-> "policy", pass |-> 0, source |-> s, bound |-> 0, listed |-> {}, fd |-> Root,
             depth |-> 0, ids |-> << >>, queue |-> << >>, before |-> <<0, 0>>, names |-> << >>,
             child |-> "a", identity |-> <<0, 0>>, file |-> 1, data |-> Some, policy |-> Some,
             got |-> << >>, first |-> << >>] : s \in {"worktree", "index"}}
  /\ then = [node |-> << >>, paths |-> {}, policy |-> Some, swapped |-> FALSE]

Next == Write \/ Read

Spec == Init /\ [][Next]_vars

-----------------------------------------------------------------------------
(* Properties.                                                             *)

TypeOK ==
  /\ acts \in 0..MaxActs
  /\ r.pass \in 0..2
  /\ r.fd \in DOMAIN node /\ r.file \in DOMAIN node
  /\ \A i \in DOMAIN node : \A n \in DOMAIN Kids(i) : Kids(i)[n] \in DOMAIN node

\* What "two matching observations" amount to.  The repository promises no more
\* than those: no atomic snapshot (boardfiles/cards_only_capture.go:22) and no
\* protection against what is swapped and swapped back
\* (cards_only_capture_git.go:16).  Where every change of a file or directory
\* leaves a change time of its own, a capture that succeeds is no mixture: the
\* files and their contents are those of one moment, the start of the second
\* observation, and the policy is what its path held when it was looked up.  The
\* tracked paths are those of that moment too, or of the end if only the index is
\* captured, unless an earlier index was put back meanwhile.
Captured == {<<p, r.first[p].kind, r.first[p].data>> : p \in {q \in DOMAIN r.first : r.first[q].kind # "missing"}}
CaptureIsOneMoment ==
  r.at = "done" =>
    /\ r.policy = then.policy
    /\ r.source = "worktree" => Captured = Tree(then.node)
    /\ ~then.swapped =>
         r.listed = IF r.source = "worktree" THEN then.paths ELSE index.paths
=============================================================================
