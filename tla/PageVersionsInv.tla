-------------------------- MODULE PageVersionsInv ---------------------------
(***************************************************************************)
(* The inductive invariants behind the properties of PageVersions.         *)
(***************************************************************************)
EXTENDS PageVersions

PC == {"unborn", "running", "reading", "writing", "stamped", "merging", "merged",
       "published", "flushed", "failed", "committed", "aborted", "dropped"}

\* t holds the commit mutex.
InCommit(t) == pc[t] \in {"stamped", "merging", "merged", "published", "flushed"}

\* Types, and what the type invariant leaves out.
Types ==
  /\ TypeOK
  /\ pc \in [Tx -> PC]
  /\ \A t \in Tx : InCommit(t) => commit_ts[t] \in 1..MaxTs

-----------------------------------------------------------------------------
(* A transaction's own frame *)

\* t still works on an uncommitted version of the page.
Private(t) == InFlight(t) /\ pc[t] \notin {"published", "flushed"}

\* t has at most one uncommitted frame; every row t has recorded is in it, and in
\* the page t is about to put into it.
Own(t) ==
  /\ \A s, u \in OwnFrames(t) : s = u
  /\ Private(t) => \A r \in mods[t] : \E s \in OwnFrames(t) : slots[s].data[r] = t
  /\ pc[t] = "merging" => \A r \in mods[t] : source[t][r] = t
  /\ pc[t] = "unborn" => mods[t] = {}

OwnInv == Types /\ \A t \in Tx : Own(t)

-----------------------------------------------------------------------------
(* Values of unpublished transactions *)

Done(t) == pc[t] \in {"published", "flushed", "committed"}

\* A page that holds only values of published transactions, but for those of t.
Clean(d, t) == \A r \in Row : d[r] = t \/ d[r] = NoTx \/ Done(d[r])

\* A frame's values are published or its writer's; NoTx is nobody.
CleanInv ==
  /\ Types
  /\ Clean(disk, NoTx)
  /\ \A s \in Resident : Clean(slots[s].data, slots[s].mark)
  /\ \A t \in Tx : Clean(source[t], t)

-----------------------------------------------------------------------------
(* The newest committed version *)

\* One commit at a time, at the clock's value, above every committed version.
Clock ==
  /\ \A t \in Tx : InCommit(t) => commit_lock = t /\ commit_ts[t] = current_ts
  /\ \A s \in Resident : Committed(s) =>
       /\ slots[s].version <= current_ts
       /\ \A t \in Tx : pc[t] \in {"stamped", "merging", "merged"} =>
            slots[s].version < current_ts

\* The page as it will be when t has published.
Target(t) == [r \in Row |-> IF r \in mods[t] THEN t ELSE truth[r]]

\* t has published rows and not released the page.
Settling(t) == pc[t] \in {"published", "flushed"} /\ mods[t] # {}

\* Every copy is the truth and none is dirty.
Settled ==
  (\A t \in Tx : ~Settling(t)) =>
    /\ disk = truth
    /\ \A s \in Resident : Committed(s) => slots[s].data = truth /\ ~slots[s].dirty

\* What a committer prepares is the truth with its own rows.
Prepared ==
  \A t \in Tx :
    /\ pc[t] = "merging" => source[t] = Target(t)
    /\ pc[t] = "merged" /\ mods[t] # {} =>
         \A s \in OwnFrames(t) : slots[s].data = Target(t) /\ slots[s].dirty

\* s is the frame t has just published, and stands above every other.
Top(s, t) ==
  /\ s \in pins[t] /\ Committed(s)
  /\ slots[s].version = commit_ts[t] /\ slots[s].data = truth
  /\ \A u \in Resident : Committed(u) /\ u # s =>
       slots[u].version < commit_ts[t] /\ ~slots[u].dirty
  /\ slots[s].dirty \/ disk = truth
  /\ pc[t] = "flushed" => ~slots[s].dirty

Topped == \A t \in Tx : Settling(t) => \E s \in Slot : Top(s, t)

\* The two ways to lose rows have not been taken.
Sound == ~stranded /\ ~spoiled

NewestInv == OwnInv /\ Clock /\ (Sound => Settled /\ Prepared /\ Topped)
=============================================================================
