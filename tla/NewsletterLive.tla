---------------------------- MODULE NewsletterLive ----------------------------
(* What the newsletter says of merged work (packages/newsletter: metrics.py,      *)
(* metric_evidence.py): how many of the day's merges a daemon runs and how many    *)
(* features are finished and verified.  Both are computed from one snapshot, in    *)
(* which merges, builds or their ancestry may be missing.                        *)
(*                                                                               *)
(* Merge i is commit i of one line of history, so a build at commit b holds the     *)
(* merges 1 to b.                                                                *)
EXTENDS Naturals, FiniteSets

CONSTANTS
  Merges,      \* merges there may be: 1 to Merges
  Issue,       \* the ticket each merge closes, or None
  Unstamped,   \* merges whose commit the tracker does not name
  Daemons,
  Features,    \* features somebody defined, with their tickets
  None

Merge == 1 .. Merges
Tickets == UNION {Features[f] : f \in DOMAIN Features}

(* What the constants have to satisfy. *)
LiveAssumption == Merges \in Nat /\ Unstamped \subseteq Merge

VARIABLES
  merged,      \* merges so far
  old,         \* of those, the ones before the day's window
  gone,        \* of those, the ones before the two days that are asked for
  build,       \* the commit each daemon runs, or None: no stamp
  ancestry,    \* the daemons that tell the ancestors of their build
  away,        \* the daemons whose build is not available
  completed,   \* completed tickets
  verified     \* features the Executor verified

vars == <<merged, old, gone, build, ancestry, away, completed, verified>>

Init ==
  /\ merged = 0 /\ old = 0 /\ gone = 0
  /\ build = [d \in Daemons |-> None]
  /\ ancestry \in SUBSET Daemons
  /\ away = {} /\ completed = {} /\ verified = {}

MergeOne ==
  /\ merged < Merges /\ merged' = merged + 1
  /\ UNCHANGED <<old, gone, build, ancestry, away, completed, verified>>

(* A day passes. *)
Midnight ==
  /\ gone' = old /\ old' = merged
  /\ UNCHANGED <<merged, build, ancestry, away, completed, verified>>

(* A daemon is built from some commit, or without a stamp. *)
Deploy(d) ==
  /\ \E commit \in (0 .. merged) \cup {None} : build' = [build EXCEPT ![d] = commit]
  /\ UNCHANGED <<merged, old, gone, ancestry, away, completed, verified>>

(* A daemon does not answer, or answers again. *)
Answer(d) ==
  /\ away' = IF d \in away THEN away \ {d} ELSE away \cup {d}
  /\ UNCHANGED <<merged, old, gone, build, ancestry, completed, verified>>

(* A ticket is completed, by a merge or by hand. *)
Complete(t) ==
  /\ t \notin completed /\ completed' = completed \cup {t}
  /\ UNCHANGED <<merged, old, gone, build, ancestry, away, verified>>

Verify(f) ==
  /\ f \notin verified /\ verified' = verified \cup {f}
  /\ UNCHANGED <<merged, old, gone, build, ancestry, away, completed>>

Next ==
  \/ MergeOne \/ Midnight
  \/ \E d \in Daemons : Deploy(d) \/ Answer(d)
  \/ \E t \in Tickets : Complete(t)
  \/ \E f \in DOMAIN Features : Verify(f)

Spec == Init /\ [][Next]_vars

-----------------------------------------------------------------------------
(* ---- One snapshot's figures; None is "unavailable" ---- *)

Builds == {d \in Daemons \ away : build[d] # None}

-----------------------------------------------------------------------------
(* The build of d is this very commit, or names it among its ancestors. *)
Holds(d, merge) == build[d] = merge \/ (d \in ancestry /\ merge <= build[d])

Denies(d) == d \in ancestry

(* Whether a merge is live: the absence has to be proven by every build.          *)
Live(merge) ==
  IF merge \in Unstamped \/ Builds = {} THEN None
  ELSE IF \E d \in Builds : Holds(d, merge) THEN TRUE
  ELSE IF \A d \in Builds : Denies(d) THEN FALSE ELSE None

Window == old + 1 .. merged

LiveCount ==
  IF Builds = {} \/ (\E merge \in Window : Live(merge) = None) THEN None
  ELSE Cardinality({merge \in Window : Live(merge) = TRUE})

(* The two days' merges hold all that ever closed the feature's tickets. *)
MergesComplete(f) == \A merge \in 1 .. gone : Issue[merge] \notin Features[f]

Merged(ids, related) == ids \subseteq {Issue[merge] : merge \in related}

(* Features all of whose tickets are completed are judged; one that cannot be       *)
(* judged makes the figure unavailable.                                          *)
FinishedVerified ==
  LET judged == {f \in DOMAIN Features : Features[f] # {} /\ Features[f] \subseteq completed}
      Related(f) == {merge \in gone + 1 .. merged : Issue[merge] \in Features[f]} IN
  IF \E f \in judged : \/ ~MergesComplete(f)
                       \/ ~Merged(Features[f], Related(f))
                       \/ \E merge \in Related(f) : Live(merge) = None
  THEN None
  ELSE Cardinality({f \in judged \cap verified : \A merge \in Related(f) : Live(merge) = TRUE})

-----------------------------------------------------------------------------
(* A number of live merges is the number the answering daemons really run: what    *)
(* is not known to be in a build is never counted as missing from it.            *)
LiveIsProven ==
  LiveCount # None =>
    LiveCount = Cardinality({merge \in Window : \E d \in Builds : merge <= build[d]})

(* A feature counted as finished and verified has a merge for each of its           *)
(* tickets, every one of its merges is live, and it was verified.                *)
VerifiedIsProven ==
  FinishedVerified # None =>
    FinishedVerified = Cardinality({f \in verified :
      /\ Features[f] # {} /\ Features[f] \subseteq completed
      /\ \A t \in Features[f] : \E merge \in 1 .. merged : Issue[merge] = t
      /\ \A merge \in 1 .. merged : Issue[merge] \in Features[f] =>
           \E d \in Builds : merge <= build[d]})
=============================================================================
