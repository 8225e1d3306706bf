----------------------------- MODULE ImagePublish -----------------------------
(* `blastbox images run` (host/imagerun.py): build and verify under a private   *)
(* tag, stage the rootfs beside its destination, swap it in, then move the      *)
(* live tags; on a failure put back what was moved.  Several runs may publish   *)
(* to the same destination and tags: the destination has a lock, the tags of a  *)
(* chain are locked together, and nothing is held from one to the other.        *)
EXTENDS Naturals, Sequences

CONSTANTS Runs,        \* concurrent invocations
          Tags,        \* the live tags of the chain
          MaxMishaps,  \* how many commands may fail
          MaxSaves,    \* how often the source checkout changes
          Before       \* what is live at the start: "old" or "absent"

VARIABLES
  imDest, imBak,     \* the release at the destination and at <dest>.bak
  imTag,             \* tag -> the release it names
  imDestLock, imTagLock,
  imRun,             \* run -> where it is and its record of what it published
  imPubs,            \* the runs that put a rootfs at the destination, in order
  imSource,          \* the revision of the source checkout
  imNoted,           \* a rollback reported that it could not restore something
  imMishaps

imageVars == <<imDest, imBak, imTag, imDestLock, imTagLock, imRun, imPubs, imSource, imNoted, imMishaps>>

Fine == UNCHANGED imMishaps
Mishap == imMishaps < MaxMishaps /\ imMishaps' = imMishaps + 1
At(r, pc) == imRun[r].at = pc
Set(r, rec) == imRun' = [imRun EXCEPT ![r] = rec]
Go(r, pc) == Set(r, [imRun[r] EXCEPT !.at = pc])

\* stamp: the revision in the label; before: the fingerprint taken ahead of the build;
\* built: what docker read; ready: what the staging path holds; had: something was live; from: where the previous
\* rootfs was kept; moved: the tags this run moved, previous: what they named.
NewRun == [at |-> "stamp", stamp |-> 0, before |-> 0, built |-> 0, ready |-> "absent", had |-> FALSE, from |-> "nowhere",
           moved |-> {}, previous |-> [t \in Tags |-> "absent"], live |-> FALSE]

ImageInit ==
  /\ imDest = Before /\ imBak = "absent" /\ imTag = [t \in Tags |-> Before]
  /\ imDestLock = "nobody" /\ imTagLock = "nobody"
  /\ imRun = [r \in Runs |-> NewRun]
  /\ imPubs = <<>> /\ imSource = 0 /\ imNoted = FALSE /\ imMishaps = 0
-------------------------------------------------------------------------------
(* Build, verify, stage *)

\* A commit, a deploy or an editor's save in the checkout.
SourceChanges ==
  /\ imSource < MaxSaves /\ imSource' = imSource + 1
  /\ UNCHANGED <<imDest, imBak, imTag, imDestLock, imTagLock, imRun, imPubs, imNoted, imMishaps>>

\* All of it under a private tag: nothing live is touched.
BuildStep(r) == UNCHANGED <<imDest, imBak, imTag, imDestLock, imTagLock, imPubs, imSource, imNoted>>

\* Pull the base and compute the labels, the revision among them.
StampFlags(r) ==
  /\ At(r, "stamp") /\ BuildStep(r)
  /\ \/ Fine /\ Set(r, [imRun[r] EXCEPT !.at = "before", !.stamp = imSource])
     \/ Mishap /\ Go(r, "failed")

\* _source_state, ahead of the build and after it.
SourceBefore(r) ==
  /\ At(r, "before") /\ BuildStep(r) /\ Fine
  /\ Set(r, [imRun[r] EXCEPT !.at = "build", !.before = imSource])

\* docker reads the context.
DockerBuild(r) ==
  /\ At(r, "build") /\ BuildStep(r)
  /\ \/ Fine /\ Set(r, [imRun[r] EXCEPT !.at = "after", !.built = imSource])
     \/ Mishap /\ Go(r, "failed")

SourceAfter(r) ==
  /\ At(r, "after") /\ BuildStep(r) /\ Fine
  /\ Go(r, IF imSource = imRun[r].before THEN "verify" ELSE "failed")

\* Every image must record what it was built from; no label is compared with the checkout.
VerifyBuilt(r) ==
  /\ At(r, "verify") /\ BuildStep(r)
  /\ \/ Fine /\ Go(r, "stage")
     \/ Mishap /\ Go(r, "failed")

\* Extract, check what the image must and must not contain, stamp the tree.
Stage(r) ==
  /\ At(r, "stage") /\ BuildStep(r)
  /\ \/ Fine /\ Set(r, [imRun[r] EXCEPT !.at = "publish", !.ready = r])
     \/ Mishap /\ Go(r, "failed")
-------------------------------------------------------------------------------
(* Publish the rootfs, under the lock of its destination *)

LockDest(r) ==
  /\ At(r, "publish") /\ imDestLock = "nobody"
  /\ imDestLock' = r
  /\ Set(r, [imRun[r] EXCEPT !.had = (imDest # "absent"),
                             !.at = IF imDest # "absent" THEN "clear" ELSE "in"])
  /\ UNCHANGED <<imDest, imBak, imTag, imTagLock, imSource, imPubs, imNoted, imMishaps>>

\* A run that fails inside the swap is not among those it rolls back.
SwapFails(r) == Mishap /\ Go(r, "failed") /\ imDestLock' = "nobody"

\* The stale backup goes first.
ClearBackup(r) ==
  /\ At(r, "clear")
  /\ imBak' = "absent"
  /\ \/ Fine /\ Go(r, "exchange") /\ UNCHANGED imDestLock
     \/ SwapFails(r)
  /\ UNCHANGED <<imDest, imTag, imTagLock, imSource, imPubs, imNoted>>

\* renameat2(RENAME_EXCHANGE), where the file system has it; else move aside, then move in.
Exchange(r) ==
  /\ At(r, "exchange")
  /\ \/ /\ imDest' = imRun[r].ready
        /\ Set(r, [imRun[r] EXCEPT !.at = "keep", !.ready = imDest])
     \/ /\ Go(r, "aside")
        /\ UNCHANGED imDest
  /\ UNCHANGED <<imBak, imTag, imDestLock, imTagLock, imSource, imPubs, imNoted, imMishaps>>

\* Keeping the previous tree as .bak is best effort: it stays at the staging path otherwise.
KeepBackup(r) ==
  /\ At(r, "keep")
  /\ \/ /\ Fine /\ imBak' = imRun[r].ready
        /\ Set(r, [imRun[r] EXCEPT !.at = "identify", !.ready = "absent", !.from = "bak"])
     \/ /\ Mishap /\ UNCHANGED imBak
        /\ Set(r, [imRun[r] EXCEPT !.at = "identify", !.from = "ready"])
  /\ UNCHANGED <<imDest, imTag, imDestLock, imTagLock, imSource, imPubs, imNoted>>

MoveAside(r) ==
  /\ At(r, "aside")
  /\ \/ /\ Fine /\ imBak' = imDest /\ imDest' = "absent"
        /\ Set(r, [imRun[r] EXCEPT !.at = "in", !.from = "bak"]) /\ UNCHANGED imDestLock
     \/ SwapFails(r) /\ UNCHANGED <<imBak, imDest>>
  /\ UNCHANGED <<imTag, imTagLock, imSource, imPubs, imNoted>>

MoveIn(r) ==
  /\ At(r, "in")
  /\ \/ /\ Fine /\ imDest' = imRun[r].ready
        /\ Set(r, [imRun[r] EXCEPT !.at = "identify", !.ready = "absent"])
        /\ UNCHANGED imDestLock
     \/ SwapFails(r) /\ UNCHANGED imDest
  /\ UNCHANGED <<imBak, imTag, imTagLock, imSource, imPubs, imNoted>>

\* The identity of what is live now, which a rollback compares.
Identify(r) ==
  /\ At(r, "identify")
  /\ imPubs' = Append(imPubs, r)
  /\ imDestLock' = "nobody"
  /\ Set(r, [imRun[r] EXCEPT !.at = "tags", !.live = TRUE])
  /\ UNCHANGED <<imDest, imBak, imTag, imTagLock, imSource, imNoted, imMishaps>>
-------------------------------------------------------------------------------
(* Move the tags, all of them under one set of locks *)

\* Every tag is locked, and what each names is read, before any is moved.
LockTags(r) ==
  /\ At(r, "tags") /\ imTagLock = "nobody"
  /\ \/ /\ Fine /\ imTagLock' = r
        /\ Set(r, [imRun[r] EXCEPT !.at = "move", !.previous = imTag])
     \/ Mishap /\ Go(r, "rollback") /\ UNCHANGED imTagLock
  /\ UNCHANGED <<imDest, imBak, imTag, imDestLock, imSource, imPubs, imNoted>>

MoveTag(r, t) ==
  /\ At(r, "move") /\ t \notin imRun[r].moved
  /\ \/ /\ Fine /\ imTag' = [imTag EXCEPT ![t] = r]
        /\ Set(r, [imRun[r] EXCEPT !.moved = @ \cup {t}])
     \/ Mishap /\ Go(r, "untag") /\ UNCHANGED imTag
  /\ UNCHANGED <<imDest, imBak, imDestLock, imTagLock, imSource, imPubs, imNoted>>

TagsMoved(r) ==
  /\ At(r, "move") /\ imRun[r].moved = Tags
  /\ Go(r, "done")
  /\ imTagLock' = "nobody"
  /\ UNCHANGED <<imDest, imBak, imTag, imDestLock, imSource, imPubs, imNoted, imMishaps>>

\* _restore_tags_locked: each moved tag back to what it named, unless another run has it now;
\* a tag that cannot be put back is reported.
RestoreTags(r) ==
  /\ At(r, "untag")
  /\ LET back == {t \in imRun[r].moved : imTag[t] = r}
         Restored(ts) == [t \in Tags |-> IF t \in ts THEN imRun[r].previous[t] ELSE imTag[t]]
     IN \/ Fine /\ imTag' = Restored(back) /\ UNCHANGED imNoted
        \/ \E stuck \in back : Mishap /\ imTag' = Restored(back \ {stuck}) /\ imNoted' = TRUE
  /\ imTagLock' = "nobody"
  /\ Go(r, "rollback")
  /\ UNCHANGED <<imDest, imBak, imDestLock, imSource, imPubs>>
-------------------------------------------------------------------------------
(* Put the rootfs back *)

Kept(r) == IF imRun[r].from = "ready" THEN imRun[r].ready ELSE imBak

\* Only this run's own artifact is replaced: by what was kept, or by nothing when nothing was
\* there before; without a kept copy the new one stays, and that is reported.
Restore(r) ==
  /\ At(r, "rollback") /\ imDestLock = "nobody"
  /\ \/ imDest # r /\ UNCHANGED <<imDest, imBak, imNoted, imMishaps>>
     \/ /\ imDest = r /\ ~imRun[r].had
        /\ imDest' = "absent" /\ UNCHANGED <<imBak, imNoted, imMishaps>>
     \/ /\ imDest = r /\ imRun[r].had /\ Kept(r) = "absent"
        /\ imNoted' = TRUE /\ UNCHANGED <<imDest, imBak, imMishaps>>
     \/ /\ imDest = r /\ imRun[r].had /\ Kept(r) # "absent" /\ Fine
        /\ imDest' = Kept(r)
        /\ imBak' = (IF imRun[r].from = "bak" THEN "absent" ELSE imBak)
        /\ UNCHANGED imNoted
     \/ /\ imDest = r /\ Mishap
        /\ imNoted' = TRUE /\ imDest' \in {imDest, "absent"} /\ UNCHANGED imBak
  /\ Go(r, "failed")
  /\ UNCHANGED <<imTag, imDestLock, imTagLock, imSource, imPubs>>

ImageNext == SourceChanges \/ \E r \in Runs :
  \/ StampFlags(r) \/ SourceBefore(r) \/ DockerBuild(r) \/ SourceAfter(r)
  \/ VerifyBuilt(r) \/ Stage(r)
  \/ LockDest(r) \/ ClearBackup(r) \/ Exchange(r) \/ KeepBackup(r)
  \/ MoveAside(r) \/ MoveIn(r) \/ Identify(r)
  \/ LockTags(r) \/ (\E t \in Tags : MoveTag(r, t)) \/ TagsMoved(r) \/ RestoreTags(r)
  \/ Restore(r)

ImageSpec == ImageInit /\ [][ImageNext]_imageVars
-------------------------------------------------------------------------------
Ended(r) == imRun[r].at \in {"done", "failed"}

(* Outside the tags' critical section the live tags name images of one run,     *)
(* unless a rollback reported a tag it could not put back: two runs and a       *)
(* failure half-way through either leave no mixed chain.                        *)
TagsOfOneRun ==
  imTagLock = "nobody" /\ ~imNoted => \A s, t \in Tags : imTag[s] = imTag[t]

(* A rootfs whose run succeeded, or is still going, stays live until another    *)
(* run publishes over it: the rollback of an earlier run never takes it away,   *)
(* and the rollback of a later run puts it back.  One way out is in the code: a *)
(* swap without the exchange that fails after it moved the old tree aside is    *)
(* not rolled back, and leaves nothing live.                                    *)
PublicationStands ==
  imPubs # <<>> /\ imDestLock = "nobody" =>
    LET last == imPubs[Len(imPubs)] IN
      /\ imRun[last].at \in {"tags", "move", "untag", "rollback", "done"} =>
           \/ imDest = last
           \/ \E r \in Runs \ {last} :
                At(r, "failed") /\ imRun[r].from = "bak" /\ ~imRun[r].live

===============================================================================
