------------------------------- MODULE Release -------------------------------
(***************************************************************************)
(* `pnpm platform release`: sessions that share a clone, its main and its  *)
(* lease file; other clones; origin; and the runs of release.yml.  A step  *)
(* ends where a command waits for the network or for another program.      *)
(***************************************************************************)
EXTENDS Integers, FiniteSets, SequencesExt

CONSTANTS
  Session,
  Clone,
  Version,       \* positive integers
  MaxCommits,    \* bound: commits made
  None

\* `.platform/release-lease.json`: the holder of a corrupt one is nobody.
Lease == [version: Nat, stage: {"corrupt", "draft", "marker-local", "marker-pushed"},
          holder: Session \cup {None}, sha: Nat]

ASSUME ReleaseAssumption ==
  /\ Version \subseteq Nat \ {0} /\ MaxCommits \in Nat
  /\ None \notin Session /\ None \notin Lease

VARIABLES
  clone,    \* [Session -> its clone]
  made,     \* commits made
  main,     \* [Clone -> its branch main]
  origin,   \* main of origin
  tags,     \* versions tagged on origin
  runs,     \* [marker, state] of the runs that decided to release
  lease,    \* [Clone -> None, Corrupt or the lease]
  pc,       \* [Session -> step of its command]
  ver,      \* [Session -> version it releases]
  read,     \* [Session -> lease it has read]
  seen,     \* [Session -> commits of origin it has seen]
  sha,      \* [Session -> commit it takes for its marker]
  out,      \* [Session -> branch it is pushing]
  strayed   \* history: what the order of things did not survive, see Strays

local == <<ver, read, seen, sha, out>>
remote == <<origin, tags, runs>>
vars == <<clone, made, main, remote, lease, pc, local, strayed>>

\* What JSON.parse refuses: a lease whose writer died.
Corrupt == [version |-> 0, stage |-> "corrupt", holder |-> None, sha |-> 0]
Draft(s, v) == [version |-> v, stage |-> "draft", holder |-> s, sha |-> 0]
Ordinary(n) == [id |-> n, version |-> 0]
Marker(n, v) == [id |-> n, version |-> v]
IsMarker(commit) == commit.version # 0
Top(branch) == IF branch = <<>> THEN Ordinary(0) ELSE Last(branch)

Init ==
  /\ clone \in [Session -> Clone]
  /\ made = 0
  /\ main = [c \in Clone |-> <<>>]
  /\ origin = <<>> /\ tags = {} /\ runs = {}
  /\ lease = [c \in Clone |-> None]
  /\ pc = [s \in Session |-> "idle"]
  /\ ver = [s \in Session |-> 0] /\ read = [s \in Session |-> None]
  /\ seen = [s \in Session |-> 0] /\ sha = [s \in Session |-> 0] /\ out = [s \in Session |-> <<>>]
  /\ strayed = {}

-----------------------------------------------------------------------------
Mine(s) == lease[clone[s]]
Branch(s) == main[clone[s]]
Own(s, l) == l # None /\ l.holder = s

\* It has seen that its version has no tag and has not told the lease of its
\* marker.
Cutting(s) == pc[s] \in {"guards", "commit", "stamp"}

Goes(s, step) == pc' = [pc EXCEPT ![s] = step]
Sets(s, l) == lease' = [lease EXCEPT ![clone[s]] = l]
Keeps == UNCHANGED lease
Forgotten(s) ==
  /\ ver' = [ver EXCEPT ![s] = 0] /\ read' = [read EXCEPT ![s] = None]
  /\ seen' = [seen EXCEPT ![s] = 0] /\ sha' = [sha EXCEPT ![s] = 0] /\ out' = [out EXCEPT ![s] = <<>>]
Ends(s) == Goes(s, "idle") /\ Forgotten(s)

\* Mutant of SeesTag: a probe that fails counts as a tag.
SeesTagOrNothing(v) == TRUE

\* A tag, once pushed, is there for everybody; a failed probe shows nothing.
SeesTag(v) == v \in tags

\* "forced": somebody's lease was taken with --force; "raced": a lease was
\* replaced by a judgement it had overtaken; "blind": a release went on without
\* `gh`; "carried": a session that does not hold the lease pushed a marker;
\* "wiped": main had moved by the time its last commit was dropped; "recut": a
\* version was tagged while it was being cut again; "pulled": main took a marker
\* from origin between the guards of a release and its commit; "uncommitted": git
\* refused to commit a marker; "rerun": a run was run again though main had moved.
Strays(kind, when) == strayed' = IF when THEN strayed \cup {kind} ELSE strayed

\* What it takes for its marker is on top.
OnTop(s) == Top(Branch(s)).id = sha[s]

\* The file is replaced whatever it holds by now, which may be another lease
\* than the one that was read and judged.
Replaces(s, l) ==
  /\ Sets(s, l)
  /\ Strays("raced", Mine(s) \notin {None, read[s]})

\* releaseLease, not forced: nothing happens to the lease of another.
Releases(s) == Sets(s, IF Own(s, Mine(s)) THEN None ELSE Mine(s))

\* updateLease: what it does not find or does not own it leaves alone.
Updates(s, stage, id) ==
  Sets(s, IF Own(s, Mine(s)) THEN [Mine(s) EXCEPT !.stage = stage, !.sha = id] ELSE Mine(s))

-----------------------------------------------------------------------------
(* acquireLease.                                                           *)

Free(s) == Mine(s) = None

\* createExclusive: made and written, or left empty by a process that dies.
Create(s, v) ==
  /\ read' = [read EXCEPT ![s] = None]
  /\ \/ Sets(s, Draft(s, v)) /\ Goes(s, "probes") /\ ver' = [ver EXCEPT ![s] = v]
     \/ Sets(s, Corrupt) /\ Goes(s, "idle") /\ ver' = [ver EXCEPT ![s] = 0]

\* The file is made, or read where it is; whether the release of the lease in
\* it has finished is asked of origin.
Release(s) ==
  /\ pc[s] = "idle"
  /\ \E v \in Version :
       \/ Free(s) /\ Create(s, v)
       \/ /\ ~Free(s) /\ Mine(s) # Corrupt
          /\ ver' = [ver EXCEPT ![s] = v] /\ read' = [read EXCEPT ![s] = Mine(s)]
          /\ Goes(s, "finished")
          /\ Keeps
  /\ UNCHANGED <<clone, made, main, remote, seen, sha, out, strayed>>

\* A finished lease is removed and the file made anew.
Retry(s) ==
  /\ pc[s] = "finished" /\ SeesTag(read[s].version)
  /\ \/ Create(s, ver[s])
     \/ Sets(s, None) /\ Ends(s)
  /\ Strays("raced", Mine(s) \notin {None, read[s]})
  /\ UNCHANGED <<clone, made, main, remote, seen, sha, out>>

\* Its own marker on top of main is resumed, anything else is locked.
Held(s) ==
  /\ pc[s] = "finished"
  /\ LET held == read[s]
         resumable == /\ Own(s, held) /\ held.version = ver[s]
                      /\ held.stage \in {"marker-local", "marker-pushed"}
                      /\ Top(Branch(s)).id = held.sha
     IN  IF resumable
         THEN /\ Goes(s, "complete")
              /\ sha' = [sha EXCEPT ![s] = held.sha]
              /\ UNCHANGED <<ver, read, seen, out>>
         ELSE Ends(s)
  /\ UNCHANGED <<clone, made, main, remote, lease, strayed>>

-----------------------------------------------------------------------------
(* The guards of planRelease, and the marker.                              *)

Refuse(s) == Releases(s) /\ Ends(s)

\* The tag of the version, then the head of origin; a probe may fail.
Probes(s) ==
  /\ pc[s] = "probes"
  /\ \/ /\ ver[s] \notin tags
        /\ seen' = [seen EXCEPT ![s] = Len(origin)]
        /\ Goes(s, "guards")
        /\ UNCHANGED <<lease, ver, read, sha, out>>
     \/ Refuse(s)
  /\ UNCHANGED <<clone, made, main, remote, strayed>>

Live == {r \in runs : r.state = "live"}

\* Mutant of MayCut: the head of origin may be a marker whose run has failed.
MayCutOnMarker(s) ==
  /\ IsPrefix(SubSeq(origin, 1, seen[s]), Branch(s))
  /\ \A i \in seen[s] + 1..Len(Branch(s)) : ~IsMarker(Branch(s)[i])

\* The commits of origin that were seen are in main, nothing after them is a
\* marker, and the last of them is no marker that is still to be tagged.
MayCut(s) ==
  LET known == SubSeq(origin, 1, seen[s]) IN
    /\ IsPrefix(known, Branch(s))
    /\ \A i \in seen[s] + 1..Len(Branch(s)) : ~IsMarker(Branch(s)[i])
    /\ IsMarker(Top(known)) => Top(known).version \in tags

\* gh lists no live run or does not answer; then the preflight.
Guards(s) ==
  /\ pc[s] = "guards"
  /\ \/ /\ MayCut(s)
        /\ Strays("blind", Live # {})
        /\ Goes(s, "commit")
        /\ UNCHANGED <<lease, local>>
     \/ Refuse(s) /\ UNCHANGED strayed
  /\ UNCHANGED <<clone, made, main, remote>>

\* Nobody asks whether git has made the commit.
CommitMarker(s) ==
  /\ pc[s] = "commit"
  /\ \/ /\ made < MaxCommits /\ made' = made + 1
        /\ main' = [main EXCEPT ![clone[s]] = Append(@, Marker(made + 1, ver[s]))]
        /\ UNCHANGED strayed
     \/ UNCHANGED <<made, main>> /\ Strays("uncommitted", TRUE)
  /\ Goes(s, "stamp")
  /\ UNCHANGED <<clone, remote, lease, local>>

\* What HEAD is by now is taken for the marker.
StampLease(s) ==
  /\ pc[s] = "stamp"
  /\ sha' = [sha EXCEPT ![s] = Top(Branch(s)).id]
  /\ Updates(s, "marker-local", Top(Branch(s)).id)
  /\ Goes(s, "complete")
  /\ UNCHANGED <<clone, made, main, remote, ver, read, seen, out, strayed>>

-----------------------------------------------------------------------------
(* completeRelease and the guard of every push.                            *)

\* git reset --hard HEAD~1.
Resets(s) == main' = [main EXCEPT ![clone[s]] = IF @ = <<>> THEN @ ELSE Front(@)]

\* Without --push the command ends here; a tag that has appeared undoes the
\* marker; otherwise, and when nobody can tell, it is pushed.
Complete(s) ==
  /\ pc[s] = "complete"
  /\ \/ Ends(s) /\ UNCHANGED <<lease, main>>
     \/ /\ ver[s] \in tags
        /\ IF OnTop(s) THEN Resets(s) ELSE UNCHANGED main
        /\ Refuse(s)
     \/ Goes(s, "push") /\ UNCHANGED <<lease, main, local>>
  /\ UNCHANGED <<clone, made, remote, strayed>>

\* git push of the session that does not release.
PushMain(s) ==
  /\ pc[s] = "idle" /\ ~IsPrefix(Branch(s), origin)
  /\ Goes(s, "push")
  /\ UNCHANGED <<clone, made, main, remote, lease, local, strayed>>

\* Mutant of Attempt: the guard takes the attempt for the push.
AttemptPushed(s) == Updates(s, "marker-pushed", Mine(s).sha)

\* The guard has the lease note the attempt, and leaves its stage.
Attempt(s) == Updates(s, Mine(s).stage, Mine(s).sha)

Passes(s) ==
  /\ Goes(s, "transfer")
  /\ out' = [out EXCEPT ![s] = Branch(s)]
  /\ read' = [read EXCEPT ![s] = None]
  /\ UNCHANGED <<ver, seen, sha>>

\* runFreezeGuard: a lease without a marker stops nobody, one with a marker
\* everybody but its holder, until its tag is found.
Guard(s) ==
  /\ pc[s] = "push"
  /\ LET l == Mine(s) IN
       \/ (l # None => l.stage = "draft" \/ (Own(s, l) /\ l.stage = "marker-pushed")) /\ Passes(s) /\ Keeps
       \/ Own(s, l) /\ l.stage = "marker-local" /\ Attempt(s) /\ Passes(s)
       \/ l = Corrupt /\ Ends(s) /\ Keeps
       \/ /\ l \notin {None, Corrupt} /\ ~Own(s, l) /\ l.stage # "draft"
          /\ read' = [read EXCEPT ![s] = l]
          /\ Goes(s, "blocked")
          /\ UNCHANGED <<lease, ver, seen, sha, out>>
  /\ UNCHANGED <<clone, made, main, remote, strayed>>

Blocked(s) ==
  /\ pc[s] = "blocked"
  /\ \/ SeesTag(read[s].version) /\ Replaces(s, None) /\ Passes(s)
     \/ Ends(s) /\ UNCHANGED <<lease, strayed>>
  /\ UNCHANGED <<clone, made, main, remote>>

\* decideRelease, on the pushed range: the marker is its head and its only one.
Decides(range) ==
  /\ IsMarker(Last(range))
  /\ \A i \in 1..Len(range) - 1 : ~IsMarker(range[i])

\* origin takes what continues its main and starts a run for a marker.
Transfer(s) ==
  /\ pc[s] = "transfer"
  /\ LET range == SubSeq(out[s], Len(origin) + 1, Len(out[s])) IN
       \/ /\ IsPrefix(origin, out[s]) /\ range # <<>>
          /\ origin' = out[s]
          /\ runs' = runs \cup (IF Decides(range) THEN {[marker |-> Last(range), state |-> "live"]} ELSE {})
          /\ IF ver[s] # 0 THEN Goes(s, "confirm") /\ UNCHANGED local ELSE Ends(s)
          /\ Strays("carried", ~Own(s, Mine(s)) /\ \E i \in DOMAIN range : IsMarker(range[i]))
       \/ /\ IsPrefix(out[s], origin)
          /\ IF ver[s] # 0 /\ out[s] = origin THEN Goes(s, "confirm") /\ UNCHANGED local ELSE Ends(s)
          /\ UNCHANGED <<origin, runs, strayed>>
       \/ Ends(s) /\ UNCHANGED <<origin, runs, strayed>>
  /\ UNCHANGED <<clone, made, main, tags, lease>>

Confirm(s) ==
  /\ pc[s] = "confirm"
  /\ Updates(s, "marker-pushed", IF Own(s, Mine(s)) THEN Mine(s).sha ELSE 0)
  /\ Ends(s)
  /\ UNCHANGED <<clone, made, main, remote, strayed>>

-----------------------------------------------------------------------------
(* --status and --abort.                                                   *)

\* A finished lease is cleared by anybody; a local marker may be on origin.
Status(s) ==
  /\ pc[s] = "idle" /\ Mine(s) \notin {None, Corrupt}
  /\ read' = [read EXCEPT ![s] = Mine(s)]
  /\ \/ SeesTag(Mine(s).version) /\ Goes(s, "clear")
     \/ Mine(s).stage = "marker-local" /\ Goes(s, "upgrade")
  /\ UNCHANGED <<clone, made, main, remote, lease, ver, seen, sha, out, strayed>>

\* reconcileFinishedLease.
Clear(s) ==
  /\ pc[s] = "clear"
  /\ Replaces(s, None)
  /\ Ends(s)
  /\ UNCHANGED <<clone, made, main, remote>>

\* reconcilePushedMarker: what was read is written back.
Upgrade(s) ==
  /\ pc[s] = "upgrade"
  /\ IF Top(origin).id = read[s].sha
     THEN Replaces(s, [read[s] EXCEPT !.stage = "marker-pushed"])
     ELSE UNCHANGED <<lease, strayed>>
  /\ Ends(s)
  /\ UNCHANGED <<clone, made, main, remote>>

\* The lease is given back, or taken from whoever has it.
GivesBack(s, force) == IF force THEN Sets(s, None) ELSE Releases(s)
Takes(s, force) == force /\ Mine(s) # None /\ ~Own(s, Mine(s))

\* releaseAbortCommand, up to the first probe.  The stale draft of another
\* session passes too, and is left alone by releaseLease.
Abort(s, force) ==
  /\ pc[s] = "idle" /\ Mine(s) # None
  /\ LET l == Mine(s) IN
         /\ Own(s, l) \/ force
         /\ \/ /\ l.stage \in {"corrupt", "draft"}
               /\ GivesBack(s, force)
               /\ Strays("forced", Takes(s, force))
               /\ UNCHANGED <<pc, read, sha>>
            \/ /\ \/ l.stage = "marker-local" /\ Top(Branch(s)).id = l.sha
                  \/ l.stage = "marker-pushed"
               /\ read' = [read EXCEPT ![s] = l]
               /\ sha' = [sha EXCEPT ![s] = l.sha]
               /\ Goes(s, IF force THEN "forceAbort" ELSE "abort")
               /\ UNCHANGED <<lease, strayed>>
  /\ UNCHANGED <<clone, made, main, remote, ver, seen, out>>

Forcing(s) == pc[s] = "forceAbort"

\* The marker is undone unless origin has it; --force does not need to know.
AbortLocal(s) ==
  /\ pc[s] \in {"abort", "forceAbort"} /\ read[s].stage = "marker-local"
  /\ \/ /\ Forcing(s) \/ (Top(origin).id # sha[s] /\ Top(origin).version # read[s].version)
        /\ Resets(s)
        /\ GivesBack(s, Forcing(s))
        /\ IF OnTop(s) THEN Strays("forced", Takes(s, Forcing(s))) ELSE Strays("wiped", TRUE)
     \/ UNCHANGED <<main, lease, strayed>>
  /\ Ends(s)
  /\ UNCHANGED <<clone, made, remote>>

\* A pushed marker stays where it is; its run must not be live.
AbortPushed(s) ==
  /\ pc[s] \in {"abort", "forceAbort"} /\ read[s].stage = "marker-pushed"
  /\ \/ /\ Forcing(s) \/ Live = {}
        /\ GivesBack(s, Forcing(s))
        /\ Strays("forced", Takes(s, Forcing(s)))
     \/ UNCHANGED <<lease, strayed>>
  /\ Ends(s)
  /\ UNCHANGED <<clone, made, main, remote>>

-----------------------------------------------------------------------------
(* The rest of the world.                                                  *)

Commit(s) ==
  /\ made < MaxCommits
  /\ made' = made + 1
  /\ main' = [main EXCEPT ![clone[s]] = Append(@, Ordinary(made + 1))]
  /\ UNCHANGED <<clone, remote, lease, pc, local, strayed>>

\* They part after their first n commits.
Part(n, branch, other) ==
  /\ IsPrefix(SubSeq(other, 1, n), branch)
  /\ Len(branch) > n => branch[n + 1] # other[n + 1]

\* git pull, while no marker of this clone waits to be pushed: what main has
\* beyond the commits it shares with origin is put on top of origin.
Pull(s) ==
  \E n \in 0..Len(origin) - 1 :
    LET ahead == SubSeq(Branch(s), n + 1, Len(Branch(s))) IN
      /\ Part(n, Branch(s), origin)
      /\ \A x \in ToSet(ahead) : ~IsMarker(x)
      /\ main' = [main EXCEPT ![clone[s]] = origin \o ahead]
      /\ Strays("pulled", /\ \E t \in Session : clone[t] = clone[s] /\ pc[t] = "commit"
                          /\ \E x \in ToSet(origin) \ ToSet(Branch(s)) : IsMarker(x))
      /\ UNCHANGED <<clone, made, remote, lease, pc, local>>

\* The process of a command dies.
Dies(s) ==
  /\ pc[s] # "idle"
  /\ Ends(s)
  /\ UNCHANGED <<clone, made, main, remote, lease, strayed>>

\* A run of release.yml tags its version or fails; a failed one is run again, by
\* release-coordination.md only while main has not moved.
Turns(r, state) ==
  /\ r \in runs /\ runs' = (runs \ {r}) \cup {[r EXCEPT !.state = state]}
  /\ UNCHANGED <<clone, made, main, origin, lease, pc, local>>

RunTags(r) ==
  /\ r.state = "live" /\ r.marker.version \notin tags
  /\ tags' = tags \cup {r.marker.version}
  /\ Strays("recut", \E s \in Session : Cutting(s) /\ ver[s] = r.marker.version)
  /\ Turns(r, "done")

RunFails(r) == r.state = "live" /\ Turns(r, "red") /\ UNCHANGED <<tags, strayed>>

Rerun(r) ==
  /\ r.state = "red" /\ Turns(r, "live")
  /\ Strays("rerun", Top(origin) # r.marker)
  /\ UNCHANGED tags

-----------------------------------------------------------------------------
Next ==
  \/ \E s \in Session :
       \/ Release(s) \/ Retry(s) \/ Held(s)
       \/ Probes(s) \/ Guards(s) \/ CommitMarker(s) \/ StampLease(s)
       \/ Complete(s) \/ PushMain(s) \/ Guard(s) \/ Blocked(s) \/ Transfer(s) \/ Confirm(s)
       \/ Status(s) \/ Clear(s) \/ Upgrade(s)
       \/ AbortLocal(s) \/ AbortPushed(s)
       \/ Commit(s) \/ Pull(s) \/ Dies(s)
       \/ \E force \in BOOLEAN : Abort(s, force)
  \/ \E r \in runs : RunTags(r) \/ RunFails(r) \/ Rerun(r)

Spec == Init /\ [][Next]_vars

-----------------------------------------------------------------------------
Strayed == strayed # {}

\* From seeing its version untagged to telling the lease of its marker, a release
\* has the lease of the clone to itself: two sessions cut at once only after
\* --force, after a lease was replaced by a judgement older than itself, or when
\* a run tags the very version that is being cut again.  What comes after anything
\* else that Strays names is not judged, here and below.
CutterHoldsLease ==
  \A s \in Session : Cutting(s) => Own(s, Mine(s)) \/ Strayed

\* No two releases are under way on origin, whatever clones and sessions cut,
\* fail, are aborted or run again, as long as `gh` answers, no clone has
\* lost its lease as above, no push of another session carried a marker, no marker
\* came to main by a pull after the guards of a release and before its own, none was
\* refused by git and no run was run again once main had moved.
OneLiveRun == Cardinality({r \in Live : r.marker.version \notin tags}) <= 1 \/ Strayed

\* A lease never claims for its marker a push that origin does not have, whoever
\* raised its stage and whatever it had read before, with the same exceptions.
StageIsTrue ==
  \A c \in Clone : lease[c] # None /\ lease[c].stage = "marker-pushed" =>
    (\E i \in DOMAIN origin : origin[i].id = lease[c].sha) \/ Strayed
=============================================================================
