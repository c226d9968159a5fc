---------------------------- MODULE ReloadProofs ----------------------------
(***************************************************************************)
(* Proofs about Reload, for any contents of the file, resources and number *)
(* of equal readings.                                                      *)
(***************************************************************************)
EXTENDS Reload, TLAPS

Fingerprints == Contents \cup {NoFingerprint}

Watches == [on : {"starting", "on", "off"}, loaded : Fingerprints, candidate : Fingerprints,
            quiet : Nat, current : Fingerprints]

Jobs == [stage : {"idle", "load", "swap", "define"}, updated : Contents \cup {NoConfig},
         previous : Contents \cup {NoConfig}]

\* A configuration that was loaded, and may be swapped in or is being defined.
Usable == {c \in Contents : Loads(c, TRUE)}

\* The watcher's count reaches the number of readings only in the step that makes
\* it reload, and starts again when the reload is over.
WatcherCounts ==
  /\ watch.quiet <= StableChecks
  /\ job[Watcher] = NoJob => watch.quiet < StableChecks

\* The inductive invariant.
ReloadInv ==
  /\ file \in Contents /\ private \in BOOLEAN /\ running \in Usable
  /\ job \in [Reloaders -> Jobs]
  /\ \A r \in Reloaders : job[r].stage \in {"swap", "define"} => job[r].updated \in Usable
  /\ amiss \subseteq {"overlap", "refused"}
  /\ watch \in Watches
  /\ WatcherCounts

\* It says what TypeOK says.
LEMMA ReloadInvTypes == ReloadInv => TypeOK
<1> SUFFICES ASSUME ReloadInv PROVE TypeOK
  OBVIOUS
<1>1. watch.loaded \in Fingerprints /\ watch.candidate \in Fingerprints /\ watch.quiet \in Nat
  BY DEF ReloadInv, Watches
<1>2. watch.quiet \in 0 .. StableChecks
  BY <1>1, ReloadAssumption DEF ReloadInv, WatcherCounts
<1>3. \A r \in Reloaders : job[r].stage \in {"idle", "load", "swap", "define"}
  BY DEF ReloadInv, Jobs
<1> QED  BY <1>1, <1>2, <1>3 DEF ReloadInv, TypeOK, Fingerprints, Usable

\* Whoever reloads is a reloader, and the watcher is no asker.
LEMMA WhoReloads == Watcher \in Reloaders /\ Askers \subseteq Reloaders /\ Watcher \notin Askers
BY DEF Reloaders, Askers, Watcher

\* A job that is under way is not none.
LEMMA NoJobIsIdle == NoJob \in Jobs /\ NoJob.stage = "idle"
BY DEF NoJob, Jobs, NoConfig

\* A new stage for one job leaves the others alone.
LEMMA StageIs ==
  ASSUME ReloadInv, NEW r \in Reloaders, NEW s \in {"load", "swap", "define"},
         job' = [job EXCEPT ![r].stage = s]
  PROVE  /\ job' \in [Reloaders -> Jobs]
         /\ job'[r].stage = s /\ job'[r].updated = job[r].updated /\ job'[r].previous = job[r].previous
         /\ \A o \in Reloaders : o # r => job'[o] = job[o]
<1>1. job \in [Reloaders -> Jobs] /\ job[r] \in Jobs
  BY DEF ReloadInv
<1>2. job'[r] = [job[r] EXCEPT !.stage = s]
  BY <1>1
<1>3. job'[r] \in Jobs
  BY <1>1, <1>2 DEF Jobs
<1> QED  BY <1>1, <1>2, <1>3 DEF Jobs

\* The reading that has not changed since the last one.
Counted(current) == [watch EXCEPT !.quiet = @ + 1, !.current = current]

\* The watcher's reading keeps its types, and its count only grows by one.
LEMMA ReadingIs ==
  ASSUME ReloadInv, NEW current \in Contents
  PROVE  /\ Reading(current) \in Watches
         /\ \/ Reading(current).quiet = 0
            \/ /\ current # Reading(current).loaded /\ current = Reading(current).candidate
               /\ Reading(current).quiet = 1 \/ Reading(current).quiet = watch.quiet + 1
<1>1. watch \in Watches /\ NoFingerprint \in Fingerprints /\ current \in Fingerprints
  BY DEF ReloadInv, Fingerprints
<1>2. Quiet \in Watches /\ Quiet.quiet = 0
  BY <1>1 DEF Quiet, Watches
<1>3. /\ Restarts(current) \in Watches /\ Restarts(current).quiet = 1
      /\ Restarts(current).loaded = watch.loaded /\ Restarts(current).candidate = current
  BY <1>1 DEF Restarts, Watches
<1>4. /\ Counted(current) \in Watches /\ Counted(current).quiet = watch.quiet + 1
      /\ Counted(current).loaded = watch.loaded /\ Counted(current).candidate = watch.candidate
  <2>1. PICK n \in Nat : n = watch.quiet + 1
    BY <1>1 DEF Watches
  <2>2. Counted(current) = [watch EXCEPT !.quiet = n, !.current = current]
    BY <2>1 DEF Counted
  <2>3. /\ Counted(current) \in Watches /\ Counted(current).quiet = n
        /\ Counted(current).loaded = watch.loaded /\ Counted(current).candidate = watch.candidate
    BY <1>1, <2>2 DEF Watches
  <2> QED  BY <2>1, <2>3
<1> QED  BY <1>2, <1>3, <1>4 DEF Reading, Counted

\* A tick that brings the count to its end makes the watcher reload.
LEMMA TickKeeps == ASSUME ReloadInv, Tick PROVE ReloadInv'
<1>1. /\ watch' = Reading(file) /\ job[Watcher] = NoJob
      /\ UNCHANGED <<file, private, running, amiss>>
  BY DEF Tick, world
<1>2. watch' \in Watches
  BY <1>1, ReadingIs DEF ReloadInv
<1>3. watch.quiet \in Nat /\ watch'.quiet \in Nat /\ StableChecks \in Nat \ {0}
      /\ watch.quiet < StableChecks
  BY <1>1, <1>2, ReloadAssumption DEF ReloadInv, Watches, WatcherCounts
<1>4. \/ watch'.quiet = 0
      \/ /\ file # watch'.loaded /\ file = watch'.candidate
         /\ watch'.quiet = 1 \/ watch'.quiet = watch.quiet + 1
  BY <1>1, ReadingIs DEF ReloadInv
<1>5. watch'.quiet <= StableChecks
  BY <1>3, <1>4
<1>6. CASE Settled(watch', file) /\ watch'.quiet # watch.quiet
  <2>1. job' = [job EXCEPT ![Watcher].stage = "load"]
    BY <1>6 DEF Tick
  <2>2. /\ job' \in [Reloaders -> Jobs] /\ job'[Watcher].stage = "load"
        /\ \A o \in Reloaders : o # Watcher => job'[o] = job[o]
    BY <2>1, StageIs, WhoReloads
  <2>3. job'[Watcher] # NoJob
    BY <2>2, NoJobIsIdle
  <2>4. WatcherCounts'
    BY <1>5, <2>3 DEF WatcherCounts
  <2> QED  BY <1>1, <1>2, <2>2, <2>4 DEF ReloadInv
<1>7. CASE ~(Settled(watch', file) /\ watch'.quiet # watch.quiet)
  <2>1. job' = job
    BY <1>7 DEF Tick
  <2>2. watch'.quiet < StableChecks
    BY <1>3, <1>4, <1>7 DEF Settled
  <2>3. WatcherCounts'
    BY <1>5, <2>2 DEF WatcherCounts
  <2> QED  BY <1>1, <1>2, <2>1, <2>3 DEF ReloadInv
<1> QED  BY <1>6, <1>7

\* A reload that fails leaves the daemon as it was; one that is over starts the
\* watcher's count again.
LEMMA OverKeeps ==
  ASSUME ReloadInv, NEW r \in Reloaders, job' = [job EXCEPT ![r] = NoJob],
         UNCHANGED <<file, private, running>>, amiss' \subseteq {"overlap", "refused"},
         IF r = Watcher THEN watch' = Quiet \/ watch' = [Quiet EXCEPT !.loaded = watch.current]
                        ELSE watch' = watch
  PROVE  ReloadInv'
<1>1. watch \in Watches /\ NoFingerprint \in Fingerprints /\ StableChecks \in Nat \ {0}
  BY ReloadAssumption DEF ReloadInv, Fingerprints
<1>2. /\ Quiet \in Watches /\ Quiet.quiet = 0
      /\ [Quiet EXCEPT !.loaded = watch.current] \in Watches
      /\ [Quiet EXCEPT !.loaded = watch.current].quiet = 0
  BY <1>1 DEF Quiet, Watches
<1>3. watch' \in Watches /\ (IF r = Watcher THEN watch'.quiet = 0 ELSE watch' = watch)
  BY <1>1, <1>2
<1>4. /\ job' \in [Reloaders -> Jobs] /\ job'[r].stage = "idle"
      /\ \A o \in Reloaders : o # r => job'[o] = job[o]
  BY NoJobIsIdle DEF ReloadInv
<1>5. WatcherCounts'
  BY <1>1, <1>3, <1>4, WhoReloads DEF ReloadInv, WatcherCounts
<1> QED  BY <1>3, <1>4, <1>5 DEF ReloadInv

\* A step that sets the stage of a job, with what was loaded, and the watcher alone.
LEMMA GoesOnKeeps ==
  ASSUME ReloadInv, NEW r \in Reloaders, job' \in [Reloaders -> Jobs], job'[r].stage # "idle",
         \A o \in Reloaders : o # r => job'[o] = job[o],
         job'[r].stage \in {"swap", "define"} => job'[r].updated \in Usable,
         running' \in Usable, amiss' \subseteq {"overlap", "refused"},
         UNCHANGED <<file, private, watch>>
  PROVE  ReloadInv'
<1>1. job'[Watcher] = NoJob => job[Watcher] = NoJob
  BY NoJobIsIdle, WhoReloads
<1> QED  BY <1>1 DEF ReloadInv, WatcherCounts

\* Every step keeps the invariant.
LEMMA ReloadStep == ASSUME ReloadInv, [Next]_vars PROVE ReloadInv'
<1>1. CASE WatcherStarts
  <2>1. watch' \in Watches /\ watch'.quiet = watch.quiet
    BY <1>1 DEF WatcherStarts, ReloadInv, Watches, Fingerprints
  <2> QED  BY <1>1, <2>1 DEF WatcherStarts, world, ReloadInv, WatcherCounts
<1>2. ASSUME NEW r \in Askers, Ask(r) PROVE ReloadInv'
  <2>1. r \in Reloaders /\ job' = [job EXCEPT ![r].stage = "load"]
        /\ UNCHANGED <<file, private, running, amiss, watch>>
    BY <1>2, WhoReloads DEF Ask, world
  <2>2. /\ job' \in [Reloaders -> Jobs] /\ job'[r].stage = "load"
        /\ \A o \in Reloaders : o # r => job'[o] = job[o]
    BY <2>1, StageIs
  <2>3. running' \in Usable /\ amiss' \subseteq {"overlap", "refused"}
    BY <2>1 DEF ReloadInv
  <2> QED  BY <2>1, <2>2, <2>3, GoesOnKeeps
<1>3. ASSUME NEW r \in Reloaders, Load(r) PROVE ReloadInv'
  <2>1. /\ job' = [job EXCEPT ![r].stage = "swap", ![r].updated = file]
        /\ UNCHANGED <<file, private, running, amiss, watch>>
    BY <1>3 DEF Load, world
  <2>2. file \in Usable
    BY <1>3 DEF Load, Loads, Usable, ReloadInv
  <2>3. job[r] \in Jobs /\ file \in Contents
    BY DEF ReloadInv
  <2>4. job'[r] = [job[r] EXCEPT !.stage = "swap", !.updated = file]
    BY <2>1 DEF ReloadInv
  <2>5. job'[r] \in Jobs /\ job'[r].stage = "swap" /\ job'[r].updated = file
    BY <2>3, <2>4 DEF Jobs
  <2>6. job' \in [Reloaders -> Jobs] /\ \A o \in Reloaders : o # r => job'[o] = job[o]
    BY <2>1, <2>5 DEF ReloadInv
  <2>7. running' \in Usable /\ amiss' \subseteq {"overlap", "refused"}
    BY <2>1 DEF ReloadInv
  <2> QED  BY <2>1, <2>2, <2>5, <2>6, <2>7, GoesOnKeeps
<1>4. ASSUME NEW r \in Reloaders, LoadFails(r) PROVE ReloadInv'
  <2>1. amiss' \subseteq {"overlap", "refused"}
    BY <1>4 DEF LoadFails, ReloadInv
  <2>2. /\ job' = [job EXCEPT ![r] = NoJob] /\ UNCHANGED <<file, private, running>>
        /\ IF r = Watcher THEN watch' = Quiet ELSE watch' = watch
    BY <1>4 DEF LoadFails, world
  <2> QED  BY <2>1, <2>2, OverKeeps
<1>5. ASSUME NEW r \in Reloaders, Swap(r) PROVE ReloadInv'
  <2>1. /\ job[r].stage = "swap" /\ running' = job[r].updated
        /\ job' = [job EXCEPT ![r].stage = "define", ![r].previous = running]
        /\ UNCHANGED <<file, private, watch>>
    BY <1>5 DEF Swap, world
  <2>2. running' \in Usable /\ amiss' \subseteq {"overlap", "refused"}
    BY <1>5 DEF Swap, ReloadInv
  <2>3. job[r] \in Jobs /\ running \in Contents
    BY DEF ReloadInv, Usable
  <2>4. job'[r] = [job[r] EXCEPT !.stage = "define", !.previous = running]
    BY <2>1 DEF ReloadInv
  <2>5. job'[r] \in Jobs /\ job'[r].stage = "define" /\ job'[r].updated = job[r].updated
    BY <2>3, <2>4 DEF Jobs
  <2>6. job' \in [Reloaders -> Jobs] /\ \A o \in Reloaders : o # r => job'[o] = job[o]
    BY <2>1, <2>5 DEF ReloadInv
  <2> QED  BY <2>1, <2>2, <2>5, <2>6, GoesOnKeeps
<1>6. ASSUME NEW r \in Reloaders, Define(r) PROVE ReloadInv'
  <2>1. amiss' \subseteq {"overlap", "refused"}
    BY <1>6 DEF Define, ReloadInv
  <2>2. /\ job' = [job EXCEPT ![r] = NoJob] /\ UNCHANGED <<file, private, running>>
        /\ IF r = Watcher THEN watch' = [Quiet EXCEPT !.loaded = watch.current] ELSE watch' = watch
    BY <1>6 DEF Define, world
  <2> QED  BY <2>1, <2>2, OverKeeps
<1>7. ASSUME NEW content \in Contents, Edit(content) PROVE ReloadInv'
  BY <1>7 DEF Edit, ReloadInv, WatcherCounts
<1>8. CASE Chmod
  BY <1>8 DEF Chmod, ReloadInv, WatcherCounts
<1>9. CASE UNCHANGED vars
  BY <1>9 DEF vars, ReloadInv, WatcherCounts
<1> QED  BY <1>1, <1>2, <1>3, <1>4, <1>5, <1>6, <1>7, <1>8, <1>9, TickKeeps DEF Next, Reloads

\* It holds when the daemon has started.
LEMMA ReloadInit == Init => ReloadInv
<1> SUFFICES ASSUME Init PROVE ReloadInv
  OBVIOUS
<1>1. watch \in Watches /\ watch.quiet = 0
  BY DEF Init, Watches, Fingerprints
<1>2. job \in [Reloaders -> Jobs] /\ \A r \in Reloaders : job[r].stage = "idle"
  BY NoJobIsIdle DEF Init
<1>3. WatcherCounts
  BY <1>1, ReloadAssumption DEF WatcherCounts
<1> QED  BY <1>1, <1>2, <1>3, ReloadAssumption DEF Init, ReloadInv, Usable

\* It holds in every state.
LEMMA ReloadInvariant == Spec => []ReloadInv
BY ReloadInit, ReloadStep, PTL DEF Spec

\* A configuration that cannot be used never runs, whatever the file holds and
\* whoever reloads, and the watcher never counts past the readings it asks for.
THEOREM OnlyUsableRuns == Spec => []TypeOK
BY ReloadInvariant, ReloadInvTypes, PTL

-----------------------------------------------------------------------------
(***************************************************************************)
(* What is declared is what is defined.                                    *)
(***************************************************************************)

Follows(content) == \A n \in DeclaredBy(content) : defined[n] = ResourceIn(content, n)

Defines(r) == job[r].stage = "define"

\* Until something goes amiss one reload at most is between its swap and its
\* definitions, what it swapped in is what runs, and what the store holds is what
\* the configuration it replaced declared.
OneDefines == \A r, o \in Reloaders : Defines(r) /\ Defines(o) => r = o
PreviousIsDefined ==
  \A r \in Reloaders : Defines(r) => running = job[r].updated /\ Follows(job[r].previous)
RunningIsDefined == (\A r \in Reloaders : ~Defines(r)) => Follows(running)

\* The inductive invariant.
FollowInv == amiss = {} => OneDefines /\ PreviousIsDefined /\ RunningIsDefined

\* It is what the property says of a daemon that is not in the middle of a reload.
LEMMA FollowInvIsEnough == FollowInv => ResourcesFollow
BY DEF FollowInv, RunningIsDefined, Follows, Defines, ResourcesFollow

\* What a file declares is a resource.
LEMMA DeclaredAreNames == ASSUME NEW content \in Contents PROVE DeclaredBy(content) \subseteq Names
<1>1. \A d \in Range(content.resources) : d \in Declarations
  BY ReloadAssumption
<1> QED  BY <1>1 DEF DeclaredBy, Declarations

\* A step that neither swaps nor defines.
LEMMA NeitherSwapsNorDefines ==
  ASSUME FollowInv, UNCHANGED <<running, defined, amiss>>,
         \A o \in Reloaders : job'[o].stage = "define" <=> job[o].stage = "define",
         \A o \in Reloaders : job[o].stage = "define" => job'[o] = job[o]
  PROVE  FollowInv'
<1>1. \A content : Follows(content) => Follows(content)'
  BY DEF Follows
<1> SUFFICES ASSUME amiss = {} PROVE (OneDefines /\ PreviousIsDefined /\ RunningIsDefined)'
  BY DEF FollowInv
<1>2. OneDefines'
  BY DEF FollowInv, OneDefines, Defines
<1>3. PreviousIsDefined'
  BY DEF FollowInv, PreviousIsDefined, Defines, Follows
<1>4. RunningIsDefined'
  BY DEF FollowInv, RunningIsDefined, Defines, Follows
<1> QED  BY <1>2, <1>3, <1>4

\* A swap: if another reload is between its own swap and its definitions something
\* is amiss; if not, what ran is what is defined.
LEMMA SwapFollows ==
  ASSUME ReloadInv, FollowInv, NEW r \in Reloaders, Swap(r)
  PROVE  FollowInv'
<1>1. /\ job[r].stage = "swap" /\ running' = job[r].updated /\ defined' = defined
      /\ job' = [job EXCEPT ![r].stage = "define", ![r].previous = running]
      /\ amiss' = amiss \cup {"overlap" : other \in {o \in Reloaders : job[o].stage = "define"}}
  BY DEF Swap
<1>2. job[r] \in Jobs /\ job'[r] = [job[r] EXCEPT !.stage = "define", !.previous = running]
  BY <1>1 DEF ReloadInv
<1>3. /\ job'[r].stage = "define" /\ job'[r].updated = job[r].updated /\ job'[r].previous = running
      /\ \A o \in Reloaders : o # r => job'[o] = job[o]
  BY <1>1, <1>2 DEF ReloadInv, Jobs
<1> SUFFICES ASSUME amiss' = {} PROVE (OneDefines /\ PreviousIsDefined /\ RunningIsDefined)'
  BY DEF FollowInv
<1>4. amiss = {} /\ \A o \in Reloaders : job[o].stage # "define"
  BY <1>1
<1>5. Follows(running)
  BY <1>4 DEF FollowInv, RunningIsDefined, Defines
<1>6. OneDefines'
  BY <1>3, <1>4 DEF OneDefines, Defines
<1>7. PreviousIsDefined'
  BY <1>1, <1>3, <1>4, <1>5 DEF PreviousIsDefined, Defines, Follows
<1>8. RunningIsDefined'
  BY <1>3 DEF RunningIsDefined, Defines
<1> QED  BY <1>6, <1>7, <1>8

\* The definitions: a resource that is declared as it was before is in the store
\* already, and every other one is put there.
LEMMA DefineFollows ==
  ASSUME ReloadInv, FollowInv, NEW r \in Reloaders, Define(r)
  PROVE  FollowInv'
<1> SUFFICES ASSUME amiss' = {} PROVE (OneDefines /\ PreviousIsDefined /\ RunningIsDefined)'
  BY DEF FollowInv
<1> DEFINE before == job[r].previous
           after == job[r].updated
<1>1. job[r].stage = "define" /\ job' = [job EXCEPT ![r] = NoJob] /\ running' = running
  BY DEF Define
<1>2. /\ amiss = {}
      /\ defined' = [n \in Names |-> IF n \in Changed(before, after) THEN ResourceIn(after, n)
                                                                       ELSE defined[n]]
  BY DEF Define
<1>3. running = after /\ Follows(before) /\ \A o \in Reloaders : o # r => job[o].stage # "define"
  BY <1>1, <1>2 DEF FollowInv, PreviousIsDefined, OneDefines, Defines
<1>4. \A o \in Reloaders : job'[o].stage # "define"
  BY <1>1, <1>3, NoJobIsIdle DEF ReloadInv
<1>5. ASSUME NEW n \in DeclaredBy(after) PROVE defined'[n] = ResourceIn(after, n)
  <2>1. n \in Names
    BY <1>3, DeclaredAreNames DEF ReloadInv, Usable
  <2>2. CASE n \in Changed(before, after)
    BY <1>2, <2>1, <2>2
  <2>3. CASE n \notin Changed(before, after)
    <3>1. n \in DeclaredBy(before) /\ ResourceIn(before, n) = ResourceIn(after, n)
      BY <2>3 DEF Changed
    <3> QED  BY <1>2, <1>3, <2>1, <2>3, <3>1 DEF Follows
  <2> QED  BY <2>2, <2>3
<1>6. RunningIsDefined'
  BY <1>1, <1>3, <1>5 DEF RunningIsDefined, Follows
<1> QED  BY <1>4, <1>6 DEF OneDefines, PreviousIsDefined, Defines

\* Every step keeps it.
LEMMA FollowStep == ASSUME ReloadInv, FollowInv, [Next]_vars PROVE FollowInv'
<1>1. CASE WatcherStarts
  BY <1>1, NeitherSwapsNorDefines DEF WatcherStarts
<1>2. CASE Tick
  <2>1. CASE job' = job
    BY <1>2, <2>1, NeitherSwapsNorDefines DEF Tick
  <2>2. CASE job' = [job EXCEPT ![Watcher].stage = "load"]
    <3>1. job[Watcher].stage = "idle" /\ UNCHANGED <<running, defined, amiss>>
      BY <1>2, NoJobIsIdle DEF Tick
    <3>2. job'[Watcher].stage = "load" /\ \A o \in Reloaders : o # Watcher => job'[o] = job[o]
      BY <2>2, StageIs, WhoReloads
    <3> QED  BY <3>1, <3>2, NeitherSwapsNorDefines
  <2> QED  BY <1>2, <2>1, <2>2 DEF Tick
<1>3. ASSUME NEW r \in Askers, Ask(r) PROVE FollowInv'
  <2>1. /\ r \in Reloaders /\ job[r].stage = "idle" /\ UNCHANGED <<running, defined, amiss>>
        /\ job' = [job EXCEPT ![r].stage = "load"]
    BY <1>3, NoJobIsIdle, WhoReloads DEF Ask
  <2>2. job'[r].stage = "load" /\ \A o \in Reloaders : o # r => job'[o] = job[o]
    BY <2>1, StageIs
  <2> QED  BY <2>1, <2>2, NeitherSwapsNorDefines
<1>4. ASSUME NEW r \in Reloaders, Load(r) PROVE FollowInv'
  <2>1. /\ job[r].stage = "load" /\ UNCHANGED <<running, defined, amiss>>
        /\ job' = [job EXCEPT ![r].stage = "swap", ![r].updated = file]
    BY <1>4 DEF Load
  <2>2. job[r] \in Jobs /\ job'[r] = [job[r] EXCEPT !.stage = "swap", !.updated = file]
    BY <2>1 DEF ReloadInv
  <2>3. job'[r].stage = "swap" /\ \A o \in Reloaders : o # r => job'[o] = job[o]
    BY <2>1, <2>2 DEF ReloadInv, Jobs
  <2> QED  BY <2>1, <2>3, NeitherSwapsNorDefines
<1>5. ASSUME NEW r \in Reloaders, LoadFails(r) PROVE FollowInv'
  <2>1. /\ job[r].stage = "load" /\ UNCHANGED <<running, defined, amiss>>
        /\ job' = [job EXCEPT ![r] = NoJob]
    BY <1>5 DEF LoadFails
  <2>2. job'[r].stage = "idle" /\ \A o \in Reloaders : o # r => job'[o] = job[o]
    BY <2>1, NoJobIsIdle DEF ReloadInv
  <2> QED  BY <2>1, <2>2, NeitherSwapsNorDefines
<1>6. ASSUME NEW content \in Contents, Edit(content) PROVE FollowInv'
  BY <1>6, NeitherSwapsNorDefines DEF Edit
<1>7. CASE Chmod
  BY <1>7, NeitherSwapsNorDefines DEF Chmod
<1>8. CASE UNCHANGED vars
  BY <1>8, NeitherSwapsNorDefines DEF vars
<1> QED  BY <1>1, <1>2, <1>3, <1>4, <1>5, <1>6, <1>7, <1>8, SwapFollows, DefineFollows DEF Next, Reloads

\* It holds when the daemon has defined the resources of its first configuration.
LEMMA FollowInit == Init => FollowInv
<1> SUFFICES ASSUME Init PROVE FollowInv
  OBVIOUS
<1>1. running \in Contents /\ running = First
  BY ReloadAssumption DEF Init
<1>2. Follows(running)
  BY <1>1, DeclaredAreNames DEF Init, Follows
<1>3. \A r \in Reloaders : ~Defines(r)
  BY NoJobIsIdle DEF Init, Defines
<1> QED  BY <1>2, <1>3 DEF FollowInv, OneDefines, PreviousIsDefined, RunningIsDefined

\* What is declared is what is defined, for any sequence of edits and reloads: it is
\* enough that a reload compares its configuration with the one it replaced, as long
\* as no two reloads overlap and the store takes every resource.
THEOREM DefinitionsFollow == Spec => []ResourcesFollow
<1>1. FollowInv /\ ReloadInv /\ [Next]_vars => FollowInv'
  BY FollowStep
<1> QED  BY <1>1, FollowInit, ReloadInvariant, FollowInvIsEnough, PTL DEF Spec

=============================================================================
