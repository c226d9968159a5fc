------------------------------- MODULE Reload -------------------------------
(***************************************************************************)
(* The configuration of a running daemon: config.Load over the file an     *)
(* operator edits, Daemon.Reload, and those who call it: the watcher of    *)
(* the file, the hang-up signal and the API, each in its own goroutine.    *)
(*                                                                         *)
(* What a file says is abstracted to whether it can be loaded, the default *)
(* time to live and the resources it declares; everything else that is     *)
(* read live (capabilities, commands) is the configuration as a whole.     *)
(***************************************************************************)
EXTENDS Naturals, Sequences, FiniteSets, SequencesExt, FiniteSetsExt

CONSTANTS
  Names,           \* the resources
  Contents,        \* what the file may hold
  First,           \* what it holds when the daemon starts
  StableChecks,    \* how many equal readings mean that the file has settled
  MaxEdits, MaxAsks, MaxUpsets     \* bounds: edits, reloads asked for, upsets

Missing == [there |-> FALSE, parses |-> FALSE, sound |-> FALSE, default |-> 0, resources |-> <<>>]
NoFingerprint == [Missing EXCEPT !.parses = TRUE]     \* the zero fingerprint: equal to no reading
NoConfig == Missing
NoResource == [capacity |-> 0, ttl |-> 0]
Watcher == "watcher"
Askers == {"signal", "api"}
Reloaders == Askers \cup {Watcher}

Declarations == [name : Names, capacity : Nat, ttl : Nat]

(***************************************************************************)
(* Loading.                                                                *)
(***************************************************************************)

\* Resource: a declaration without a time to live of its own takes the default.
Resource(declared, default) ==
  [capacity |-> declared.capacity, ttl |-> IF declared.ttl = 0 THEN default ELSE declared.ttl]

DeclaredBy(content) == {d.name : d \in Range(content.resources)}
ResourceIn(content, name) ==
  Resource(CHOOSE d \in Range(content.resources) : d.name = name, content.default)

\* validateResources: each one has a capacity and a time to live, and none is declared twice.
ResourcesValid(content) ==
  /\ \A d \in Range(content.resources) : Resource(d, content.default).capacity > 0
                                           /\ Resource(d, content.default).ttl > 0
  /\ Cardinality(DeclaredBy(content)) = Len(content.resources)

\* Validate: paths, durations and names ("sound"), then the resources.
Valid(content) == content.sound /\ content.default > 0 /\ ResourcesValid(content)

\* Load: the file must be there, be nobody else's to read, and parse.
Loads(content, private) == content.there /\ private /\ content.parses /\ Valid(content)

ASSUME ReloadAssumption ==
  /\ StableChecks \in Nat \ {0} /\ MaxEdits \in Nat /\ MaxAsks \in Nat /\ MaxUpsets \in Nat
  /\ \A content \in Contents : Range(content.resources) \subseteq Declarations
  /\ First \in Contents /\ Loads(First, TRUE)

VARIABLES
  file,            \* the contents of the file
  private,         \* whether its permissions are acceptable
  running,         \* the daemon's configuration
  defined,         \* the resources in the store
  watch,           \* the watcher's variables
  job,             \* the reload each goroutine is in
  amiss,           \* what went wrong: two reloads overlapped, a resource was refused by the store
  edits, asks, upsets

world == <<file, private>>
bounds == <<edits, asks, upsets>>
vars == <<file, private, running, defined, watch, job, amiss, edits, asks, upsets>>

NoJob == [stage |-> "idle", updated |-> NoConfig, previous |-> NoConfig]

\* New has loaded the file and defined its resources; the watcher has yet to begin.
Init ==
  /\ file = First /\ private = TRUE
  /\ running = First
  /\ defined = [n \in Names |-> IF n \in DeclaredBy(First) THEN ResourceIn(First, n) ELSE NoResource]
  /\ watch = [on |-> "starting", loaded |-> NoFingerprint, candidate |-> NoFingerprint, quiet |-> 0,
              current |-> NoFingerprint]
  /\ job = [r \in Reloaders |-> NoJob]
  /\ amiss = {}
  /\ edits = 0 /\ asks = 0 /\ upsets = 0

(***************************************************************************)
(* The watcher.                                                            *)
(***************************************************************************)

\* watchConfiguration begins: without a file there is nothing to watch, ever.
WatcherStarts ==
  /\ watch.on = "starting"
  /\ watch' = IF file.there THEN [watch EXCEPT !.on = "on", !.loaded = file] ELSE [watch EXCEPT !.on = "off"]
  /\ UNCHANGED <<world, running, defined, job, amiss, bounds>>

Quiet == [watch EXCEPT !.candidate = NoFingerprint, !.quiet = 0]
\* Mistake: the new candidate is not recorded.
RestartsUnrecorded(current) == [watch EXCEPT !.quiet = 1]

Restarts(current) == [watch EXCEPT !.candidate = current, !.quiet = 1]

\* What a reading of the file makes of the watcher: it is what was loaded, it has not changed since
\* the last reading, or it changed again.
Reading(current) ==
  IF current = watch.loaded THEN Quiet
  ELSE IF current = watch.candidate THEN [watch EXCEPT !.quiet = @ + 1, !.current = current]
  ELSE Restarts(current)

Settled(w, current) == current # w.loaded /\ current = w.candidate /\ w.quiet >= StableChecks

\* The ticker: an unreadable file reads as a missing one.
Tick ==
  /\ watch.on = "on" /\ job[Watcher] = NoJob
  /\ watch' = Reading(file)
  /\ job' = IF Settled(watch', file) /\ watch'.quiet # watch.quiet
              THEN [job EXCEPT ![Watcher].stage = "load"] ELSE job
  /\ UNCHANGED <<world, running, defined, amiss, bounds>>

(***************************************************************************)
(* Reload.                                                                 *)
(***************************************************************************)

\* A hang-up, or a call of the API.
Ask(r) ==
  /\ job[r] = NoJob /\ asks < MaxAsks
  /\ asks' = asks + 1
  /\ job' = [job EXCEPT ![r].stage = "load"]
  /\ UNCHANGED <<world, running, defined, watch, amiss, edits, upsets>>

\* Mistake: what was read is not validated.
LoadUnchecked(r) ==
  /\ job[r].stage = "load" /\ file.there /\ private /\ file.parses
  /\ job' = [job EXCEPT ![r].stage = "swap", ![r].updated = file]
  /\ UNCHANGED <<world, running, defined, watch, amiss, bounds>>

\* The file is read again, whatever the watcher read.
Load(r) ==
  /\ job[r].stage = "load" /\ Loads(file, private)
  /\ job' = [job EXCEPT ![r].stage = "swap", ![r].updated = file]
  /\ UNCHANGED <<world, running, defined, watch, amiss, bounds>>

\* The daemon carries on with what it has; the watcher counts again from the next reading.
LoadFails(r) ==
  /\ job[r].stage = "load" /\ ~Loads(file, private)
  /\ job' = [job EXCEPT ![r] = NoJob]
  /\ watch' = IF r = Watcher THEN Quiet ELSE watch
  /\ UNCHANGED <<world, running, defined, amiss, bounds>>

\* The configuration is replaced, under its lock.
Swap(r) ==
  /\ job[r].stage = "swap"
  /\ running' = job[r].updated
  /\ job' = [job EXCEPT ![r].stage = "define", ![r].previous = running]
  /\ amiss' = amiss \cup {"overlap" : other \in {o \in Reloaders : job[o].stage = "define"}}
  /\ UNCHANGED <<world, defined, watch, bounds>>

\* Mistake: the time to live is not compared.
ChangedCapacity(before, after) ==
  {n \in DeclaredBy(after) :
     n \in DeclaredBy(before) => ResourceIn(before, n).capacity # ResourceIn(after, n).capacity}

\* The resources that are declared differently from before; one that went from the file stays.
Changed(before, after) ==
  {n \in DeclaredBy(after) : n \in DeclaredBy(before) => ResourceIn(before, n) # ResourceIn(after, n)}

\* applyResources, then Reload returns; what the watcher had read counts as loaded.  A resource that
\* the store refuses is passed over.
Define(r) ==
  LET before == job[r].previous
      after == job[r].updated
      changed == Changed(before, after)
  IN /\ job[r].stage = "define"
     /\ job' = [job EXCEPT ![r] = NoJob]
     /\ watch' = IF r = Watcher THEN [Quiet EXCEPT !.loaded = watch.current] ELSE watch
     /\ \/ /\ defined' = [n \in Names |-> IF n \in changed THEN ResourceIn(after, n) ELSE defined[n]]
           /\ UNCHANGED <<amiss, upsets>>
        \/ /\ changed # {} /\ upsets < MaxUpsets
           /\ amiss' = amiss \cup {"refused"} /\ upsets' = upsets + 1
           /\ UNCHANGED defined
     /\ UNCHANGED <<world, running, edits, asks>>

(***************************************************************************)
(* The operator.                                                           *)
(***************************************************************************)

Edit(content) ==
  /\ edits < MaxEdits /\ content # file
  /\ edits' = edits + 1 /\ file' = content
  /\ UNCHANGED <<private, running, defined, watch, job, amiss, asks, upsets>>

\* The file is opened to others; and is made private again without an edit.
Chmod ==
  /\ private => upsets < MaxUpsets
  /\ private' = ~private
  /\ upsets' = IF private THEN upsets + 1 ELSE upsets
  /\ UNCHANGED <<file, running, defined, watch, job, amiss, edits, asks>>

Reloads(r) == Load(r) \/ LoadFails(r) \/ Swap(r) \/ Define(r)

Next ==
  \/ WatcherStarts \/ Tick
  \/ \E r \in Askers : Ask(r)
  \/ \E r \in Reloaders : Reloads(r)
  \/ \E content \in Contents : Edit(content)
  \/ Chmod

Spec == Init /\ [][Next]_vars

\* The ticker ticks and a reload that began goes on.
FairSpec == Spec /\ WF_vars(WatcherStarts) /\ WF_vars(Tick) /\ \A r \in Reloaders : WF_vars(Reloads(r))

(***************************************************************************)
(* Properties.                                                             *)
(***************************************************************************)

\* Types, and that a configuration that cannot be used never runs.
TypeOK ==
  /\ file \in Contents /\ running \in {c \in Contents : Loads(c, TRUE)}
  /\ \A r \in Reloaders : job[r].stage \in {"idle", "load", "swap", "define"}
  /\ amiss \subseteq {"overlap", "refused"}
  /\ watch.quiet \in 0 .. StableChecks
  /\ watch.loaded \in Contents \cup {NoFingerprint} /\ watch.candidate \in Contents \cup {NoFingerprint}

\* What is declared is what is defined: comparing each configuration only with the one before it
\* loses nothing, as long as reloads do not overlap and the store takes every resource.
ResourcesFollow ==
  amiss = {} /\ (\A r \in Reloaders : job[r].stage # "define")
    => \A n \in DeclaredBy(running) : defined[n] = ResourceIn(running, n)

\* An edit is picked up: a file that can be loaded and that the watcher has not loaded yet is
\* applied once it is left alone, whatever was wrong with it before.  Left out are an edit that falls
\* within the watcher's own reload, and a reload that overlaps the watcher's and takes effect last.
SettledIsApplied ==
  \A content \in Contents :
    (/\ watch.on = "on" /\ job[Watcher] = NoJob
     /\ file = content /\ Loads(content, private) /\ watch.loaded # content)
      ~> (running = content \/ file # content \/ ~private \/ "overlap" \in amiss)

\* "Three restart delays after the last edit" (RestartDelay): a file that is left alone is the
\* configuration that runs.
SettledIsRunning ==
  \A content \in Contents :
    <>[](watch.on = "on" /\ file = content /\ Loads(content, private)) => <>[](running = content)
=============================================================================
