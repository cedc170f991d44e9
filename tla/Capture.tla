------------------------------ MODULE Capture -------------------------------
(***************************************************************************)
(* How benchmark artifacts come to be on disk: the xtask runner (`cargo    *)
(* bench-all`, `cargo bench-all capture`), the bench processes it spawns,  *)
(* and benchkit's write_run, which puts a report's files into out_dir().   *)
(* Every file operation is a step: it may fail, the runner may be          *)
(* interrupted before it, and the working tree may be edited or committed  *)
(* at any time.  A file is abstracted to its stamp: the invocation and the *)
(* pass that wrote it.                                                     *)
(*                                                                         *)
(* Operators that stand directly before the one they vary (KeepPrevious,   *)
(* PerfInPlace, ...) are faulty versions of it, kept to show that the      *)
(* properties notice the slip.                                             *)
(***************************************************************************)
EXTENDS Integers, Sequences, Functions

CONSTANTS Procs,          \* concurrently running xtask processes
          Trees,          \* states of the working tree: [sha, dirty, edit]
          Scenarios,      \* tree -> labels its latency benches measure
          BENCH_CRATES, ALLOC_CRATES, PERF_CRATES, \* the crates of a capture's passes, sequences
          IAI_CRATES,
          Requests,       \* parsed bench-all arguments: [crates, intents]
          MaxRuns,        \* bound on the number of runner invocations
          NONE

VARIABLES tree,   \* the working tree as it is now
          fs,     \* directory -> (file -> stamp); a directory without files is absent
          job,    \* per process, the invocation in progress or the last one
          runs,   \* invocations so far
          claim   \* ghost: capture directory -> the capture that last set about it,
                  \* whether files it found there were cleared away, not kept
                  \* unread, and whether no other capture was running in it

vars == <<tree, fs, job, runs, claim>>

run_id(t) == <<t.sha, t.dirty>>

Scratch(id)   == <<"target/bench-runs", id>>
Published(id) == <<"docs/perf", id>>
Temp(p)       == <<"tmp", p>>

RunIds == {run_id(t) : t \in Trees}
PublishedDirs == {Published(id) : id \in RunIds}
Dirs   == {Scratch(id) : id \in RunIds} \union {Published(id) : id \in RunIds}
          \union {Temp(p) : p \in Procs}

\* Every tree's benches measure something; the crate lists of xtask name a
\* crate once.
ASSUME CaptureAssumption ==
  /\ MaxRuns \in Nat
  /\ \A t \in Trees : (t.edit = 0) = ~t.dirty /\ Scenarios[t] # {}
  /\ \A crates \in {BENCH_CRATES, ALLOC_CRATES, PERF_CRATES} : crates \in Seq(Range(crates))
  /\ IsInjective(BENCH_CRATES)
  /\ NONE \notin Dirs /\ NONE \notin {"capture", "ok"}

NoFiles == [f \in {} |-> NONE]

\* File names: a report's md, csv, gnuplot and svg, and one .hdr per scenario;
\* a pass's own output.
ReportFile(c, ext)    == <<"report", c, ext, NONE>>
Hdr(c, label)         == <<"report", c, "hdr", label>>
PassFile(pass, ext)   == <<pass.kind, pass.crate, ext, NONE>>
Environment           == <<"environment", NONE, "txt", NONE>>

Labels == UNION {Scenarios[t] : t \in Trees}

Pass(kind, c) == [kind |-> kind, crate |-> c]

\* The passes of a capture, in order.
CapturePasses ==
  [i \in DOMAIN BENCH_CRATES |-> Pass("latency", BENCH_CRATES[i])]
  \o <<Pass("cross_core", "ipc"), Pass("cache", "matcher")>>
  \o [i \in DOMAIN ALLOC_CRATES |-> Pass("alloc", ALLOC_CRATES[i])]
  \o [i \in DOMAIN PERF_CRATES |-> Pass("perfstat", PERF_CRATES[i])]
  \o <<Pass("plots", NONE)>>

\* The passes of an intent run: per crate, the intents in a fixed order; a
\* crate without an iai bench or alloc proof skips that intent and goes on.
IntentOrder == <<"latency", "cache", "alloc", "perfstat", "plots", "flamegraph">>

Supports(c, intent) ==
  /\ intent = "cache" => c \in IAI_CRATES
  /\ intent = "alloc" => c \in Range(ALLOC_CRATES)

BenchPasses(req) ==
  LET of(c) == LET on(i) == i \in req.intents /\ Supports(c, i)
                   is    == SelectSeq(IntentOrder, on)
               IN  [i \in DOMAIN is |-> Pass(is[i], c)]
      upTo[k \in 0 .. Len(req.crates)] ==
        IF k = 0 THEN << >> ELSE upTo[k - 1] \o of(req.crates[k])
  IN  upTo[Len(req.crates)]

NoJob == [mode |-> NONE, run |-> 0, dir |-> NONE, todo |-> << >>, failed |-> FALSE, at |-> "idle",
          built |-> NONE, out |-> NONE, ok |-> TRUE, cleared |-> TRUE, result |-> NONE]

Init ==
  /\ tree \in Trees
  /\ fs = [d \in Dirs |-> NoFiles]
  /\ job = [p \in Procs |-> NoJob]
  /\ runs = 0
  /\ claim = [d \in PublishedDirs |-> [run |-> 0, cleared |-> TRUE, alone |-> TRUE]]
-----------------------------------------------------------------------------
Now(p)   == Head(job[p].todo)
Stamp(p) == [run |-> job[p].run, pass |-> Now(p).kind]

\* A directory after files are written into it, replacing those of their names.
Over(new, old) == [f \in DOMAIN new \union DOMAIN old |-> IF f \in DOMAIN new THEN new[f] ELSE old[f]]

Put(d, S, stamp) == [fs EXCEPT ![d] = Over([f \in S |-> stamp], fs[d])]

Dropped(d, S) == [fs EXCEPT ![d] = Restrict(fs[d], DOMAIN fs[d] \ S)]

Goto(p, at) == job' = [job EXCEPT ![p].at = at]

\* What the environment of the pass's process holds: a capture routes every
\* bench into its directory, perfstat routes its bench into a scratch directory.
PerfInPlace(p) == IF job[p].mode = "capture" THEN job[p].dir ELSE NONE

BENCH_OUT_DIR(p) ==
  IF Now(p).kind = "perfstat" THEN Temp(p)
  ELSE IF job[p].mode = "capture" THEN job[p].dir ELSE NONE

\* out_dir() of a process: the variable if it is set, else the scratch
\* directory of the run id as it is when the process asks.
out_dir(p) ==
  IF BENCH_OUT_DIR(p) # NONE THEN BENCH_OUT_DIR(p) ELSE Scratch(run_id(tree))

\* The first step of a pass.
Entry(todo) ==
  CASE todo = << >>                            -> "report"
    [] todo # << >> /\ Head(todo).kind = "cache" -> "run"
    [] todo # << >> /\ Head(todo).kind = "plots" -> "plots"
    [] OTHER                                   -> "build"

EnterPass(j, todo) == [j EXCEPT !.todo = todo, !.at = Entry(todo), !.built = NONE, !.out = NONE, !.ok = TRUE,
                                   !.cleared = TRUE]

\* The `step` closure of a capture notes a failed pass and goes on; an intent
\* run returns at the first failure.
FailureForgotten(j, ok) == j.failed

Failure(j, ok) == IF ok THEN j.failed ELSE TRUE

Stopped(j, result) == [NoJob EXCEPT !.mode = j.mode, !.run = j.run, !.dir = j.dir, !.result = result]

PassDone(j, ok) ==
  IF j.mode = "bench" /\ ~ok THEN Stopped(j, "failed")
  ELSE EnterPass([j EXCEPT !.failed = Failure(j, ok)], Tail(j.todo))
-----------------------------------------------------------------------------
Started(run, mode, dir, todo, at) ==
  [NoJob EXCEPT !.mode = mode, !.run = run, !.dir = dir, !.todo = todo, !.at = at]

CanStart(p) == job[p].at = "idle" /\ runs < MaxRuns

\* A required tool is not on PATH, or perf_event_paranoid blocks counters: the
\* invocation is refused before anything is touched.
Refuse(p) ==
  /\ CanStart(p)
  /\ job' = [job EXCEPT ![p] = Stopped(Started(runs + 1, "refused", NONE, << >>, "idle"), "refused")]
  /\ runs' = runs + 1
  /\ UNCHANGED <<tree, fs, claim>>

StartBench(p) ==
  /\ CanStart(p)
  /\ \E req \in Requests :
       job' = [job EXCEPT ![p] = EnterPass(Started(runs + 1, "bench", NONE, << >>, NONE), BenchPasses(req))]
  /\ runs' = runs + 1
  /\ UNCHANGED <<tree, fs, claim>>

\* run_capture up to create_dir_all.  A directory left by an earlier attempt is
\* cleared first.  Its error, with everything, one file or nothing left, ends
\* the invocation, and so does create_dir_all's.  But a directory that cannot
\* be read passes for an empty one: it is kept and written into.
KeepPrevious(d) == DOMAIN fs[d]

Remaining(d) == {}

LeftBehind(d) == {DOMAIN fs[d], {}} \union {{f} : f \in DOMAIN fs[d]}

\* No other capture is running in d.
Alone(p, d) == \A q \in Procs \ {p} : job[q].at = "idle" \/ job[q].dir # d

Claimed(d, cleared, alone) == [claim EXCEPT ![d] = [run |-> runs + 1, cleared |-> cleared, alone |-> alone]]

StartCapture(p) ==
  /\ CanStart(p)
  /\ LET d     == Published(run_id(tree))
         going == Started(runs + 1, "capture", d, CapturePasses, "environment")
         ended == Stopped(Started(runs + 1, "capture", d, << >>, "idle"), "failed")
     IN  \/ /\ fs' = [fs EXCEPT ![d] = Restrict(fs[d], Remaining(d))]
            /\ job' = [job EXCEPT ![p] = going]
            /\ claim' = Claimed(d, TRUE, Alone(p, d))
         \/ /\ DOMAIN fs[d] # {}                   \* read_dir(..).unwrap_or(false)
            /\ job' = [job EXCEPT ![p] = going]
            /\ claim' = Claimed(d, FALSE, Alone(p, d))
            /\ UNCHANGED fs
         \/ \E left \in LeftBehind(d) :
              /\ fs' = [fs EXCEPT ![d] = Restrict(fs[d], left)]
              /\ job' = [job EXCEPT ![p] = ended]
              /\ claim' = Claimed(d, claim[d].cleared, claim[d].alone /\ Alone(p, d))
  /\ runs' = runs + 1
  /\ UNCHANGED tree

\* write_environment; its error ends the capture.
WriteEnvironment(p) ==
  /\ job[p].at = "environment"
  /\ \/ /\ fs' = Put(job[p].dir, {Environment}, [run |-> job[p].run, pass |-> "environment"])
        /\ job' = [job EXCEPT ![p] = EnterPass(job[p], job[p].todo)]
     \/ /\ job' = [job EXCEPT ![p] = Stopped(job[p], "failed")]
        /\ UNCHANGED fs
  /\ UNCHANGED <<tree, runs, claim>>

\* cargo builds what the tree holds now.
Build(p) ==
  /\ job[p].at = "build"
  /\ job' = [job EXCEPT ![p].built = tree,
                        ![p].at = CASE Now(p).kind \in {"latency", "perfstat"} -> "md"
                                    [] Now(p).kind \in {"cross_core", "alloc"} -> "raw"
                                    [] OTHER                                   -> "run"]
  /\ UNCHANGED <<tree, fs, runs, claim>>
-----------------------------------------------------------------------------
(* The bench process: write_run, file by file, into the directory out_dir() *)
(* named when it was called.                                                *)

WriteMd(p) ==
  /\ job[p].at = "md"
  /\ fs' = Put(out_dir(p), {ReportFile(Now(p).crate, "md")}, Stamp(p))
  /\ job' = [job EXCEPT ![p].at = "csv", ![p].out = out_dir(p)]
  /\ UNCHANGED <<tree, runs, claim>>

WriteCsv(p) ==
  /\ job[p].at = "csv"
  /\ fs' = Put(job[p].out, {ReportFile(Now(p).crate, "csv")}, Stamp(p))
  /\ Goto(p, "clear_hdr")
  /\ UNCHANGED <<tree, runs, claim>>

HdrFiles(d, c) == {f \in DOMAIN fs[d] : f[2] = c /\ f[3] = "hdr"}

\* `let _ = remove_dir_all(hdr_dir)`: an error, with some files gone and some
\* not, is ignored; `cleared` is a ghost that remembers it.
ClearsNothing(d, c) == {}

ReplacedHdr(d, c) == HdrFiles(d, c)

ClearHdr(p) ==
  LET d == job[p].out
      S == ReplacedHdr(d, Now(p).crate)
  IN  /\ job[p].at = "clear_hdr"
      /\ \E gone \in SUBSET S :
           /\ fs' = Dropped(d, gone)
           /\ job' = [job EXCEPT ![p].at = "hdr", ![p].cleared = (gone = S)]
      /\ UNCHANGED <<tree, runs, claim>>

WriteHdr(p) ==
  /\ job[p].at = "hdr"
  /\ fs' = Put(job[p].out, {Hdr(Now(p).crate, l) : l \in Scenarios[job[p].built]}, Stamp(p))
  /\ Goto(p, "gnuplot")
  /\ UNCHANGED <<tree, runs, claim>>

WriteGnuplot(p) ==
  /\ job[p].at = "gnuplot"
  /\ fs' = Put(job[p].out, {ReportFile(Now(p).crate, "gnuplot")}, Stamp(p))
  /\ Goto(p, "run")
  /\ UNCHANGED <<tree, runs, claim>>

\* cross_core writes one .hdr file, an allocation proof one json file.  The
\* json is dhat's, written when its profiler is dropped: an error there is
\* printed and the process still ends well.
WriteRaw(p) ==
  /\ job[p].at = "raw"
  /\ \/ fs' = Put(out_dir(p), {PassFile(Now(p), "raw")}, Stamp(p))
     \/ Now(p).kind = "alloc" /\ UNCHANGED fs
  /\ job' = [job EXCEPT ![p].at = "run", ![p].out = out_dir(p)]
  /\ UNCHANGED <<tree, runs, claim>>

ChildSteps == {"build", "md", "csv", "clear_hdr", "hdr", "gnuplot", "raw", "run"}

\* The build fails (nothing ran, no output is kept), or the process fails
\* where it stands; a series of .hdr writes may have got part of the way.
ChildFails(p) ==
  /\ job[p].at \in ChildSteps
  /\ job[p].ok
  /\ job' = [job EXCEPT ![p] = IF job[p].at = "build" THEN PassDone(job[p], FALSE)
                               ELSE [job[p] EXCEPT !.at = "run", !.ok = FALSE]]
  /\ IF job[p].at = "hdr"
     THEN \E S \in SUBSET Scenarios[job[p].built] :
            /\ S # Scenarios[job[p].built]
            /\ fs' = Put(job[p].out, {Hdr(Now(p).crate, l) : l \in S}, Stamp(p))
     ELSE UNCHANGED fs
  /\ UNCHANGED <<tree, runs, claim>>

\* The process has ended: a capture keeps its output even if it failed,
\* perfstat removes its scratch directory, and the pass is accounted for.
EndPass(p) ==
  /\ job[p].at = "run"
  /\ LET cleaned == [fs EXCEPT ![Temp(p)] = NoFiles]
     IN  \/ /\ fs' = IF job[p].mode = "capture"
                     THEN [cleaned EXCEPT ![job[p].dir] =
                             Over([f \in {PassFile(Now(p), "txt")} |-> Stamp(p)], cleaned[job[p].dir])]
                     ELSE cleaned
            /\ job' = [job EXCEPT ![p] = PassDone(job[p], job[p].ok)]
         \/ /\ job[p].mode = "capture"          \* the output file cannot be written
            /\ fs' = cleaned
            /\ job' = [job EXCEPT ![p] = PassDone(job[p], FALSE)]
  /\ UNCHANGED <<tree, runs, claim>>
-----------------------------------------------------------------------------
\* gnuplot on every script of the capture directory and on cross_core's raw
\* file; an intent run looks for the crate's script in out_dir() as it is now.
Scripts(p, d) ==
  {f \in DOMAIN fs[d] : f[3] = "gnuplot" /\ (job[p].mode = "capture" \/ f[2] = Now(p).crate)}

Drawable(p, d) ==
  Scripts(p, d) \union {f \in DOMAIN fs[d] : job[p].mode = "capture" /\ f[1] = "cross_core" /\ f[3] = "raw"}

Svg(f) == <<f[1], f[2], "svg", NONE>>

RenderPlots(p) ==
  LET d == IF job[p].mode = "capture" THEN job[p].dir ELSE out_dir(p)
      S == Drawable(p, d)
  IN  /\ job[p].at = "plots"
      /\ \E drawn \in SUBSET S :
           /\ fs' = [fs EXCEPT ![d] = Over([g \in {Svg(f) : f \in drawn} |-> Stamp(p)], fs[d])]
           /\ job' = [job EXCEPT ![p] = PassDone(job[p], drawn = S /\ Scripts(p, d) # {})]
      /\ UNCHANGED <<tree, runs, claim>>

\* The last lines of run_capture and of run.
Report(p) ==
  /\ job[p].at = "report"
  /\ job' = [job EXCEPT ![p] = Stopped(job[p], IF job[p].failed THEN "incomplete" ELSE "ok")]
  /\ UNCHANGED <<tree, fs, runs, claim>>

\* The runner is interrupted at the terminal, and its child with it.
\* Perfstat's scratch directory is left behind under a process id no later run
\* has, so the model forgets it.
Interrupt(p) ==
  /\ job[p].at # "idle"
  /\ job' = [job EXCEPT ![p] = Stopped(job[p], "interrupted")]
  /\ fs' = [fs EXCEPT ![Temp(p)] = NoFiles]
  /\ UNCHANGED <<tree, runs, claim>>

\* Somebody edits a file, commits, or checks something out.
EditTree ==
  /\ tree' \in Trees \ {tree}
  /\ UNCHANGED <<fs, job, runs, claim>>

Next ==
  \/ EditTree
  \/ \E p \in Procs :
       \/ Refuse(p) \/ StartBench(p) \/ StartCapture(p) \/ WriteEnvironment(p)
       \/ Build(p) \/ WriteMd(p) \/ WriteCsv(p) \/ ClearHdr(p) \/ WriteHdr(p) \/ WriteGnuplot(p)
       \/ WriteRaw(p) \/ ChildFails(p) \/ EndPass(p) \/ RenderPlots(p) \/ Report(p) \/ Interrupt(p)

Spec == Init /\ [][Next]_vars
-----------------------------------------------------------------------------
Sole(d) == claim[d].cleared /\ claim[d].alone

\* Two runs do not mix in a capture directory: whatever failed, was interrupted
\* or rerun, its files are all of one invocation, unless the last capture to
\* set about it found it unreadable and kept it (main.rs:458) or set about it
\* while another was running in it, which nothing in xtask prevents.
OneRunPerCapture ==
  \A d \in PublishedDirs : Sole(d) => \A f, g \in DOMAIN fs[d] : fs[d][f].run = fs[d][g].run

\* run_capture's "No post-hoc artifact gathering, so two runs can never mix",
\* of every directory in which no unread files were kept.
RunsNeverMix ==
  \A d \in PublishedDirs :
    claim[d].cleared => \A f, g \in DOMAIN fs[d] : fs[d][f].run = fs[d][g].run

\* A perf-instrumented bench never overwrites the reports of the clean latency
\* pass (run_perfstat routes its BENCH_OUT_DIR elsewhere for this reason).
ReportsAreFromTheLatencyPass ==
  \A id \in RunIds : \A d \in {Scratch(id), Published(id)} :
    \A f \in DOMAIN fs[d] :
      f[1] = "report" /\ f[3] # "svg" => fs[d][f].pass = "latency"

CaptureFiles ==
  {Environment}
  \union {PassFile(CapturePasses[i], "txt") : i \in 1 .. Len(CapturePasses) - 1}
  \union {ReportFile(c, e) : c \in Range(BENCH_CRATES), e \in {"md", "csv", "gnuplot", "svg"}}
  \union {PassFile(Pass("cross_core", "ipc"), e) : e \in {"raw", "svg"}}

\* "A canonical capture with silently missing passes is worse than no
\* capture": when run_capture has reported success, and as long as no other
\* capture has set about the directory before or since (nor was it kept
\* unreadable), the product of every pass is in it, made by this invocation,
\* with a curve for every report.  The one product success does not vouch for
\* is an allocation proof's json: the pass is judged by its exit status alone.
SuccessMeansComplete ==
  \A p \in Procs :
    /\ job[p].mode = "capture" /\ job[p].result = "ok"
    /\ claim[job[p].dir].run = job[p].run /\ Sole(job[p].dir)
    =>
      LET files == fs[job[p].dir]
      IN  /\ CaptureFiles \subseteq DOMAIN files
          /\ \A f \in DOMAIN files : files[f].run = job[p].run
          /\ \A c \in Range(BENCH_CRATES) : HdrFiles(job[p].dir, c) # {}

\* When write_run has returned, the report's files are one set: written by
\* this process, with an .hdr for every scenario it measured, and none left
\* from an earlier run at the same id unless remove_dir_all failed.
ReportSetIsWhole ==
  \A p \in Procs :
    job[p].at = "run" /\ job[p].ok /\ Now(p).kind \in {"latency", "perfstat"} =>
      LET d == job[p].out
          c == Now(p).crate
          measured == {Hdr(c, l) : l \in Scenarios[job[p].built]}
      IN  /\ job[p].cleared => HdrFiles(d, c) = measured
          /\ \A f \in measured \union {ReportFile(c, e) : e \in {"md", "csv", "gnuplot"}} :
               f \in DOMAIN fs[d] /\ fs[d][f] = Stamp(p)
=============================================================================
